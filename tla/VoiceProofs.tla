----------------------------- MODULE VoiceProofs -----------------------------
(***************************************************************************)
(* Proofs about the voice track: its types, the one connection, the labels *)
(* of the audio, and what audio the page may lose.                         *)
(***************************************************************************)
EXTENDS Voice, TLAPS

(***************************************************************************)
(* The connection.                                                         *)
(***************************************************************************)

\* The client's fields.
Clients ==
  [socket : BOOLEAN, opened : BOOLEAN, closed : BOOLEAN, unavailable : BOOLEAN,
   attempts : 0..Delays, pending : Seq(Cards), backlog : Seq(Cards), handle : BOOLEAN]

\* The client's fields follow the connection: the socket is there while it is being made
\* or open, and one that is neither closed nor given up and has none is between two.
ConnInv ==
  /\ alive = IF conn = "none" THEN 0 ELSE 1
  /\ tts.socket <=> conn \in {"connecting", "open"}
  /\ tts.opened <=> conn = "open"
  /\ ~tts.socket /\ ~tts.closed /\ ~tts.unavailable => conn = "none"
  /\ tts.unavailable => ~tts.socket
  /\ tts.closed <=> session # "RUNNING"

Conns == {"none", "connecting", "open", "broken", "aborting", "closing"}

\* The record that start() leaves when it makes a connection.
LEMMA SocketMade ==
  ASSUME NEW c \in Clients
  PROVE  LET d == [c EXCEPT !.socket = TRUE]
         IN  /\ d \in Clients
             /\ d.socket /\ (d.opened <=> c.opened) /\ (d.closed <=> c.closed)
             /\ (d.unavailable <=> c.unavailable) /\ (d.handle <=> c.handle)
             /\ d.pending = c.pending /\ d.backlog = c.backlog
BY DEF Clients

\* start() from a state whose flags are those of now: the connection it makes is the
\* only one.
LEMMA StartsConn ==
  ASSUME NEW c \in Clients, ConnInv, conn \in Conns, Starts(c), UNCHANGED session,
         c.socket <=> tts.socket, c.opened <=> tts.opened, c.closed <=> tts.closed,
         c.unavailable <=> tts.unavailable
  PROVE  /\ ConnInv' /\ conn' \in Conns /\ alive' \in Nat
         /\ tts' \in Clients /\ (tts'.handle <=> c.handle)
         /\ tts'.pending = c.pending /\ tts'.backlog = c.backlog
         /\ (tts'.unavailable <=> tts.unavailable)
         /\ conn = "open" => conn' = "open"
         /\ conn' \in {conn, "connecting"}
<1>1. CASE MayStart(c)
  <2>1. /\ tts' = [c EXCEPT !.socket = TRUE] /\ conn' = "connecting" /\ alive' = alive + 1
    BY <1>1 DEF Starts
  <2>2. conn = "none" /\ ~tts.socket /\ ~tts.closed /\ ~tts.unavailable /\ ~tts.opened
    BY <1>1 DEF MayStart, ConnInv
  <2>3. alive' = 1
    BY <2>1, <2>2 DEF ConnInv
  <2>4. /\ tts' \in Clients
        /\ tts'.socket /\ ~tts'.opened /\ ~tts'.closed /\ ~tts'.unavailable
        /\ (tts'.handle <=> c.handle)
        /\ tts'.pending = c.pending /\ tts'.backlog = c.backlog
    BY <2>1, <2>2, SocketMade, Zenon
  <2>5. session' = "RUNNING"
    BY <2>2 DEF ConnInv
  <2>. QED
    BY <2>1, <2>2, <2>3, <2>4, <2>5 DEF ConnInv, Conns
<1>2. CASE ~MayStart(c)
  BY <1>2 DEF Starts, ConnInv, Conns
<1>. QED
  BY <1>1, <1>2

\* What the client is left with when the voice is given up.
LEMMA GivenUp ==
  ASSUME NEW c \in Clients
  PROVE  /\ Unavailable(c) \in Clients
         /\ ~Unavailable(c).socket /\ ~Unavailable(c).opened /\ Unavailable(c).unavailable
         /\ (Unavailable(c).closed <=> c.closed) /\ ~Unavailable(c).handle
         /\ Unavailable(c).pending = <<>> /\ Unavailable(c).backlog = <<>>
<1>1. <<>> \in Seq(Cards)
  OBVIOUS
<1>. QED
  BY <1>1 DEF Clients, Unavailable

\* What speak() does to the client's two queues.
LEMMA Spoke ==
  ASSUME NEW c \in Clients, NEW card \in Cards
  PROVE  LET d == [c EXCEPT !.pending = Append(@, card)]
             e == [d EXCEPT !.backlog = Append(@, card)]
         IN  /\ d \in Clients /\ e \in Clients
             /\ (d.socket <=> c.socket) /\ (d.opened <=> c.opened)
             /\ (d.closed <=> c.closed) /\ (d.unavailable <=> c.unavailable)
             /\ (e.socket <=> c.socket) /\ (e.opened <=> c.opened)
             /\ (e.closed <=> c.closed) /\ (e.unavailable <=> c.unavailable)
             /\ (d.handle <=> c.handle) /\ (e.handle <=> c.handle)
             /\ d.pending = Append(c.pending, card) /\ d.backlog = c.backlog
             /\ e.pending = Append(c.pending, card) /\ e.backlog = Append(c.backlog, card)
<1>1. Append(c.pending, card) \in Seq(Cards) /\ Append(c.backlog, card) \in Seq(Cards)
  BY DEF Clients
<1>. QED
  BY <1>1 DEF Clients

\* The types, of what the proofs follow.
VoiceTypes ==
  /\ session \in {"RUNNING", "DRAINING", "CLOSED"}
  /\ tts \in Clients
  /\ timers \in Nat /\ (tts.handle => timers > 0)
  /\ conn \in Conns
  /\ alive \in Nat /\ opens \in 0..MaxOpens /\ spoken \in 0..MaxCards
  /\ upstream \in Seq(Cards) /\ chunks \in 0..MaxChunks /\ cut \subseteq Cards

LEMMA OpenedIs ==
  ASSUME NEW c \in Clients
  PROVE  /\ Opened(c) \in Clients
         /\ (Opened(c).socket <=> c.socket) /\ Opened(c).opened
         /\ (Opened(c).closed <=> c.closed) /\ (Opened(c).unavailable <=> c.unavailable)
         /\ (Opened(c).handle <=> c.handle)
         /\ Opened(c).pending = c.pending /\ Opened(c).backlog = <<>>
<1>1. <<>> \in Seq(Cards) /\ 0 \in 0..Delays
  BY VoiceAssumption
<1>. QED
  BY <1>1 DEF Clients, Opened

\* handleClose(): the connection is gone, and a retry is waited for if a delay is left.
Down(c) == [c EXCEPT !.opened = FALSE, !.socket = FALSE]
Waiting(c) == [c EXCEPT !.attempts = @ + 1, !.handle = TRUE]

LEMMA DownIs ==
  ASSUME NEW c \in Clients
  PROVE  /\ Down(c) \in Clients
         /\ ~Down(c).socket /\ ~Down(c).opened
         /\ (Down(c).closed <=> c.closed) /\ (Down(c).unavailable <=> c.unavailable)
         /\ (Down(c).handle <=> c.handle)
         /\ Down(c).pending = c.pending /\ Down(c).backlog = c.backlog
         /\ Down(c).attempts = c.attempts
<1>1. Down(c) \in Clients
  BY DEF Clients, Down
<1>2. ~Down(c).socket /\ ~Down(c).opened
  BY DEF Clients, Down
<1>3. (Down(c).closed <=> c.closed) /\ (Down(c).unavailable <=> c.unavailable) /\ (Down(c).handle <=> c.handle)
  BY DEF Clients, Down
<1>4. Down(c).pending = c.pending /\ Down(c).backlog = c.backlog /\ Down(c).attempts = c.attempts
  BY DEF Clients, Down
<1>. QED
  BY <1>1, <1>2, <1>3, <1>4

LEMMA WaitingIs ==
  ASSUME NEW c \in Clients, c.attempts < Delays
  PROVE  /\ Waiting(c) \in Clients
         /\ (Waiting(c).socket <=> c.socket) /\ (Waiting(c).opened <=> c.opened)
         /\ (Waiting(c).closed <=> c.closed) /\ (Waiting(c).unavailable <=> c.unavailable)
         /\ Waiting(c).pending = c.pending /\ Waiting(c).backlog = c.backlog
<1>1. c.attempts \in 0..Delays
  BY DEF Clients
<1>2. c.attempts + 1 \in 0..Delays
  BY <1>1, VoiceAssumption
<1>. QED
  BY <1>2 DEF Clients, Waiting

LEMMA FiredIs ==
  ASSUME NEW c \in Clients
  PROVE  /\ Fired(c) \in Clients
         /\ (Fired(c).socket <=> c.socket) /\ (Fired(c).opened <=> c.opened)
         /\ (Fired(c).closed <=> c.closed) /\ (Fired(c).unavailable <=> c.unavailable)
         /\ ~Fired(c).handle
         /\ Fired(c).pending = c.pending /\ Fired(c).backlog = c.backlog
BY DEF Clients, Fired

LEMMA ClosedIs ==
  ASSUME NEW c \in Clients
  PROVE  LET d == [c EXCEPT !.closed = TRUE, !.socket = FALSE, !.opened = FALSE, !.handle = FALSE]
         IN  /\ d \in Clients
             /\ d.closed /\ ~d.socket /\ ~d.opened /\ ~d.handle
             /\ (d.unavailable <=> c.unavailable)
             /\ d.pending = c.pending /\ d.backlog = c.backlog
BY DEF Clients

LEMMA RetiredIs ==
  ASSUME NEW c \in Clients, c.pending # <<>>, NEW q \in Seq(Cards)
  PROVE  LET d == [c EXCEPT !.pending = q]
         IN  /\ d \in Clients
             /\ (d.socket <=> c.socket) /\ (d.opened <=> c.opened)
             /\ (d.closed <=> c.closed) /\ (d.unavailable <=> c.unavailable)
             /\ (d.handle <=> c.handle)
             /\ d.pending = q /\ d.backlog = c.backlog
BY DEF Clients

(***************************************************************************)
(* Types, with the connection: the count of connections never goes below   *)
(* none because a close finds one.                                         *)
(***************************************************************************)

TypesAndConn == VoiceTypes /\ ConnInv

\* Giving up cancels the timer the client knows of, and only that one.
LEMMA CancelTypes ==
  ASSUME VoiceTypes, CancelRetry
  PROVE  timers' \in Nat
BY DEF VoiceTypes, CancelRetry

\* What is spoken is a card.
LEMMA NextCard ==
  ASSUME VoiceTypes, Speak
  PROVE  spoken + 1 \in Cards /\ spoken + 1 \in 0..MaxCards
<1>1. spoken < MaxCards
  BY DEF Speak
<1>2. spoken \in 0..MaxCards
  BY DEF VoiceTypes
<1>. QED
  BY <1>1, <1>2, VoiceAssumption DEF Cards

LEMMA TypesInit == Init => TypesAndConn
<1>. SUFFICES ASSUME Init PROVE TypesAndConn
  OBVIOUS
<1>1. <<>> \in Seq(Cards) /\ 0 \in 0..Delays /\ 0 \in 0..MaxOpens /\ 0 \in 0..MaxCards /\ 0 \in 0..MaxChunks
  BY VoiceAssumption
<1>2. Fresh \in Clients /\ ~Fresh.handle /\ ~Fresh.opened /\ ~Fresh.closed /\ ~Fresh.unavailable
  BY <1>1 DEF Fresh, Clients
<1>3. tts = [Fresh EXCEPT !.socket = TRUE]
  BY DEF Init
<1>4. /\ tts \in Clients /\ tts.socket
      /\ ~tts.handle /\ ~tts.opened /\ ~tts.closed /\ ~tts.unavailable
  BY <1>2, <1>3, SocketMade, Zenon
<1>. QED
  BY <1>1, <1>4 DEF TypesAndConn, VoiceTypes, ConnInv, Conns, Init

LEMMA TypesStep == TypesAndConn /\ [Next]_vars => TypesAndConn'
<1>. SUFFICES ASSUME TypesAndConn, [Next]_vars PROVE TypesAndConn'
  OBVIOUS
<1>. USE DEF TypesAndConn
<1>0. tts \in Clients /\ conn \in Conns /\ timers \in Nat /\ (tts.handle => timers > 0)
  BY DEF VoiceTypes
<1>1. CASE Speak
  <2>. DEFINE card == spoken + 1
              d == [tts EXCEPT !.pending = Append(@, card)]
              e == [d EXCEPT !.backlog = Append(@, card)]
  <2>1. /\ card \in Cards /\ spoken' \in 0..MaxCards
        /\ UNCHANGED <<session, timers, opens, chunks, cut>>
    BY <1>1, NextCard DEF Speak
  <2>2. \/ UNCHANGED <<tts, conn, alive, upstream>>
        \/ tts.opened /\ tts' = d /\ upstream' = Append(upstream, card) /\ UNCHANGED <<conn, alive>>
        \/ Starts(e) /\ UNCHANGED upstream
        \/ d.opened # tts.opened
    BY <1>1 DEF Speak, Writes
  <2>3. /\ d \in Clients /\ e \in Clients
        /\ (d.socket <=> tts.socket) /\ (d.opened <=> tts.opened)
        /\ (d.closed <=> tts.closed) /\ (d.unavailable <=> tts.unavailable)
        /\ (e.socket <=> tts.socket) /\ (e.opened <=> tts.opened)
        /\ (e.closed <=> tts.closed) /\ (e.unavailable <=> tts.unavailable)
        /\ (d.handle <=> tts.handle) /\ (e.handle <=> tts.handle)
    BY <1>0, <2>1, Spoke, Zenon
  <2>. HIDE DEF card, d, e
  <2>4. CASE UNCHANGED <<tts, conn, alive, upstream>>
    BY <2>1, <2>4 DEF VoiceTypes, ConnInv
  <2>5. CASE tts' = d /\ upstream' = Append(upstream, card) /\ UNCHANGED <<conn, alive>>
    <3>1. upstream' \in Seq(Cards)
      BY <2>1, <2>5 DEF VoiceTypes
    <3>2. VoiceTypes'
      BY <2>1, <2>3, <2>5, <3>1 DEF VoiceTypes
    <3>3. ConnInv'
      BY <2>1, <2>3, <2>5 DEF ConnInv
    <3>. QED
      BY <3>2, <3>3
  <2>6. CASE Starts(e) /\ UNCHANGED upstream
    <3>1. /\ ConnInv' /\ conn' \in Conns /\ alive' \in Nat
          /\ tts' \in Clients /\ (tts'.handle <=> e.handle)
      BY <1>0, <2>1, <2>3, <2>6, StartsConn
    <3>. QED
      BY <2>1, <2>3, <2>6, <3>1 DEF VoiceTypes
  <2>7. ~(d.opened # tts.opened)
    <3>1. d.opened \in BOOLEAN /\ tts.opened \in BOOLEAN
      BY <1>0, <2>3 DEF Clients
    <3>. QED
      BY <2>3, <3>1
  <2>. QED
    BY <2>2, <2>4, <2>5, <2>6, <2>7
<1>2. CASE Opens
  <2>1. /\ conn = "connecting" /\ conn' = "open" /\ tts' = Opened(tts) /\ upstream' = tts.backlog
        /\ opens' = opens + 1 /\ opens < MaxOpens
        /\ UNCHANGED <<session, timers, alive, chunks, spoken, cut>>
    BY <1>2 DEF Opens
  <2>2. opens' \in 0..MaxOpens
    BY <2>1, VoiceAssumption DEF VoiceTypes
  <2>3. upstream' \in Seq(Cards)
    BY <1>0, <2>1 DEF Clients
  <2>4. /\ tts' \in Clients
        /\ (tts'.socket <=> tts.socket) /\ tts'.opened
        /\ (tts'.closed <=> tts.closed) /\ (tts'.unavailable <=> tts.unavailable)
        /\ (tts'.handle <=> tts.handle)
    BY <1>0, <2>1, OpenedIs, Zenon
  <2>5. VoiceTypes'
    BY <2>1, <2>2, <2>3, <2>4 DEF VoiceTypes, Conns
  <2>6. ConnInv'
    BY <2>1, <2>4 DEF ConnInv
  <2>. QED
    BY <2>5, <2>6
<1>3. CASE Errors
  <2>1. /\ conn \in {"connecting", "open", "aborting"} /\ conn' = "broken" /\ CancelRetry
        /\ tts' = Unavailable(tts) /\ Lost
        /\ UNCHANGED <<session, alive, opens, spoken>>
    BY <1>3 DEF Errors
  <2>2. /\ tts' \in Clients /\ ~tts'.socket /\ ~tts'.opened /\ tts'.unavailable
        /\ (tts'.closed <=> tts.closed) /\ ~tts'.handle
    BY <1>0, <2>1, GivenUp, Zenon
  <2>3. timers' \in Nat
    BY <2>1, CancelTypes
  <2>4. upstream' \in Seq(Cards) /\ chunks' \in 0..MaxChunks /\ cut' \subseteq Cards
    <3>1. ToSet(upstream) \subseteq Cards
      BY DEF VoiceTypes, ToSet
    <3>2. <<>> \in Seq(Cards) /\ 0 \in 0..MaxChunks
      BY VoiceAssumption
    <3>. QED
      BY <2>1, <3>1, <3>2 DEF Lost, VoiceTypes
  <2>5. VoiceTypes'
    BY <2>1, <2>2, <2>3, <2>4 DEF VoiceTypes, Conns
  <2>6. ConnInv'
    BY <2>1, <2>2 DEF ConnInv
  <2>. QED
    BY <2>5, <2>6
<1>4. CASE Closes
  <2>1. /\ conn \in {"open", "broken", "closing"} /\ conn' = "none" /\ alive' = alive - 1 /\ Lost
        /\ UNCHANGED <<session, opens, spoken>>
    BY <1>4 DEF Closes
  <2>2. alive' = 0
    BY <2>1 DEF ConnInv
  <2>3. upstream' \in Seq(Cards) /\ chunks' \in 0..MaxChunks /\ cut' \subseteq Cards
    <3>1. ToSet(upstream) \subseteq Cards
      BY DEF VoiceTypes, ToSet
    <3>2. <<>> \in Seq(Cards) /\ 0 \in 0..MaxChunks
      BY VoiceAssumption
    <3>. QED
      BY <2>1, <3>1, <3>2 DEF Lost, VoiceTypes
  <2>4. \/ (tts.closed \/ tts.unavailable) /\ tts' = Down(tts) /\ UNCHANGED timers
        \/ /\ ~tts.closed /\ ~tts.unavailable /\ tts.attempts < Delays
           /\ tts' = Waiting(Down(tts)) /\ timers' = timers + 1
        \/ ~tts.closed /\ tts' = Unavailable(tts) /\ CancelRetry
    BY <1>4 DEF Closes, Down, Waiting
  <2>5. /\ tts' \in Clients /\ ~tts'.socket /\ ~tts'.opened /\ (tts'.closed <=> tts.closed)
        /\ timers' \in Nat /\ (tts'.handle => timers' > 0)
    <3>1. CASE (tts.closed \/ tts.unavailable) /\ tts' = Down(tts) /\ UNCHANGED timers
      BY <1>0, <3>1, DownIs
    <3>2. CASE /\ ~tts.closed /\ ~tts.unavailable /\ tts.attempts < Delays
               /\ tts' = Waiting(Down(tts)) /\ timers' = timers + 1
      <4>1. timers' \in Nat /\ timers' > 0
        BY <1>0, <3>2
      <4>2. Down(tts) \in Clients /\ Down(tts).attempts < Delays
        BY <1>0, <3>2, DownIs
      <4>3. /\ tts' \in Clients /\ ~tts'.socket /\ ~tts'.opened /\ (tts'.closed <=> tts.closed)
        BY <1>0, <3>2, <4>2, DownIs, WaitingIs, Zenon
      <4>. QED
        BY <4>1, <4>3
    <3>3. CASE tts' = Unavailable(tts) /\ CancelRetry
      BY <1>0, <3>3, GivenUp, CancelTypes
    <3>. QED
      BY <2>4, <3>1, <3>2, <3>3
  <2>6. VoiceTypes'
    BY <2>1, <2>2, <2>3, <2>5 DEF VoiceTypes, Conns
  <2>7. ConnInv'
    BY <2>1, <2>2, <2>5 DEF ConnInv
  <2>. QED
    BY <2>6, <2>7
<1>5. CASE TimerFires
  <2>1. /\ timers' = timers - 1 /\ timers > 0 /\ Starts(Fired(tts))
        /\ UNCHANGED <<session, upstream, chunks, opens, spoken, cut>>
    BY <1>5 DEF TimerFires
  <2>2. timers' \in Nat
    BY <1>0, <2>1
  <2>3. /\ ConnInv' /\ conn' \in Conns /\ alive' \in Nat
        /\ tts' \in Clients /\ (tts'.handle <=> Fired(tts).handle)
    BY <1>0, <2>1, FiredIs, StartsConn
  <2>4. ~tts'.handle
    BY <1>0, <2>3, FiredIs
  <2>. QED
    BY <2>1, <2>2, <2>3, <2>4 DEF VoiceTypes
<1>6. CASE SessionCloses
  <2>1. /\ session = "RUNNING" /\ session' = "DRAINING" /\ CancelRetry
        /\ tts' = [tts EXCEPT !.closed = TRUE, !.socket = FALSE, !.opened = FALSE, !.handle = FALSE]
        /\ UNCHANGED <<alive, upstream, chunks, opens, spoken, cut>>
    BY <1>6 DEF SessionCloses
  <2>2. /\ tts' \in Clients /\ tts'.closed /\ ~tts'.socket /\ ~tts'.opened /\ ~tts'.handle
    BY <1>0, <2>1, ClosedIs, Zenon
  <2>3. timers' \in Nat
    BY <2>1, CancelTypes
  <2>4. /\ conn' \in Conns /\ conn' \notin {"connecting", "open"}
        /\ (conn' = "none" <=> conn = "none")
    <3>1. conn' = CASE tts.socket /\ conn = "connecting" -> "aborting"
                    [] tts.socket /\ conn = "open" -> "closing"
                    [] OTHER -> conn
      BY <1>6 DEF SessionCloses
    <3>2. CASE conn = "connecting"
      BY <3>1, <3>2 DEF ConnInv, Conns
    <3>3. CASE conn = "open"
      BY <3>1, <3>3 DEF ConnInv, Conns
    <3>4. CASE conn \notin {"connecting", "open"}
      BY <1>0, <3>1, <3>4 DEF ConnInv, Conns
    <3>. QED
      BY <3>2, <3>3, <3>4
  <2>5. VoiceTypes'
    BY <2>1, <2>2, <2>3, <2>4 DEF VoiceTypes
  <2>6. ConnInv'
    BY <2>1, <2>2, <2>4 DEF ConnInv
  <2>. QED
    BY <2>5, <2>6
<1>7. CASE SessionEnds
  BY <1>7 DEF SessionEnds, VoiceTypes, ConnInv, clientVars
<1>8. CASE Answers
  <2>1. PICK whole \in BOOLEAN, final \in BOOLEAN :
          /\ conn \in {"open", "closing"} /\ upstream # <<>> /\ chunks < MaxChunks
          /\ Receives(Chunk(Head(upstream), chunks + 1, whole), final)
          /\ chunks' = (IF final THEN 0 ELSE chunks + 1)
          /\ upstream' = (IF final THEN Tail(upstream) ELSE upstream)
          /\ UNCHANGED <<session, timers, conn, alive, opens, spoken, cut>>
    BY <1>8 DEF Answers
  <2>2. chunks' \in 0..MaxChunks
    BY <2>1, VoiceAssumption DEF VoiceTypes
  <2>3. upstream' \in Seq(Cards)
    BY <2>1 DEF VoiceTypes
  <2>4. \/ tts' = tts
        \/ tts.pending # <<>> /\ tts' = [tts EXCEPT !.pending = Retired(final)]
    BY <2>1 DEF Receives
  <2>5. tts.pending # <<>> => Retired(final) \in Seq(Cards)
    BY <1>0 DEF Retired, Clients
  <2>6. /\ tts' \in Clients
        /\ (tts'.socket <=> tts.socket) /\ (tts'.opened <=> tts.opened)
        /\ (tts'.closed <=> tts.closed) /\ (tts'.unavailable <=> tts.unavailable)
        /\ (tts'.handle <=> tts.handle)
    <3>1. CASE tts' = tts
      BY <1>0, <3>1
    <3>2. CASE tts.pending # <<>> /\ tts' = [tts EXCEPT !.pending = Retired(final)]
      <4>1. Retired(final) \in Seq(Cards)
        BY <2>5, <3>2
      <4>. QED
        BY <1>0, <3>2, <4>1, RetiredIs, Zenon
    <3>. QED
      BY <2>4, <3>1, <3>2
  <2>7. VoiceTypes'
    BY <2>1, <2>2, <2>3, <2>6 DEF VoiceTypes
  <2>8. ConnInv'
    BY <2>1, <2>6 DEF ConnInv
  <2>. QED
    BY <2>7, <2>8
<1>9. CASE RunsTask
  BY <1>9 DEF RunsTask, VoiceTypes, ConnInv, clientVars
<1>10. CASE UNCHANGED vars
  BY <1>10 DEF vars, VoiceTypes, ConnInv, clientVars
<1>. QED
  BY <1>1, <1>2, <1>3, <1>4, <1>5, <1>6, <1>7, <1>8, <1>9, <1>10 DEF Next

\* The types hold, and the client's flags follow its connection, whatever fires.
LEMMA TypesHold == Spec => []TypesAndConn
<1>. QED
  BY TypesInit, TypesStep, PTL DEF Spec

\* The types of Voice.
THEOREM VoiceTypesHold == Spec => []TypeOK
<1>1. TypesAndConn => TypeOK
  BY Zenon DEF TypesAndConn, VoiceTypes, TypeOK, Clients, Conns
<1>. QED
  BY <1>1, TypesHold, PTL

\* One connection at most, and a socket is a connection (elevenlabs-tts.ts:8).
THEOREM VoiceOneConnection == Spec => []OneConnection
<1>1. TypesAndConn => OneConnection
  BY DEF TypesAndConn, ConnInv, OneConnection
<1>. QED
  BY <1>1, TypesHold, PTL

(***************************************************************************)
(* Labels.  Audio is given to the head of the client's queue, and the      *)
(* provider answers the head of its own: the two agree because, until a    *)
(* connection ends with something unanswered, the client's queue is what   *)
(* the provider has, followed by what is still to be written.              *)
(***************************************************************************)

LabelInv ==
  /\ conn \notin {"open", "closing"} => upstream = <<>> /\ chunks = 0
  /\ conn \in {"open", "closing"} => tts.backlog = <<>>
  /\ cut = {} => tts.pending = upstream \o tts.backlog
  /\ cut = {} => \A f \in frames : f.label = f.chunk.of

LEMMA LabelInit == Init => LabelInv
<1>. SUFFICES ASSUME Init PROVE LabelInv
  OBVIOUS
<1>1. tts.pending = <<>> /\ tts.backlog = <<>>
  BY DEF Init, Fresh
<1>. QED
  BY <1>1 DEF Init, LabelInv

\* What is unanswered when a connection ends is in cut.
LEMMA NothingCut ==
  ASSUME Lost, VoiceTypes, cut' = {}
  PROVE  cut = {} /\ upstream = <<>>
<1>1. cut = {} /\ ToSet(upstream) = {}
  BY DEF Lost
<1>2. upstream # <<>> => upstream[1] \in ToSet(upstream)
  BY DEF VoiceTypes, ToSet
<1>. QED
  BY <1>1, <1>2

LEMMA LabelStep == TypesAndConn /\ LabelInv /\ [Next]_vars => LabelInv'
<1>. SUFFICES ASSUME TypesAndConn, LabelInv, [Next]_vars PROVE LabelInv'
  OBVIOUS
<1>0. /\ tts \in Clients /\ conn \in Conns /\ upstream \in Seq(Cards)
      /\ tts.pending \in Seq(Cards) /\ tts.backlog \in Seq(Cards) /\ ConnInv /\ VoiceTypes
  BY DEF TypesAndConn, VoiceTypes, Clients
<1>1. CASE Speak
  <2>. DEFINE card == spoken + 1
              d == [tts EXCEPT !.pending = Append(@, card)]
              e == [d EXCEPT !.backlog = Append(@, card)]
  <2>1. /\ card \in Cards /\ session = "RUNNING"
        /\ UNCHANGED <<session, chunks, cut, frames>>
    BY <1>0, <1>1, NextCard DEF Speak
  <2>2. \/ UNCHANGED <<tts, conn, alive, upstream>>
        \/ d.opened /\ tts' = d /\ upstream' = Append(upstream, card) /\ UNCHANGED <<conn, alive>>
        \/ ~d.opened /\ ~tts.closed /\ ~tts.unavailable /\ Starts(e) /\ UNCHANGED upstream
    BY <1>1 DEF Speak, Writes
  <2>3. /\ d \in Clients /\ e \in Clients
        /\ (d.opened <=> tts.opened)
        /\ (e.socket <=> tts.socket) /\ (e.opened <=> tts.opened)
        /\ (e.closed <=> tts.closed) /\ (e.unavailable <=> tts.unavailable)
        /\ d.pending = Append(tts.pending, card) /\ d.backlog = tts.backlog
        /\ e.pending = Append(tts.pending, card) /\ e.backlog = Append(tts.backlog, card)
    BY <1>0, <2>1, Spoke, Zenon
  <2>. HIDE DEF card, d, e
  <2>4. CASE UNCHANGED <<tts, conn, alive, upstream>>
    BY <2>1, <2>4 DEF LabelInv
  <2>5. CASE d.opened /\ tts' = d /\ upstream' = Append(upstream, card) /\ UNCHANGED <<conn, alive>>
    <3>1. conn = "open" /\ tts.backlog = <<>>
      BY <1>0, <2>3, <2>5 DEF ConnInv, LabelInv
    <3>2. cut = {} => Append(tts.pending, card) = Append(upstream, card) \o <<>>
      BY <1>0, <2>1, <3>1 DEF LabelInv
    <3>3. tts'.backlog = <<>> /\ tts'.pending = Append(tts.pending, card)
      BY <2>3, <2>5, <3>1
    <3>. QED
      BY <2>1, <2>5, <3>1, <3>2, <3>3 DEF LabelInv
  <2>6. CASE ~d.opened /\ ~tts.closed /\ ~tts.unavailable /\ Starts(e) /\ UNCHANGED upstream
    <3>1. conn \in {"none", "connecting"}
      BY <1>0, <2>3, <2>6 DEF ConnInv
    <3>2. /\ conn' \in {conn, "connecting"}
          /\ tts'.pending = e.pending /\ tts'.backlog = e.backlog
      BY <1>0, <2>1, <2>3, <2>6, StartsConn
    <3>3. upstream = <<>> /\ chunks = 0 /\ conn' \notin {"open", "closing"}
      BY <3>1, <3>2 DEF LabelInv
    <3>4. Append(tts.backlog, card) = <<>> \o Append(tts.backlog, card)
      BY <1>0, <2>1
    <3>5. tts.backlog = <<>> \o tts.backlog
      BY <1>0
    <3>6. cut = {} => Append(tts.pending, card) = upstream \o Append(tts.backlog, card)
      BY <3>3, <3>4, <3>5, Zenon DEF LabelInv
    <3>. QED
      BY <2>1, <2>3, <2>6, <3>2, <3>3, <3>6 DEF LabelInv
  <2>. QED
    BY <2>2, <2>4, <2>5, <2>6
<1>2. CASE Opens
  <2>1. /\ conn = "connecting" /\ conn' = "open" /\ upstream' = tts.backlog
        /\ UNCHANGED <<chunks, cut, frames>>
    BY <1>2 DEF Opens
  <2>2. tts' = Opened(tts)
    BY <1>2 DEF Opens
  <2>3. tts'.pending = tts.pending /\ tts'.backlog = <<>>
    BY <1>0, <2>2, OpenedIs
  <2>4. cut = {} => tts.pending = tts.backlog \o <<>>
    BY <1>0, <2>1 DEF LabelInv
  <2>. QED
    BY <2>1, <2>3, <2>4 DEF LabelInv
<1>3. CASE Errors
  <2>1. conn' = "broken" /\ tts' = Unavailable(tts) /\ Lost /\ UNCHANGED frames
    BY <1>3 DEF Errors
  <2>2. tts'.pending = <<>> /\ tts'.backlog = <<>>
    BY <1>0, <2>1, GivenUp
  <2>3. cut' = {} => cut = {}
    BY <1>0, <2>1, NothingCut
  <2>4. upstream' = <<>> /\ chunks' = 0
    BY <2>1 DEF Lost
  <2>. QED
    BY <2>1, <2>2, <2>3, <2>4 DEF LabelInv
<1>4. CASE Closes
  <2>1. conn' = "none" /\ Lost /\ UNCHANGED frames
    BY <1>4 DEF Closes
  <2>2. \/ tts' = Down(tts)
        \/ tts.attempts < Delays /\ tts' = Waiting(Down(tts))
        \/ tts' = Unavailable(tts)
    BY <1>4 DEF Closes, Down, Waiting
  <2>3. \/ tts'.pending = tts.pending /\ tts'.backlog = tts.backlog
        \/ tts'.pending = <<>> /\ tts'.backlog = <<>>
    BY <1>0, <2>2, DownIs, WaitingIs, GivenUp
  <2>4. cut' = {} => cut = {} /\ upstream = <<>>
    BY <1>0, <2>1, NothingCut
  <2>5. upstream' = <<>> /\ chunks' = 0
    BY <2>1 DEF Lost
  <2>6. cut' = {} => tts'.pending = upstream' \o tts'.backlog
    BY <1>0, <2>3, <2>4, <2>5 DEF LabelInv
  <2>. QED
    BY <2>1, <2>4, <2>5, <2>6 DEF LabelInv
<1>5. CASE TimerFires
  <2>1. Starts(Fired(tts)) /\ UNCHANGED <<session, upstream, chunks, cut, frames>>
    BY <1>5 DEF TimerFires
  <2>2. /\ conn' \in {conn, "connecting"} /\ (conn = "open" => conn' = "open")
        /\ tts'.pending = tts.pending /\ tts'.backlog = tts.backlog
    BY <1>0, <2>1, FiredIs, StartsConn
  <2>3. conn' # conn => conn = "none"
    BY <1>0, <2>1, FiredIs DEF Starts, MayStart, ConnInv
  <2>. QED
    BY <2>1, <2>2, <2>3 DEF LabelInv
<1>6. CASE SessionCloses
  <2>1. /\ tts' = [tts EXCEPT !.closed = TRUE, !.socket = FALSE, !.opened = FALSE, !.handle = FALSE]
        /\ UNCHANGED <<upstream, chunks, cut, frames>>
    BY <1>6 DEF SessionCloses
  <2>2. tts'.pending = tts.pending /\ tts'.backlog = tts.backlog
    BY <1>0, <2>1, ClosedIs, Zenon
  <2>3. conn' \in {"open", "closing"} <=> conn \in {"open", "closing"}
    <3>1. conn' = CASE tts.socket /\ conn = "connecting" -> "aborting"
                    [] tts.socket /\ conn = "open" -> "closing"
                    [] OTHER -> conn
      BY <1>6 DEF SessionCloses
    <3>2. CASE conn = "connecting"
      BY <1>0, <3>1, <3>2 DEF ConnInv, Conns
    <3>3. CASE conn = "open"
      BY <1>0, <3>1, <3>3 DEF ConnInv, Conns
    <3>4. CASE conn \notin {"connecting", "open"}
      BY <1>0, <3>1, <3>4 DEF ConnInv, Conns
    <3>. QED
      BY <3>2, <3>3, <3>4
  <2>. QED
    BY <2>1, <2>2, <2>3 DEF LabelInv
<1>7. CASE SessionEnds
  BY <1>7 DEF SessionEnds, LabelInv, clientVars
<1>8. CASE Answers
  <2>1. PICK whole \in BOOLEAN, final \in BOOLEAN :
          /\ conn \in {"open", "closing"} /\ upstream # <<>> /\ chunks < MaxChunks
          /\ Receives(Chunk(Head(upstream), chunks + 1, whole), final)
          /\ chunks' = (IF final THEN 0 ELSE chunks + 1)
          /\ upstream' = (IF final THEN Tail(upstream) ELSE upstream)
          /\ UNCHANGED <<session, timers, conn, alive, opens, spoken, cut>>
    BY <1>8 DEF Answers
  <2>2. \/ tts' = tts /\ frames' = frames /\ tts.pending = <<>>
        \/ /\ tts.pending # <<>> /\ tts' = [tts EXCEPT !.pending = Retired(final)]
           /\ Emits(Head(tts.pending), Chunk(Head(upstream), chunks + 1, whole), final)
    BY <2>1 DEF Receives
  <2>3. tts.backlog = <<>>
    BY <2>1 DEF LabelInv
  <2>4. tts'.backlog = <<>>
    BY <1>0, <2>2, <2>3 DEF Clients
  <2>5. ASSUME cut = {}
        PROVE  tts'.pending = upstream' \o tts'.backlog /\ \A f \in frames' : f.label = f.chunk.of
    <3>1. tts.pending = upstream
      BY <1>0, <2>3, <2>5 DEF LabelInv
    <3>2. /\ tts' = [tts EXCEPT !.pending = Retired(final)]
          /\ Emits(Head(upstream), Chunk(Head(upstream), chunks + 1, whole), final)
      BY <2>1, <2>2, <3>1
    <3>3. tts'.pending = upstream'
      BY <1>0, <2>1, <3>1, <3>2 DEF Clients, Retired
    <3>4. upstream' \in Seq(Cards)
      BY <1>0, <2>1
    <3>5. \A f \in frames' : f \in frames \/ f = [label |-> Head(upstream), chunk |-> Chunk(Head(upstream), chunks + 1, whole)]
      BY <3>2 DEF Emits
    <3>6. \A f \in frames : f.label = f.chunk.of
      BY <2>5 DEF LabelInv
    <3>7. \A f \in frames' : f.label = f.chunk.of
      BY <3>5, <3>6 DEF Chunk
    <3>. QED
      BY <2>4, <3>3, <3>4, <3>7
  <2>. QED
    BY <2>1, <2>4, <2>5 DEF LabelInv
<1>9. CASE RunsTask
  BY <1>9 DEF RunsTask, LabelInv, clientVars
<1>10. CASE UNCHANGED vars
  BY <1>10 DEF vars, LabelInv, clientVars
<1>. QED
  BY <1>1, <1>2, <1>3, <1>4, <1>5, <1>6, <1>7, <1>8, <1>9, <1>10 DEF Next

\* Every frame carries the card it is of, while no connection has ended with a sentence
\* unanswered (elevenlabs-tts.ts:89-93).
THEOREM VoiceLabelledRight == Spec => []LabelledRight
<1>1. Init => TypesAndConn /\ LabelInv
  BY TypesInit, LabelInit
<1>2. TypesAndConn /\ LabelInv /\ [Next]_vars => (TypesAndConn /\ LabelInv)'
  BY TypesStep, LabelStep
<1>3. LabelInv => LabelledRight
  BY DEF LabelInv, LabelledRight
<1>. QED
  BY <1>1, <1>2, <1>3, PTL DEF Spec

(***************************************************************************)
(* What is lost.                                                           *)
(***************************************************************************)

\* A chunk of audio, and what may wait in the chain.
Bytes == [of : Cards, n : 1..MaxChunks, whole : BOOLEAN]
Entries == Bytes \cup {Flush}

StreamTypes ==
  /\ held \in Seq(Bytes) /\ chain \in Seq(Entries) /\ played \in Seq(Bytes)
  /\ frames \subseteq [label : Cards, chunk : Bytes]

LEMMA ByteIs ==
  ASSUME NEW b \in Bytes
  PROVE  /\ b # Flush /\ b.of \in Cards /\ b.n \in 1..MaxChunks /\ b.whole \in BOOLEAN
         /\ b = Chunk(b.of, b.n, b.whole) /\ b \in Entries
<1>1. b.of \in Cards /\ b.n \in 1..MaxChunks /\ b.whole \in BOOLEAN
  BY DEF Bytes
<1>2. b = Chunk(b.of, b.n, b.whole)
  BY DEF Bytes, Chunk
<1>3. b.of # 0
  BY <1>1, VoiceAssumption DEF Cards
<1>4. Flush.of = 0
  BY DEF Flush
<1>. QED
  BY <1>1, <1>2, <1>3, <1>4 DEF Entries

LEMMA ChunkIs ==
  ASSUME NEW c \in Cards, NEW n \in 1..MaxChunks, NEW w \in BOOLEAN
  PROVE  Chunk(c, n, w) \in Bytes /\ Chunk(c, n, w).of = c /\ Chunk(c, n, w).n = n /\ (Chunk(c, n, w).whole <=> w)
BY DEF Bytes, Chunk

LEMMA EntryIs ==
  ASSUME NEW b \in Entries
  PROVE  b = Flush \/ b \in Bytes
BY DEF Entries

\* What Answers does, when the session runs or drains and audio is awaited.
LEMMA StreamTypesStep == TypesAndConn /\ StreamTypes /\ [Next]_vars => StreamTypes'
<1>. SUFFICES ASSUME TypesAndConn, StreamTypes, [Next]_vars PROVE StreamTypes'
  OBVIOUS
<1>0. /\ tts.pending \in Seq(Cards) /\ upstream \in Seq(Cards) /\ chunks \in 0..MaxChunks
  BY DEF TypesAndConn, VoiceTypes, Clients
<1>1. CASE UNCHANGED <<frames, pageVars>>
  BY <1>1 DEF StreamTypes, pageVars
<1>2. CASE Answers
  <2>1. PICK whole \in BOOLEAN, final \in BOOLEAN :
          /\ upstream # <<>> /\ chunks < MaxChunks
          /\ Receives(Chunk(Head(upstream), chunks + 1, whole), final)
          /\ UNCHANGED <<held, played>>
    BY <1>2 DEF Answers
  <2>. DEFINE x == Chunk(Head(upstream), chunks + 1, whole)
  <2>2. chunks + 1 \in 1..MaxChunks
    BY <1>0, <2>1, VoiceAssumption
  <2>3. Head(upstream) \in Cards
    BY <1>0, <2>1
  <2>4. x \in Bytes
    BY <2>2, <2>3, ChunkIs
  <2>. HIDE DEF x
  <2>5. \/ UNCHANGED <<frames, chain>>
        \/ /\ tts.pending # <<>>
           /\ frames' = frames \cup {[label |-> Head(tts.pending), chunk |-> x]}
           /\ chain' = Append(chain, x) \o (IF final THEN <<Flush>> ELSE <<>>)
    BY <2>1 DEF Receives, Emits, Plays, x
  <2>6. CASE UNCHANGED <<frames, chain>>
    BY <2>1, <2>6 DEF StreamTypes
  <2>7. CASE /\ tts.pending # <<>>
             /\ frames' = frames \cup {[label |-> Head(tts.pending), chunk |-> x]}
             /\ chain' = Append(chain, x) \o (IF final THEN <<Flush>> ELSE <<>>)
    <3>1. Head(tts.pending) \in Cards
      BY <1>0, <2>7
    <3>2. [label |-> Head(tts.pending), chunk |-> x] \in [label : Cards, chunk : Bytes]
      BY <2>4, <3>1
    <3>3. x \in Entries /\ Flush \in Entries
      BY <2>4 DEF Entries
    <3>4. Append(chain, x) \in Seq(Entries)
      BY <3>3 DEF StreamTypes
    <3>5. (IF final THEN <<Flush>> ELSE <<>>) \in Seq(Entries)
      BY <3>3
    <3>6. chain' \in Seq(Entries)
      BY <2>7, <3>4, <3>5
    <3>. QED
      BY <2>1, <2>7, <3>2, <3>6 DEF StreamTypes
  <2>. QED
    BY <2>5, <2>6, <2>7
<1>3. CASE RunsTask
  <2>1. /\ chain # <<>> /\ chain' = Tail(chain) /\ UNCHANGED frames
    BY <1>3 DEF RunsTask
  <2>2. chain' \in Seq(Entries) /\ Head(chain) \in Entries
    BY <2>1 DEF StreamTypes
  <2>. DEFINE bytes == IF Head(chain) = Flush THEN held ELSE Append(held, Head(chain))
  <2>3. bytes \in Seq(Bytes)
    <3>1. CASE Head(chain) = Flush
      BY <3>1 DEF StreamTypes
    <3>2. CASE Head(chain) # Flush
      <4>1. Head(chain) \in Bytes
        BY <2>2, <3>2, EntryIs
      <4>. QED
        BY <3>2, <4>1 DEF StreamTypes
    <3>. QED
      BY <3>1, <3>2
  <2>4. PICK ok \in Decodes(bytes) :
           /\ played' = IF ok THEN played \o bytes ELSE played
           /\ held' = IF Head(chain) = Flush THEN Flushed(ok) ELSE HeldBack(ok, bytes)
    BY <1>3 DEF RunsTask
  <2>5. held' = <<>> \/ held' = bytes
    BY <2>4 DEF Flushed, HeldBack
  <2>6. played' = played \/ played' = played \o bytes
    BY <2>4, Zenon
  <2>. HIDE DEF bytes
  <2>7. held' \in Seq(Bytes)
    <3>1. <<>> \in Seq(Bytes)
      OBVIOUS
    <3>. QED
      BY <2>3, <2>5, <3>1, Zenon
  <2>8. played' \in Seq(Bytes)
    <3>1. played \in Seq(Bytes)
      BY DEF StreamTypes
    <3>2. played \o bytes \in Seq(Bytes)
      BY <2>3, <3>1
    <3>. QED
      BY <2>6, <3>1, <3>2, Zenon
  <2>. QED
    BY <2>1, <2>2, <2>7, <2>8 DEF StreamTypes
<1>. QED
  BY <1>1, <1>2, <1>3 DEF Next, Speak, Opens, Errors, Closes, TimerFires, SessionCloses, SessionEnds, vars

-----------------------------------------------------------------------------

\* Cards not answered: sent, or still to be written.
Awaited == Len(upstream) + Len(tts.backlog)

\* The card before the first of them.
Before == spoken - Awaited

\* Cards are answered in the order of their numbers.
QueueInv ==
  session = "RUNNING" =>
    /\ Awaited <= Len(tts.pending)
    /\ tts.unavailable => upstream = <<>>
    /\ upstream = <<>> => chunks = 0
    /\ ~tts.unavailable =>
         /\ \A i \in 1..Len(upstream) : upstream[i] = Before + i
         /\ \A i \in 1..Len(tts.backlog) : tts.backlog[i] = Before + Len(upstream) + i

\* What the page holds back, followed by what it has still to decode.
Stream == held \o chain

Joined(s, i, j) == \A k \in i..j : s[k] # Flush

\* What is in the stream came in a frame.
Here(s) == \A i \in 1..Len(s) : s[i] # Flush => \E f \in frames : f.chunk = s[i]

\* Between two flushes the chunks of a sentence follow one another, and one that is
\* followed by another sentence's was cut off.
Chained(s) ==
  \A i, j \in 1..Len(s) :
    i < j /\ Joined(s, i, j) =>
      \/ s[i].of = s[j].of /\ s[j].n = s[i].n + (j - i)
      \/ s[i].of # s[j].of /\ s[i].of \in cut /\ s[j].of - 1 \in cut

\* A flush follows the last chunk of a sentence.
EndWhole(s) == \A j \in 2..Len(s) : s[j] = Flush => s[j - 1].whole

\* Only torn chunks are held back, unless they are of several sentences.
Torn(s) == (\A i, j \in 1..Len(s) : s[i].of = s[j].of) => \A i \in 1..Len(s) : ~s[i].whole

Exempt(c) == c \in cut \/ c - 1 \in cut \/ Oversized(c)

\* Nothing else is lost.
Known(s) == \A f \in frames : f.chunk \in ToSet(s) \/ f.chunk \in ToSet(played) \/ Exempt(f.chunk.of)

StreamInv ==
  session = "RUNNING" =>
    Here(Stream) /\ Chained(Stream) /\ EndWhole(Stream) /\ Torn(held) /\ Known(Stream)

\* Where the stream ends: with the last chunk of the sentence being answered, with a
\* flush, or with a sentence that was cut off.
EndOf(s) ==
  /\ Len(s) > 0 /\ s[Len(s)] # Flush =>
       IF chunks > 0
       THEN s[Len(s)].of = Head(upstream) /\ s[Len(s)].n = chunks
       ELSE s[Len(s)].of \in cut /\ (~tts.unavailable => Before \in cut)
  /\ Len(s) > 0 /\ chunks > 0 => s[Len(s)] # Flush
  /\ ~tts.unavailable =>
       \A i \in 1..Len(s) : s[i].of <= Before + (IF chunks > 0 THEN 1 ELSE 0)

EndInv == session = "RUNNING" => EndOf(Stream)

\* The stream, index by index.
LEMMA StreamIs ==
  ASSUME StreamTypes
  PROVE  /\ Stream \in Seq(Entries) /\ Len(Stream) = Len(held) + Len(chain)
         /\ Len(held) \in Nat /\ Len(chain) \in Nat
         /\ \A i \in 1..Len(held) : Stream[i] = held[i]
         /\ \A i \in 1..Len(chain) : Stream[Len(held) + i] = chain[i]
<1>1. held \in Seq(Entries) /\ chain \in Seq(Entries)
  BY DEF StreamTypes, Entries
<1>. QED
  BY <1>1 DEF Stream

\* What stands at the end of another sequence.
Suffix(t, s) ==
  /\ t \in Seq(Entries) /\ s \in Seq(Entries) /\ Len(t) <= Len(s)
  /\ \A i \in 1..Len(t) : t[i] = s[i + (Len(s) - Len(t))]

LEMMA SuffixHere ==
  ASSUME NEW s, NEW t, Suffix(t, s), Here(s)
  PROVE  Here(t)
<1>. SUFFICES ASSUME NEW i \in 1..Len(t), t[i] # Flush PROVE \E f \in frames : f.chunk = t[i]
  BY DEF Here
<1>1. i + (Len(s) - Len(t)) \in 1..Len(s) /\ t[i] = s[i + (Len(s) - Len(t))]
  BY DEF Suffix
<1>. QED
  BY <1>1 DEF Here

LEMMA SuffixChained ==
  ASSUME NEW s, NEW t, Suffix(t, s), Chained(s)
  PROVE  Chained(t)
<1>. SUFFICES ASSUME NEW i \in 1..Len(t), NEW j \in 1..Len(t), i < j, Joined(t, i, j)
              PROVE  \/ t[i].of = t[j].of /\ t[j].n = t[i].n + (j - i)
                     \/ t[i].of # t[j].of /\ t[i].of \in cut /\ t[j].of - 1 \in cut
  BY DEF Chained
<1>. DEFINE d == Len(s) - Len(t)
<1>0. d \in Nat /\ Len(s) \in Nat /\ Len(t) \in Nat /\ Len(s) = Len(t) + d
  BY DEF Suffix
<1>1. \A k \in 1..Len(t) : t[k] = s[k + d]
  BY DEF Suffix
<1>. HIDE DEF d
<1>2. i + d \in 1..Len(s) /\ j + d \in 1..Len(s) /\ i + d < j + d /\ (j + d) - (i + d) = j - i
  BY <1>0
<1>3. Joined(s, i + d, j + d)
  <2>. SUFFICES ASSUME NEW k \in (i + d)..(j + d) PROVE s[k] # Flush
    BY DEF Joined
  <2>1. k - d \in i..j /\ k - d \in 1..Len(t) /\ (k - d) + d = k
    BY <1>0
  <2>. QED
    BY <1>1, <2>1 DEF Joined
<1>4. \/ s[i + d].of = s[j + d].of /\ s[j + d].n = s[i + d].n + ((j + d) - (i + d))
      \/ s[i + d].of # s[j + d].of /\ s[i + d].of \in cut /\ s[j + d].of - 1 \in cut
  BY <1>2, <1>3 DEF Chained
<1>. QED
  BY <1>1, <1>2, <1>4

LEMMA SuffixEndWhole ==
  ASSUME NEW s, NEW t, Suffix(t, s), EndWhole(s)
  PROVE  EndWhole(t)
<1>. SUFFICES ASSUME NEW j \in 2..Len(t), t[j] = Flush PROVE t[j - 1].whole
  BY DEF EndWhole
<1>. DEFINE d == Len(s) - Len(t)
<1>0. d \in Nat /\ Len(s) \in Nat /\ Len(t) \in Nat /\ Len(s) = Len(t) + d
  BY DEF Suffix
<1>1. \A k \in 1..Len(t) : t[k] = s[k + d]
  BY DEF Suffix
<1>. HIDE DEF d
<1>2. j \in 1..Len(t) /\ j - 1 \in 1..Len(t) /\ j + d \in 2..Len(s) /\ (j + d) - 1 = (j - 1) + d
  BY <1>0
<1>3. s[(j + d) - 1].whole
  BY <1>1, <1>2 DEF EndWhole
<1>. QED
  BY <1>1, <1>2, <1>3

LEMMA SuffixEnd ==
  ASSUME NEW s, NEW t, Suffix(t, s), EndOf(s)
  PROVE  EndOf(t)
<1>. DEFINE d == Len(s) - Len(t)
<1>0. d \in Nat /\ Len(s) \in Nat /\ Len(t) \in Nat /\ Len(s) = Len(t) + d
  BY DEF Suffix
<1>1. \A k \in 1..Len(t) : t[k] = s[k + d]
  BY DEF Suffix
<1>. HIDE DEF d
<1>2. Len(t) > 0 => Len(s) > 0 /\ t[Len(t)] = s[Len(s)]
  BY <1>0, <1>1
<1>3. \A i \in 1..Len(t) : i + d \in 1..Len(s)
  BY <1>0
<1>4. ~tts.unavailable => \A i \in 1..Len(t) : t[i].of <= Before + (IF chunks > 0 THEN 1 ELSE 0)
  BY <1>1, <1>3 DEF EndOf
<1>. QED
  BY <1>2, <1>4 DEF EndOf

-----------------------------------------------------------------------------
(* What the steps do to the sentences that are awaited.                     *)

\* A sentence is spoken: it is the last of what is awaited.
LEMMA SpeakQueue ==
  ASSUME TypesAndConn, LabelInv, Speak
  PROVE  /\ session = "RUNNING" /\ UNCHANGED <<session, chunks, cut, frames, pageVars>>
         /\ (tts'.unavailable <=> tts.unavailable)
         /\ spoken' = spoken + 1 /\ spoken + 1 \in Cards
         /\ ~tts.unavailable => tts'.pending = Append(tts.pending, spoken + 1)
         /\ tts.unavailable => UNCHANGED <<tts, upstream>>
         /\ ~tts.unavailable =>
              \/ tts.backlog = <<>> /\ tts'.backlog = <<>> /\ upstream' = Append(upstream, spoken + 1)
              \/ upstream = <<>> /\ upstream' = <<>> /\ tts'.backlog = Append(tts.backlog, spoken + 1)
<1>0. /\ tts \in Clients /\ conn \in Conns /\ upstream \in Seq(Cards)
      /\ tts.pending \in Seq(Cards) /\ tts.backlog \in Seq(Cards) /\ ConnInv /\ VoiceTypes
  BY DEF TypesAndConn, VoiceTypes, Clients
<1>. DEFINE card == spoken + 1
            d == [tts EXCEPT !.pending = Append(@, card)]
            e == [d EXCEPT !.backlog = Append(@, card)]
<1>1. /\ card \in Cards /\ session = "RUNNING" /\ spoken' = card
      /\ UNCHANGED <<session, chunks, cut, frames, pageVars>>
  BY <1>0, NextCard DEF Speak
<1>2. ~tts.closed
  BY <1>0, <1>1 DEF ConnInv
<1>3. \/ tts.unavailable /\ UNCHANGED <<tts, conn, alive, upstream>>
      \/ ~tts.unavailable /\ d.opened /\ tts' = d /\ upstream' = Append(upstream, card) /\ UNCHANGED <<conn, alive>>
      \/ ~tts.unavailable /\ ~d.opened /\ Starts(e) /\ UNCHANGED upstream
  BY <1>2 DEF Speak, Writes
<1>4. /\ d \in Clients /\ e \in Clients
      /\ (d.opened <=> tts.opened) /\ (d.unavailable <=> tts.unavailable)
      /\ (e.socket <=> tts.socket) /\ (e.opened <=> tts.opened)
      /\ (e.closed <=> tts.closed) /\ (e.unavailable <=> tts.unavailable)
      /\ d.pending = Append(tts.pending, card) /\ d.backlog = tts.backlog
      /\ e.pending = Append(tts.pending, card) /\ e.backlog = Append(tts.backlog, card)
  BY <1>0, <1>1, Spoke, Zenon
<1>. HIDE DEF d, e
<1>5. CASE tts.unavailable /\ UNCHANGED <<tts, conn, alive, upstream>>
  BY <1>1, <1>5
<1>6. CASE ~tts.unavailable /\ d.opened /\ tts' = d /\ upstream' = Append(upstream, card) /\ UNCHANGED <<conn, alive>>
  <2>1. tts.backlog = <<>>
    BY <1>0, <1>4, <1>6 DEF ConnInv, LabelInv
  <2>. QED
    BY <1>1, <1>4, <1>6, <2>1
<1>7. CASE ~tts.unavailable /\ ~d.opened /\ Starts(e) /\ UNCHANGED upstream
  <2>1. conn \in {"none", "connecting"}
    BY <1>0, <1>2, <1>4, <1>7 DEF ConnInv
  <2>2. /\ (tts'.unavailable <=> tts.unavailable)
        /\ tts'.pending = e.pending /\ tts'.backlog = e.backlog
    BY <1>0, <1>1, <1>4, <1>7, StartsConn
  <2>3. upstream = <<>>
    BY <2>1 DEF LabelInv
  <2>. QED
    BY <1>1, <1>4, <1>7, <2>2, <2>3
<1>. QED
  BY <1>3, <1>5, <1>6, <1>7

\* A connection opens: what was kept is sent, and is what is awaited as before.
LEMMA OpensQueue ==
  ASSUME TypesAndConn, LabelInv, Opens
  PROVE  /\ UNCHANGED <<session, spoken, cut, frames, pageVars>>
         /\ ~tts.unavailable /\ ~tts'.unavailable
         /\ tts'.pending = tts.pending /\ tts'.backlog = <<>>
         /\ upstream = <<>> /\ upstream' = tts.backlog /\ chunks = 0 /\ chunks' = 0
<1>1. /\ conn = "connecting" /\ upstream' = tts.backlog /\ tts \in Clients /\ ConnInv
      /\ UNCHANGED <<session, spoken, chunks, cut, frames, pageVars>>
  BY DEF Opens, TypesAndConn, VoiceTypes
<1>2. tts' = Opened(tts)
  BY DEF Opens
<1>3. tts'.pending = tts.pending /\ tts'.backlog = <<>> /\ (tts'.unavailable <=> tts.unavailable)
  BY <1>1, <1>2, OpenedIs
<1>4. ~tts.unavailable
  BY <1>1 DEF ConnInv
<1>. QED
  BY <1>1, <1>3, <1>4 DEF LabelInv

\* A connection ends: the voice is given up, or what was kept is still awaited.
LEMMA EndsQueue ==
  ASSUME TypesAndConn, LabelInv, Errors \/ Closes
  PROVE  /\ UNCHANGED <<session, spoken, frames, pageVars>>
         /\ cut' = cut \cup ToSet(upstream) /\ upstream' = <<>> /\ chunks' = 0
         /\ \/ tts'.unavailable /\ tts'.backlog = <<>> /\ tts'.pending = <<>>
            \/ /\ (tts'.unavailable <=> tts.unavailable)
               /\ tts'.pending = tts.pending /\ tts'.backlog = tts.backlog
               /\ upstream # <<>> => tts.backlog = <<>>
<1>0. tts \in Clients
  BY DEF TypesAndConn, VoiceTypes
<1>1. CASE Errors
  <2>1. /\ UNCHANGED <<session, spoken, frames, pageVars>> /\ Lost /\ tts' = Unavailable(tts)
    BY <1>1 DEF Errors
  <2>. QED
    BY <1>0, <2>1, GivenUp DEF Lost
<1>2. CASE Closes
  <2>1. /\ UNCHANGED <<session, spoken, frames, pageVars>> /\ Lost
    BY <1>2 DEF Closes
  <2>2. \/ tts' = Down(tts)
        \/ tts.attempts < Delays /\ tts' = Waiting(Down(tts))
        \/ tts' = Unavailable(tts)
    BY <1>2 DEF Closes, Down, Waiting
  <2>3. \/ tts'.unavailable /\ tts'.backlog = <<>> /\ tts'.pending = <<>>
        \/ /\ (tts'.unavailable <=> tts.unavailable)
           /\ tts'.pending = tts.pending /\ tts'.backlog = tts.backlog
    BY <1>0, <2>2, DownIs, WaitingIs, GivenUp
  <2>4. upstream # <<>> => tts.backlog = <<>>
    BY DEF LabelInv
  <2>. QED
    BY <2>1, <2>3, <2>4 DEF Lost
<1>. QED
  BY <1>1, <1>2

\* A timer fires: nothing of it is about what is awaited.
LEMMA TimerQueue ==
  ASSUME TypesAndConn, TimerFires
  PROVE  /\ UNCHANGED <<session, upstream, chunks, spoken, frames, cut, pageVars>>
         /\ (tts'.unavailable <=> tts.unavailable)
         /\ tts'.pending = tts.pending /\ tts'.backlog = tts.backlog
<1>1. tts \in Clients /\ conn \in Conns /\ ConnInv
  BY DEF TypesAndConn, VoiceTypes
<1>2. Starts(Fired(tts)) /\ UNCHANGED <<session, upstream, chunks, spoken, frames, cut, pageVars>>
  BY DEF TimerFires
<1>. QED
  BY <1>1, <1>2, FiredIs, StartsConn

\* A sentence is answered, in part or to its end: a chunk of it enters the stream, as
\* its audio is awaited.
LEMMA AnswersQueue ==
  ASSUME TypesAndConn, LabelInv, QueueInv, StreamTypes, Answers, session = "RUNNING"
  PROVE  /\ ~tts.unavailable /\ ~tts'.unavailable /\ upstream # <<>> /\ tts.backlog = <<>> /\ tts'.backlog = <<>>
         /\ UNCHANGED <<session, spoken, cut, held, played>>
         /\ Head(upstream) \in Cards /\ chunks + 1 \in 1..MaxChunks
         /\ \E x \in Bytes, label \in Cards :
              /\ x.of = Head(upstream) /\ x.n = chunks + 1
              /\ frames' = frames \cup {[label |-> label, chunk |-> x]}
              /\ \/ /\ chain' = Append(chain, x) /\ chunks' = chunks + 1
                    /\ upstream' = upstream /\ tts'.pending = tts.pending
                 \/ /\ x.whole /\ chain' = Append(Append(chain, x), Flush) /\ chunks' = 0
                    /\ upstream' = Tail(upstream) /\ tts'.pending = Tail(tts.pending)
<1>0. /\ tts \in Clients /\ upstream \in Seq(Cards) /\ tts.pending \in Seq(Cards)
      /\ tts.backlog \in Seq(Cards) /\ chunks \in 0..MaxChunks /\ chain \in Seq(Entries)
  BY DEF TypesAndConn, VoiceTypes, Clients, StreamTypes
<1>1. PICK whole \in BOOLEAN, final \in BOOLEAN :
        /\ conn \in {"open", "closing"} /\ upstream # <<>> /\ chunks < MaxChunks
        /\ final => whole
        /\ Receives(Chunk(Head(upstream), chunks + 1, whole), final)
        /\ chunks' = (IF final THEN 0 ELSE chunks + 1)
        /\ upstream' = (IF final THEN Tail(upstream) ELSE upstream)
        /\ UNCHANGED <<session, spoken, held, played, cut>>
  BY DEF Answers
<1>. DEFINE x == Chunk(Head(upstream), chunks + 1, whole)
<1>2. chunks + 1 \in 1..MaxChunks /\ Head(upstream) \in Cards
  BY <1>0, <1>1, VoiceAssumption
<1>3. x \in Bytes /\ x.of = Head(upstream) /\ x.n = chunks + 1 /\ (x.whole <=> whole)
  BY <1>2, ChunkIs
<1>4. tts.backlog = <<>> /\ ~tts.unavailable
  BY <1>1 DEF LabelInv, QueueInv
<1>5. tts.pending # <<>> /\ Head(tts.pending) \in Cards
  <2>1. Len(upstream) > 0 /\ Len(tts.backlog) = 0 /\ Len(tts.pending) >= Awaited
    BY <1>0, <1>1, <1>4 DEF QueueInv, Awaited
  <2>2. Len(tts.pending) > 0
    BY <1>0, <2>1 DEF Awaited
  <2>. QED
    BY <1>0, <2>2
<1>. HIDE DEF x
<1>6. /\ tts' = [tts EXCEPT !.pending = Retired(final)]
      /\ frames' = frames \cup {[label |-> Head(tts.pending), chunk |-> x]}
      /\ chain' = Append(chain, x) \o (IF final THEN <<Flush>> ELSE <<>>)
  BY <1>1, <1>5 DEF Receives, Emits, Plays, x
<1>7. Retired(final) \in Seq(Cards) /\ Retired(final) = (IF final THEN Tail(tts.pending) ELSE tts.pending)
  BY <1>0, <1>5 DEF Retired
<1>8. /\ (tts'.unavailable <=> tts.unavailable) /\ tts'.backlog = tts.backlog
      /\ tts'.pending = Retired(final)
  BY <1>0, <1>5, <1>6, <1>7, RetiredIs, Zenon
<1>9. Append(chain, x) \in Seq(Entries)
  BY <1>0, <1>3, ByteIs
<1>10. CASE final
  <2>1. chain' = Append(Append(chain, x), Flush)
    BY <1>6, <1>9, <1>10
  <2>2. chunks' = 0 /\ upstream' = Tail(upstream) /\ tts'.pending = Tail(tts.pending) /\ x.whole
    BY <1>1, <1>3, <1>7, <1>8, <1>10
  <2>. QED
    BY <1>1, <1>2, <1>3, <1>4, <1>5, <1>6, <1>8, <2>1, <2>2
<1>11. CASE ~final
  <2>1. chain' = Append(chain, x)
    BY <1>6, <1>9, <1>11
  <2>2. chunks' = chunks + 1 /\ upstream' = upstream /\ tts'.pending = tts.pending
    BY <1>1, <1>7, <1>8, <1>11
  <2>. QED
    BY <1>1, <1>2, <1>3, <1>4, <1>5, <1>6, <1>8, <2>1, <2>2
<1>. QED
  BY <1>10, <1>11

LEMMA QueueInit == Init => QueueInv
<1>. SUFFICES ASSUME Init PROVE QueueInv
  OBVIOUS
<1>1. tts.pending = <<>> /\ tts.backlog = <<>> /\ ~tts.unavailable /\ upstream = <<>> /\ chunks = 0
  BY DEF Init, Fresh
<1>. QED
  BY <1>1 DEF QueueInv, Awaited

LEMMA QueueStep ==
  TypesAndConn /\ LabelInv /\ StreamTypes /\ QueueInv /\ [Next]_vars => QueueInv'
<1>. SUFFICES ASSUME TypesAndConn, LabelInv, StreamTypes, QueueInv, [Next]_vars, session' = "RUNNING"
              PROVE  QueueInv'
  BY DEF QueueInv
<1>0. /\ upstream \in Seq(Cards) /\ spoken \in Nat /\ chunks \in Nat
      /\ tts.pending \in Seq(Cards) /\ tts.backlog \in Seq(Cards)
  BY DEF TypesAndConn, VoiceTypes, Clients
<1>1. CASE Speak
  <2>1. session = "RUNNING" /\ UNCHANGED chunks /\ (tts'.unavailable <=> tts.unavailable)
    BY <1>1, SpeakQueue
  <2>2. CASE tts.unavailable
    <3>1. UNCHANGED <<tts, upstream>>
      BY <1>1, <2>2, SpeakQueue
    <3>. QED
      BY <2>1, <2>2, <3>1 DEF QueueInv, Awaited
  <2>3. CASE ~tts.unavailable /\ tts.backlog = <<>> /\ tts'.backlog = <<>> /\ upstream' = Append(upstream, spoken + 1)
    <3>1. spoken + 1 \in Cards /\ spoken' = spoken + 1 /\ tts'.pending = Append(tts.pending, spoken + 1)
      BY <1>1, <2>3, SpeakQueue
    <3>2. /\ Len(tts'.pending) = Len(tts.pending) + 1 /\ Len(upstream') = Len(upstream) + 1
          /\ Len(tts.backlog) = 0 /\ Len(tts'.backlog) = 0 /\ upstream' # <<>>
          /\ \A i \in 1..Len(upstream) : upstream'[i] = upstream[i]
          /\ upstream'[Len(upstream) + 1] = spoken + 1
      BY <1>0, <2>3, <3>1
    <3>3. Awaited' = Awaited + 1 /\ Before' = Before /\ Before + Len(upstream) = spoken
      BY <1>0, <3>1, <3>2 DEF Awaited, Before
    <3>4. Awaited <= Len(tts.pending) /\ \A i \in 1..Len(upstream) : upstream[i] = Before + i
      BY <2>1, <2>3 DEF QueueInv
    <3>5. \A i \in 1..Len(upstream') : upstream'[i] = Before' + i
      <4>. SUFFICES ASSUME NEW i \in 1..Len(upstream') PROVE upstream'[i] = Before' + i
        OBVIOUS
      <4>1. CASE i \in 1..Len(upstream)
        BY <3>2, <3>3, <3>4, <4>1
      <4>2. CASE i = Len(upstream) + 1
        BY <3>2, <3>3, <4>2, <1>0 DEF Before, Awaited
      <4>. QED
        BY <1>0, <3>2, <4>1, <4>2
    <3>6. Awaited' <= Len(tts'.pending)
      BY <1>0, <3>2, <3>3, <3>4 DEF Awaited
    <3>. QED
      BY <2>1, <2>3, <3>2, <3>5, <3>6 DEF QueueInv
  <2>4. CASE ~tts.unavailable /\ upstream = <<>> /\ upstream' = <<>> /\ tts'.backlog = Append(tts.backlog, spoken + 1)
    <3>1. spoken + 1 \in Cards /\ spoken' = spoken + 1 /\ tts'.pending = Append(tts.pending, spoken + 1)
      BY <1>1, <2>4, SpeakQueue
    <3>2. /\ Len(tts'.pending) = Len(tts.pending) + 1 /\ Len(tts'.backlog) = Len(tts.backlog) + 1
          /\ Len(upstream) = 0 /\ Len(upstream') = 0
          /\ \A i \in 1..Len(tts.backlog) : tts'.backlog[i] = tts.backlog[i]
          /\ tts'.backlog[Len(tts.backlog) + 1] = spoken + 1
      BY <1>0, <2>4, <3>1
    <3>3. Awaited' = Awaited + 1 /\ Before' = Before /\ Before + Len(tts.backlog) = spoken
      BY <1>0, <3>1, <3>2 DEF Awaited, Before
    <3>4. /\ Awaited <= Len(tts.pending) /\ chunks = 0
          /\ \A i \in 1..Len(tts.backlog) : tts.backlog[i] = Before + Len(upstream) + i
      BY <2>1, <2>4 DEF QueueInv
    <3>5. \A i \in 1..Len(tts'.backlog) : tts'.backlog[i] = Before' + Len(upstream') + i
      <4>. SUFFICES ASSUME NEW i \in 1..Len(tts'.backlog)
                    PROVE  tts'.backlog[i] = Before' + Len(upstream') + i
        OBVIOUS
      <4>1. CASE i \in 1..Len(tts.backlog)
        BY <3>2, <3>3, <3>4, <4>1
      <4>2. CASE i = Len(tts.backlog) + 1
        BY <3>2, <3>3, <4>2, <1>0 DEF Before, Awaited
      <4>. QED
        BY <1>0, <3>2, <4>1, <4>2
    <3>6. Awaited' <= Len(tts'.pending)
      BY <1>0, <3>2, <3>3, <3>4 DEF Awaited
    <3>. QED
      BY <2>1, <2>4, <3>2, <3>4, <3>5, <3>6 DEF QueueInv
  <2>. QED
    BY <1>1, <2>2, <2>3, <2>4, SpeakQueue
<1>2. CASE Opens
  <2>1. /\ session = "RUNNING" /\ spoken' = spoken /\ ~tts.unavailable /\ ~tts'.unavailable
        /\ tts'.pending = tts.pending /\ tts'.backlog = <<>>
        /\ upstream = <<>> /\ upstream' = tts.backlog /\ chunks' = 0
    BY <1>2, OpensQueue
  <2>2. Len(upstream) = 0 /\ Len(tts'.backlog) = 0 /\ Len(upstream') = Len(tts.backlog)
    BY <2>1
  <2>3. Awaited' = Awaited /\ Before' = Before
    BY <1>0, <2>1, <2>2 DEF Awaited, Before
  <2>4. /\ Awaited <= Len(tts.pending)
        /\ \A i \in 1..Len(tts.backlog) : tts.backlog[i] = Before + Len(upstream) + i
    BY <2>1 DEF QueueInv
  <2>5. \A i \in 1..Len(upstream') : upstream'[i] = Before' + i
    <3>. SUFFICES ASSUME NEW i \in 1..Len(upstream') PROVE upstream'[i] = Before' + i
      OBVIOUS
    <3>1. i \in Int /\ Before \in Int
      BY <1>0 DEF Before, Awaited
    <3>2. tts.backlog[i] = Before + Len(upstream) + i
      BY <2>2, <2>4
    <3>. QED
      BY <2>1, <2>2, <2>3, <3>1, <3>2
  <2>. QED
    BY <2>1, <2>2, <2>3, <2>4, <2>5 DEF QueueInv
<1>3. CASE Errors \/ Closes
  <2>1. /\ session = "RUNNING" /\ spoken' = spoken /\ upstream' = <<>> /\ chunks' = 0
    BY <1>3, EndsQueue
  <2>2. CASE tts'.unavailable /\ tts'.backlog = <<>> /\ tts'.pending = <<>>
    BY <2>1, <2>2 DEF QueueInv, Awaited
  <2>3. CASE /\ (tts'.unavailable <=> tts.unavailable)
             /\ tts'.pending = tts.pending /\ tts'.backlog = tts.backlog
             /\ upstream # <<>> => tts.backlog = <<>>
    <3>1. Len(upstream') = 0 /\ Len(tts'.backlog) = Len(tts.backlog) /\ Awaited' = Len(tts.backlog)
      BY <1>0, <2>1, <2>3 DEF Awaited
    <3>2. Awaited' <= Len(tts'.pending)
      BY <1>0, <2>1, <2>3, <3>1 DEF Awaited, QueueInv
    <3>3. ASSUME ~tts'.unavailable, NEW i \in 1..Len(tts'.backlog)
          PROVE  tts'.backlog[i] = Before' + Len(upstream') + i
      <4>1. upstream = <<>> /\ Len(upstream) = 0
        BY <1>0, <2>3, <3>1, <3>3
      <4>2. Before' = Before
        BY <1>0, <2>1, <3>1, <4>1 DEF Before, Awaited
      <4>3. tts.backlog[i] = Before + Len(upstream) + i
        BY <2>1, <2>3, <3>1, <3>3 DEF QueueInv
      <4>. QED
        BY <2>3, <3>1, <4>1, <4>2, <4>3
    <3>4. \A i \in 1..Len(upstream') : upstream'[i] = Before' + i
      BY <3>1
    <3>. QED
      BY <2>1, <3>2, <3>3, <3>4 DEF QueueInv
  <2>. QED
    BY <1>3, <2>2, <2>3, EndsQueue
<1>4. CASE TimerFires
  <2>1. /\ UNCHANGED <<session, upstream, chunks, spoken>>
        /\ (tts'.unavailable <=> tts.unavailable)
        /\ tts'.pending = tts.pending /\ tts'.backlog = tts.backlog
    BY <1>4, TimerQueue
  <2>. QED
    BY <2>1 DEF QueueInv, Awaited, Before
<1>5. CASE Answers
  <2>1. session = "RUNNING"
    BY <1>5 DEF Answers
  <2>2. /\ ~tts'.unavailable /\ upstream # <<>> /\ tts.backlog = <<>> /\ tts'.backlog = <<>>
        /\ spoken' = spoken /\ ~tts.unavailable
        /\ \/ chunks' = chunks + 1 /\ upstream' = upstream /\ tts'.pending = tts.pending
           \/ chunks' = 0 /\ upstream' = Tail(upstream) /\ tts'.pending = Tail(tts.pending)
    BY <1>5, <2>1, AnswersQueue
  <2>3. /\ Awaited <= Len(tts.pending) /\ Len(tts.backlog) = 0 /\ Len(tts'.backlog) = 0
        /\ \A i \in 1..Len(upstream) : upstream[i] = Before + i
    BY <2>1, <2>2 DEF QueueInv
  <2>4. CASE upstream' = upstream /\ tts'.pending = tts.pending
    BY <2>2, <2>3, <2>4 DEF QueueInv, Awaited, Before
  <2>5. CASE chunks' = 0 /\ upstream' = Tail(upstream) /\ tts'.pending = Tail(tts.pending)
    <3>1. Len(upstream) > 0 /\ Len(tts.pending) > 0
      BY <1>0, <2>2, <2>3 DEF Awaited
    <3>2. /\ Len(upstream') = Len(upstream) - 1 /\ Len(tts'.pending) = Len(tts.pending) - 1
          /\ \A i \in 1..Len(upstream') : upstream'[i] = upstream[i + 1]
      BY <1>0, <2>5, <3>1
    <3>3. Awaited' = Awaited - 1 /\ Before' = Before + 1
      BY <1>0, <2>2, <2>3, <3>2 DEF Awaited, Before
    <3>4. Awaited' <= Len(tts'.pending)
      BY <1>0, <2>3, <3>2, <3>3 DEF Awaited
    <3>5. \A i \in 1..Len(upstream') : upstream'[i] = Before' + i
      <4>. SUFFICES ASSUME NEW i \in 1..Len(upstream') PROVE upstream'[i] = Before' + i
        OBVIOUS
      <4>1. i + 1 \in 1..Len(upstream) /\ upstream'[i] = upstream[i + 1]
        BY <1>0, <3>2
      <4>2. upstream[i + 1] = Before + (i + 1) /\ Before \in Int
        BY <1>0, <2>3, <4>1 DEF Before, Awaited
      <4>. QED
        BY <3>3, <4>1, <4>2
    <3>. QED
      BY <2>2, <2>3, <2>5, <3>4, <3>5 DEF QueueInv
  <2>. QED
    BY <2>2, <2>4, <2>5
<1>6. CASE UNCHANGED <<session, tts, upstream, chunks, spoken>>
  BY <1>6 DEF QueueInv, Awaited, Before
<1>. QED
  BY <1>1, <1>2, <1>3, <1>4, <1>5, <1>6 DEF Next, SessionCloses, SessionEnds, RunsTask, clientVars, vars

-----------------------------------------------------------------------------
(* What the steps do to the stream.                                         *)

\* What excuses a loss goes on excusing it.
LEMMA ExemptStays ==
  ASSUME NEW c, cut \subseteq cut', frames \subseteq frames', Exempt(c)
  PROVE  Exempt(c)'
BY DEF Exempt, Oversized

\* Nothing but cuts: the stream is as good as it was.
LEMMA StreamCalm ==
  ASSUME StreamInv, session = "RUNNING", UNCHANGED <<frames, pageVars>>, cut \subseteq cut'
  PROVE  StreamInv'
<1>1. UNCHANGED <<frames, held, chain, played>> /\ Stream' = Stream
  BY DEF pageVars, Stream
<1>2. Here(Stream) /\ Chained(Stream) /\ EndWhole(Stream) /\ Torn(held) /\ Known(Stream)
  BY DEF StreamInv
<1>3. Here(Stream)' /\ EndWhole(Stream)' /\ Torn(held)'
  BY <1>1, <1>2 DEF Here, EndWhole, Torn
<1>4. Chained(Stream)'
  BY <1>1, <1>2 DEF Chained, Joined
<1>5. Known(Stream)'
  <2>. SUFFICES ASSUME NEW f \in frames'
                PROVE  f.chunk \in ToSet(Stream') \/ f.chunk \in ToSet(played') \/ Exempt(f.chunk.of)'
    BY DEF Known
  <2>1. f.chunk \in ToSet(Stream) \/ f.chunk \in ToSet(played) \/ Exempt(f.chunk.of)
    BY <1>1, <1>2 DEF Known
  <2>2. frames \subseteq frames'
    BY <1>1
  <2>. QED
    BY <1>1, <2>1, <2>2, ExemptStays
<1>. QED
  BY <1>3, <1>4, <1>5 DEF StreamInv

LEMMA ChainedAppend ==
  ASSUME NEW s \in Seq(Entries), NEW x \in Entries, Chained(s),
         x # Flush => \A i \in 1..Len(s) :
           Joined(s, i, Len(s)) =>
             \/ s[i].of = x.of /\ x.n = s[i].n + ((Len(s) + 1) - i)
             \/ s[i].of # x.of /\ s[i].of \in cut /\ x.of - 1 \in cut
  PROVE  Chained(Append(s, x))
<1>. DEFINE t == Append(s, x)
<1>0. /\ Len(s) \in Nat /\ Len(t) = Len(s) + 1 /\ t[Len(s) + 1] = x
      /\ \A k \in 1..Len(s) : t[k] = s[k]
  OBVIOUS
<1>. HIDE DEF t
<1>. SUFFICES ASSUME NEW i \in 1..Len(t), NEW j \in 1..Len(t), i < j, Joined(t, i, j)
              PROVE  \/ t[i].of = t[j].of /\ t[j].n = t[i].n + (j - i)
                     \/ t[i].of # t[j].of /\ t[i].of \in cut /\ t[j].of - 1 \in cut
  BY DEF Chained, t
<1>1. i \in 1..Len(s) /\ t[i] = s[i]
  BY <1>0
<1>2. CASE j = Len(s) + 1
  <2>1. x # Flush
    BY <1>0, <1>2 DEF Joined
  <2>2. Joined(s, i, Len(s))
    <3>. SUFFICES ASSUME NEW k \in i..Len(s) PROVE s[k] # Flush
      BY DEF Joined
    <3>1. k \in i..j /\ t[k] = s[k]
      BY <1>0, <1>2
    <3>. QED
      BY <3>1 DEF Joined
  <2>3. \/ s[i].of = x.of /\ x.n = s[i].n + ((Len(s) + 1) - i)
        \/ s[i].of # x.of /\ s[i].of \in cut /\ x.of - 1 \in cut
    BY <1>1, <2>1, <2>2
  <2>. QED
    BY <1>0, <1>1, <1>2, <2>3
<1>3. CASE j # Len(s) + 1
  <2>1. j \in 1..Len(s) /\ t[j] = s[j]
    BY <1>0, <1>3
  <2>2. Joined(s, i, j)
    <3>. SUFFICES ASSUME NEW k \in i..j PROVE s[k] # Flush
      BY DEF Joined
    <3>1. t[k] = s[k]
      BY <1>0, <2>1
    <3>. QED
      BY <3>1 DEF Joined
  <2>. QED
    BY <1>1, <2>1, <2>2 DEF Chained
<1>. QED
  BY <1>2, <1>3

LEMMA EndWholeAppend ==
  ASSUME NEW s \in Seq(Entries), NEW x \in Entries, EndWhole(s),
         x = Flush /\ Len(s) > 0 => s[Len(s)].whole
  PROVE  EndWhole(Append(s, x))
<1>. SUFFICES ASSUME NEW j \in 2..Len(Append(s, x)), Append(s, x)[j] = Flush
              PROVE  Append(s, x)[j - 1].whole
  BY DEF EndWhole
<1>1. /\ Len(s) \in Nat /\ j - 1 \in 1..Len(s) /\ Append(s, x)[j - 1] = s[j - 1]
      /\ j = Len(s) + 1 \/ j \in 2..Len(s)
  OBVIOUS
<1>2. CASE j = Len(s) + 1
  <2>1. Append(s, x)[j] = x
    BY <1>2
  <2>. QED
    BY <1>1, <1>2, <2>1
<1>3. CASE j \in 2..Len(s)
  <2>1. Append(s, x)[j] = s[j]
    BY <1>3
  <2>. QED
    BY <1>1, <1>3, <2>1 DEF EndWhole
<1>. QED
  BY <1>1, <1>2, <1>3

\* A chunk comes: it follows what came before it of its sentence, or what was cut off.
LEMMA AnswersStream ==
  ASSUME TypesAndConn, LabelInv, QueueInv, StreamTypes, StreamInv, EndInv, Answers, session = "RUNNING"
  PROVE  StreamInv' /\ EndInv'
<1>0. /\ Here(Stream) /\ Chained(Stream) /\ EndWhole(Stream) /\ Torn(held) /\ Known(Stream) /\ EndOf(Stream)
      /\ upstream \in Seq(Cards) /\ chunks \in Nat /\ spoken \in Nat /\ tts.backlog \in Seq(Cards)
  BY DEF StreamInv, EndInv, TypesAndConn, VoiceTypes, Clients
<1>1. /\ ~tts.unavailable /\ ~tts'.unavailable /\ upstream # <<>> /\ tts.backlog = <<>> /\ tts'.backlog = <<>>
      /\ UNCHANGED <<session, spoken, cut, held, played>>
      /\ Head(upstream) \in Cards /\ chunks + 1 \in 1..MaxChunks
  BY AnswersQueue
<1>2. PICK x \in Bytes, label \in Cards :
        /\ x.of = Head(upstream) /\ x.n = chunks + 1
        /\ frames' = frames \cup {[label |-> label, chunk |-> x]}
        /\ \/ chain' = Append(chain, x) /\ chunks' = chunks + 1 /\ upstream' = upstream
           \/ x.whole /\ chain' = Append(Append(chain, x), Flush) /\ chunks' = 0 /\ upstream' = Tail(upstream)
  BY AnswersQueue
<1>3. /\ Stream \in Seq(Entries) /\ Len(Stream) \in Nat /\ x \in Entries /\ Flush \in Entries /\ x # Flush
      /\ Append(Stream, x) \in Seq(Entries)
  BY StreamIs, ByteIs DEF Entries
<1>4. \/ /\ Stream' = Append(Stream, x) /\ chunks' = chunks + 1 /\ upstream' = upstream
      \/ /\ x.whole /\ Stream' = Append(Append(Stream, x), Flush) /\ chunks' = 0 /\ upstream' = Tail(upstream)
  <2>1. held \in Seq(Entries) /\ chain \in Seq(Entries)
    BY DEF StreamTypes, Entries
  <2>2. held \o Append(chain, x) = Append(held \o chain, x)
    BY <1>3, <2>1
  <2>3. held \o Append(Append(chain, x), Flush) = Append(held \o Append(chain, x), Flush)
    BY <1>3, <2>1
  <2>. QED
    BY <1>1, <1>2, <2>2, <2>3, Zenon DEF Stream
<1>5. Before + 1 = Head(upstream) /\ Before \in Int
  <2>1. upstream[1] = Before + 1
    BY <1>0, <1>1 DEF QueueInv
  <2>. QED
    BY <1>0, <1>1, <2>1 DEF Before, Awaited
<1>6. \A i \in 1..Len(Stream) : Stream[i].of <= Before + (IF chunks > 0 THEN 1 ELSE 0)
  BY <1>0, <1>1 DEF EndOf
<1>7. \A i \in 1..Len(Stream) : Joined(Stream, i, Len(Stream)) =>
             \/ Stream[i].of = x.of /\ x.n = Stream[i].n + ((Len(Stream) + 1) - i)
             \/ Stream[i].of # x.of /\ Stream[i].of \in cut /\ x.of - 1 \in cut
  <2>. SUFFICES ASSUME NEW i \in 1..Len(Stream), Joined(Stream, i, Len(Stream))
                PROVE  \/ Stream[i].of = x.of /\ x.n = Stream[i].n + ((Len(Stream) + 1) - i)
                       \/ Stream[i].of # x.of /\ Stream[i].of \in cut /\ x.of - 1 \in cut
    OBVIOUS
  <2>. DEFINE N == Len(Stream)
  <2>1. N \in 1..N /\ N > 0 /\ Stream[N] # Flush /\ Stream[i] # Flush
    BY <1>3 DEF Joined
  <2>2. Stream[i] \in Bytes /\ Stream[N] \in Bytes
    BY <1>3, <2>1, EntryIs
  <2>3. Stream[i].n \in Int /\ Stream[N].n \in Int /\ Stream[i].of \in Int
    BY <2>2, ByteIs DEF Cards
  <2>4. i < N =>
          \/ Stream[i].of = Stream[N].of /\ Stream[N].n = Stream[i].n + (N - i)
          \/ Stream[i].of # Stream[N].of /\ Stream[i].of \in cut /\ Stream[N].of - 1 \in cut
    BY <1>0, <2>1 DEF Chained
  <2>5. CASE chunks > 0
    <3>1. Stream[N].of = x.of /\ Stream[N].n = chunks
      BY <1>0, <1>2, <2>1, <2>5 DEF EndOf
    <3>2. CASE i = N
      BY <1>2, <1>3, <2>3, <3>1, <3>2
    <3>3. CASE i < N /\ Stream[i].of = Stream[N].of
      <4>1. Stream[N].n = Stream[i].n + (N - i)
        BY <2>4, <3>3
      <4>. QED
        BY <1>0, <1>2, <1>3, <2>3, <3>1, <3>3, <4>1
    <3>4. CASE i < N /\ Stream[i].of # Stream[N].of
      BY <2>4, <3>1, <3>4
    <3>. QED
      BY <1>3, <3>2, <3>3, <3>4
  <2>6. CASE ~(chunks > 0)
    <3>1. Stream[N].of \in cut /\ Before \in cut
      BY <1>0, <1>1, <2>1, <2>6 DEF EndOf
    <3>2. Stream[i].of \in cut
      BY <1>3, <2>4, <3>1
    <3>3. Stream[i].of <= Before
      BY <1>5, <1>6, <2>6
    <3>4. Stream[i].of # x.of /\ x.of - 1 = Before
      BY <1>2, <1>5, <2>3, <3>3
    <3>. QED
      BY <3>1, <3>2, <3>4
  <2>. QED
    BY <2>5, <2>6
<1>8. Chained(Append(Stream, x)) /\ EndWhole(Append(Stream, x))
  BY <1>0, <1>3, <1>7, ChainedAppend, EndWholeAppend
<1>9. /\ Len(Append(Stream, x)) = Len(Stream) + 1 /\ Append(Stream, x)[Len(Stream) + 1] = x
      /\ \A k \in 1..Len(Stream) : Append(Stream, x)[k] = Stream[k]
  BY <1>3
<1>10. \A f \in frames' : f \in frames \/ f.chunk = x
  BY <1>2
<1>11. \E f \in frames' : f.chunk = x
  <2>1. [label |-> label, chunk |-> x] \in frames'
    BY <1>2
  <2>2. [label |-> label, chunk |-> x].chunk = x
    OBVIOUS
  <2>. QED
    BY <2>1, <2>2
<1>12. \A f \in frames : Exempt(f.chunk.of) => Exempt(f.chunk.of)'
  BY <1>1, <1>2, ExemptStays
<1>. DEFINE s == Append(Stream, x)
<1>. HIDE DEF s
<1>13. /\ s \in Seq(Entries) /\ Chained(s) /\ EndWhole(s)
       /\ Len(s) = Len(Stream) + 1 /\ s[Len(s)] = x
       /\ \A k \in 1..Len(Stream) : s[k] = Stream[k]
  BY <1>3, <1>8, <1>9 DEF s
<1>14. \A i \in 1..Len(s) : s[i] # Flush => \E f \in frames' : f.chunk = s[i]
  <2>. SUFFICES ASSUME NEW i \in 1..Len(s), s[i] # Flush PROVE \E f \in frames' : f.chunk = s[i]
    OBVIOUS
  <2>1. CASE i = Len(s)
    BY <1>11, <1>13, <2>1
  <2>2. CASE i \in 1..Len(Stream)
    BY <1>0, <1>2, <1>13, <2>2 DEF Here
  <2>. QED
    BY <1>3, <1>13, <2>1, <2>2
<1>15. \A f \in frames' : f.chunk \in ToSet(s) \/ f.chunk \in ToSet(played') \/ Exempt(f.chunk.of)'
  <2>. SUFFICES ASSUME NEW f \in frames'
                PROVE  f.chunk \in ToSet(s) \/ f.chunk \in ToSet(played') \/ Exempt(f.chunk.of)'
    OBVIOUS
  <2>1. CASE f.chunk = x
    <3>1. Len(s) \in 1..Len(s)
      BY <1>3, <1>13
    <3>. QED
      BY <1>13, <2>1, <3>1 DEF ToSet
  <2>2. CASE f \in frames
    <3>1. f.chunk \in ToSet(Stream) \/ f.chunk \in ToSet(played) \/ Exempt(f.chunk.of)
      BY <1>0, <2>2 DEF Known
    <3>2. f.chunk \in ToSet(Stream) => f.chunk \in ToSet(s)
      BY <1>3, <1>13 DEF ToSet
    <3>. QED
      BY <1>1, <1>12, <2>2, <3>1, <3>2
  <2>. QED
    BY <1>10, <2>1, <2>2
<1>16. \A i \in 1..Len(s) : s[i].of <= Before + 1
  <2>. SUFFICES ASSUME NEW i \in 1..Len(s) PROVE s[i].of <= Before + 1
    OBVIOUS
  <2>1. CASE i = Len(s)
    BY <1>2, <1>5, <1>13, <2>1
  <2>2. CASE i \in 1..Len(Stream)
    <3>1. Stream[i] \in Entries
      BY <1>3, <2>2
    <3>2. Stream[i].of \in Int
      BY <3>1, EntryIs, ByteIs DEF Cards, Flush
    <3>. QED
      BY <1>5, <1>6, <1>13, <2>2, <3>2
  <2>. QED
    BY <1>3, <1>13, <2>1, <2>2
<1>17. CASE Stream' = s /\ chunks' = chunks + 1 /\ upstream' = upstream
  <2>1. Here(Stream)' /\ EndWhole(Stream)' /\ Torn(held)' /\ Known(Stream)'
    BY <1>0, <1>1, <1>13, <1>14, <1>15, <1>17 DEF Here, EndWhole, Torn, Known
  <2>2. Chained(Stream)'
    BY <1>1, <1>13, <1>17 DEF Chained, Joined
  <2>3. Before' = Before /\ chunks' > 0
    BY <1>0, <1>1, <1>17 DEF Before, Awaited
  <2>4. EndOf(Stream)'
    BY <1>1, <1>2, <1>3, <1>13, <1>16, <1>17, <2>3 DEF EndOf
  <2>. QED
    BY <2>1, <2>2, <2>4 DEF StreamInv, EndInv
<1>18. CASE x.whole /\ Stream' = Append(s, Flush) /\ chunks' = 0 /\ upstream' = Tail(upstream)
  <2>. DEFINE t == Append(s, Flush)
  <2>1. /\ Len(t) = Len(s) + 1 /\ t[Len(t)] = Flush /\ Len(s) \in Nat /\ Len(s) > 0
        /\ \A k \in 1..Len(s) : t[k] = s[k]
    BY <1>3, <1>13
  <2>2. Chained(t) /\ EndWhole(t)
    BY <1>3, <1>13, <1>18, ChainedAppend, EndWholeAppend
  <2>. HIDE DEF t
  <2>3. Stream' = t
    BY <1>18 DEF t
  <2>4. Here(Stream)'
    <3>. SUFFICES ASSUME NEW i \in 1..Len(t), t[i] # Flush PROVE \E f \in frames' : f.chunk = t[i]
      BY <2>3 DEF Here
    <3>1. i \in 1..Len(s) /\ t[i] = s[i]
      BY <2>1
    <3>. QED
      BY <1>14, <3>1
  <2>5. Known(Stream)'
    <3>1. ToSet(s) \subseteq ToSet(t)
      BY <2>1 DEF ToSet
    <3>. QED
      BY <1>15, <2>3, <3>1 DEF Known
  <2>6. EndWhole(Stream)' /\ Torn(held)'
    BY <1>0, <1>1, <2>2, <2>3 DEF EndWhole, Torn
  <2>7. Chained(Stream)'
    BY <1>1, <2>2, <2>3 DEF Chained, Joined
  <2>8. Before' = Before + 1
    <3>1. Len(upstream') = Len(upstream) - 1
      BY <1>0, <1>1, <1>18
    <3>. QED
      BY <1>0, <1>1, <3>1 DEF Before, Awaited
  <2>9. \A i \in 1..Len(t) : t[i].of <= Before'
    <3>. SUFFICES ASSUME NEW i \in 1..Len(t) PROVE t[i].of <= Before'
      OBVIOUS
    <3>1. CASE i = Len(t)
      <4>1. t[i].of = 0
        BY <2>1, <3>1 DEF Flush
      <4>. QED
        BY <1>1, <1>5, <2>8, <4>1 DEF Cards
    <3>2. CASE i \in 1..Len(s)
      BY <1>16, <2>1, <2>8, <3>2
    <3>. QED
      BY <2>1, <3>1, <3>2
  <2>10. EndOf(Stream)'
    BY <1>5, <1>18, <2>1, <2>3, <2>8, <2>9 DEF EndOf
  <2>. QED
    BY <2>4, <2>5, <2>6, <2>7, <2>10 DEF StreamInv, EndInv
<1>. QED
  BY <1>4, <1>17, <1>18 DEF s

LEMMA InToSet ==
  ASSUME NEW S, NEW s \in Seq(S), NEW i \in 1..Len(s)
  PROVE  s[i] \in ToSet(s)
BY DEF ToSet

LEMMA OfToSet ==
  ASSUME NEW S, NEW s \in Seq(S), NEW T, \A i \in 1..Len(s) : s[i] \in T
  PROVE  ToSet(s) \subseteq T
BY DEF ToSet

LEMMA SetOf ==
  ASSUME NEW S, NEW s \in Seq(S), NEW b \in ToSet(s)
  PROVE  \E i \in 1..Len(s) : b = s[i]
BY DEF ToSet

\* Several sentences in a row without a flush: each was cut off, or follows one that was.
LEMMA MixedAreExempt ==
  ASSUME NEW s \in Seq(Bytes), Chained(s), NEW i \in 1..Len(s), NEW k \in 1..Len(s),
         s[i].of # s[k].of
  PROVE  Exempt(s[i].of)
<1>1. \A j \in 1..Len(s) : s[j] # Flush
  BY ByteIs
<1>2. Joined(s, i, k) /\ Joined(s, k, i)
  BY <1>1 DEF Joined
<1>3. CASE i < k
  <2>1. s[i].of \in cut
    BY <1>2, <1>3 DEF Chained
  <2>. QED
    BY <2>1 DEF Exempt
<1>4. CASE k < i
  <2>1. s[i].of - 1 \in cut
    BY <1>2, <1>4 DEF Chained
  <2>. QED
    BY <2>1 DEF Exempt
<1>. QED
  BY <1>3, <1>4

\* What cannot be decoded, and is not held back: cut off, after a cut, or longer torn
\* than the page holds bytes back.
LEMMA DroppedAreExempt ==
  ASSUME NEW s \in Seq(Bytes), Here(s), Chained(s), FALSE \in Decodes(s), s # <<>>,
         Last(s).whole \/ (Torn(s) /\ Len(s) > MaxHeld)
  PROVE  \A i \in 1..Len(s) : Exempt(s[i].of)
<1>. SUFFICES ASSUME NEW i \in 1..Len(s) PROVE Exempt(s[i].of)
  OBVIOUS
<1>0. Len(s) \in Nat /\ Len(s) \in 1..Len(s) /\ Last(s) = s[Len(s)]
  BY DEF Last
<1>1. CASE \A j \in 1..Len(s) : s[j].of = Last(s).of
  <2>1. ~Last(s).whole
    BY <1>1 DEF Decodes
  <2>2. Torn(s) /\ Len(s) > MaxHeld
    BY <2>1
  <2>3. \A j \in 1..Len(s) : ~s[j].whole /\ s[j].of = s[1].of
    BY <1>0, <1>1, <2>2 DEF Torn
  <2>. DEFINE c == s[1].of
              n == s[1].n
  <2>4. c \in Cards /\ n \in 1..MaxChunks
    BY <1>0, ByteIs
  <2>5. \A j \in 1..Len(s) : s[j] = Chunk(c, n + (j - 1), FALSE)
    <3>. SUFFICES ASSUME NEW j \in 1..Len(s) PROVE s[j] = Chunk(c, n + (j - 1), FALSE)
      OBVIOUS
    <3>1. s[j] \in Bytes
      OBVIOUS
    <3>2. s[j] = Chunk(s[j].of, s[j].n, s[j].whole) /\ s[j].whole \in BOOLEAN /\ s[j].n \in Int
      BY <3>1, ByteIs
    <3>3. Joined(s, 1, j)
      BY <1>0, ByteIs DEF Joined
    <3>4. s[j].n = n + (j - 1)
      <4>1. CASE j = 1
        BY <2>4, <4>1
      <4>2. CASE 1 < j
        <5>1. s[1].of = s[j].of
          BY <2>3
        <5>2. 1 \in 1..Len(s)
          BY <1>0
        <5>. QED
          BY <3>3, <4>2, <5>1, <5>2 DEF Chained
      <4>. QED
        BY <4>1, <4>2
    <3>5. s[j].whole = FALSE /\ s[j].of = c
      BY <2>3, <3>2
    <3>. QED
      BY <3>2, <3>4, <3>5
  <2>6. \A k \in 0..MaxHeld : \E f \in frames : f.chunk = Chunk(c, n + k, FALSE)
    <3>. SUFFICES ASSUME NEW k \in 0..MaxHeld PROVE \E f \in frames : f.chunk = Chunk(c, n + k, FALSE)
      OBVIOUS
    <3>1. k + 1 \in 1..Len(s) /\ (k + 1) - 1 = k
      BY <1>0, <2>2, VoiceAssumption
    <3>2. s[k + 1] = Chunk(c, n + k, FALSE)
      BY <2>5, <3>1
    <3>3. s[k + 1] # Flush
      BY <3>1, ByteIs
    <3>. QED
      BY <3>1, <3>2, <3>3 DEF Here
  <2>7. Oversized(c)
    BY <2>4, <2>6 DEF Oversized
  <2>. QED
    BY <2>3, <2>7 DEF Exempt
<1>2. CASE \E j \in 1..Len(s) : s[j].of # Last(s).of
  <2>1. PICK j \in 1..Len(s) : s[j].of # s[Len(s)].of
    BY <1>0, <1>2
  <2>2. CASE s[i].of # s[j].of
    BY <2>2, MixedAreExempt
  <2>3. CASE s[i].of # s[Len(s)].of
    BY <1>0, <2>3, MixedAreExempt
  <2>. QED
    BY <2>1, <2>2, <2>3
<1>. QED
  BY <1>1, <1>2

\* A task of the chain runs: what leaves the stream is played, or is exempt.
LEMMA RunsStream ==
  ASSUME StreamTypes, StreamInv, EndInv, RunsTask, session = "RUNNING"
  PROVE  StreamInv' /\ EndInv'
<1>0. /\ Here(Stream) /\ Chained(Stream) /\ EndWhole(Stream) /\ Torn(held) /\ Known(Stream) /\ EndOf(Stream)
      /\ held \in Seq(Bytes) /\ chain \in Seq(Entries) /\ played \in Seq(Bytes)
  BY DEF StreamInv, EndInv, StreamTypes
<1>. DEFINE h == Head(chain)
            flush == h = Flush
            bytes == IF flush THEN held ELSE Append(held, h)
<1>1. /\ chain # <<>> /\ chain' = Tail(chain)
      /\ UNCHANGED <<session, tts, upstream, chunks, spoken, frames, cut>>
  BY DEF RunsTask, clientVars
<1>2. PICK ok \in Decodes(bytes) :
        /\ played' = IF ok THEN played \o bytes ELSE played
        /\ held' = IF flush THEN Flushed(ok) ELSE HeldBack(ok, bytes)
  BY DEF RunsTask
<1>3. ok \in BOOLEAN
  BY DEF Decodes
<1>4. h \in Entries /\ Len(chain) > 0 /\ h = chain[1] /\ chain' \in Seq(Entries) /\ Len(chain') = Len(chain) - 1
      /\ \A i \in 1..Len(chain') : chain'[i] = chain[i + 1]
  BY <1>0, <1>1
<1>5. ~flush => h \in Bytes
  BY <1>4, EntryIs
<1>. HIDE DEF h
<1>6. bytes \in Seq(Bytes) /\ held \in Seq(Entries)
  <2>1. CASE flush
    BY <1>0, <2>1 DEF Entries
  <2>2. CASE ~flush
    BY <1>0, <1>5, <2>2 DEF Entries
  <2>. QED
    BY <2>1, <2>2
<1>7. /\ Stream \in Seq(Entries) /\ Len(Stream) = Len(held) + Len(chain)
      /\ Len(held) \in Nat /\ Len(chain) \in Nat
      /\ \A i \in 1..Len(held) : Stream[i] = held[i]
      /\ \A i \in 1..Len(chain) : Stream[Len(held) + i] = chain[i]
  BY StreamIs
<1>8. /\ Len(bytes) \in Nat /\ Len(bytes) <= Len(Stream)
      /\ \A i \in 1..Len(bytes) : bytes[i] = Stream[i]
  <2>1. CASE flush
    BY <1>4, <1>7, <2>1
  <2>2. CASE ~flush
    <3>1. bytes = Append(held, h) /\ Len(bytes) = Len(held) + 1 /\ bytes[Len(held) + 1] = h
          /\ \A i \in 1..Len(held) : bytes[i] = held[i]
      BY <1>0, <2>2
    <3>2. Stream[Len(held) + 1] = h
      BY <1>4, <1>7
    <3>. QED
      BY <1>4, <1>7, <3>1, <3>2
  <2>. QED
    BY <2>1, <2>2
<1>9. Here(bytes) /\ Chained(bytes)
  <2>. HIDE DEF bytes, flush
  <2>1. \A i \in 1..Len(bytes) : i \in 1..Len(Stream) /\ bytes[i] = Stream[i]
    BY <1>7, <1>8
  <2>2. Here(bytes)
    BY <1>0, <2>1 DEF Here
  <2>3. \A i, j \in 1..Len(bytes) : Joined(bytes, i, j) => Joined(Stream, i, j)
    <3>. SUFFICES ASSUME NEW i \in 1..Len(bytes), NEW j \in 1..Len(bytes), Joined(bytes, i, j), NEW k \in i..j
                  PROVE  Stream[k] # Flush
      BY DEF Joined
    <3>1. k \in 1..Len(bytes)
      BY <1>8
    <3>. QED
      BY <2>1, <3>1 DEF Joined
  <2>. QED
    BY <1>0, <2>1, <2>2, <2>3 DEF Chained
<1>10. ~flush => Torn(bytes) \/ (bytes # <<>> /\ Last(bytes).whole)
  <2>. SUFFICES ASSUME ~flush, \A i, j \in 1..Len(bytes) : bytes[i].of = bytes[j].of,
                       NEW i \in 1..Len(bytes), bytes[i].whole
                PROVE  bytes # <<>> /\ Last(bytes).whole
    BY DEF Torn
  <2>1. bytes = Append(held, h) /\ Len(bytes) = Len(held) + 1 /\ bytes[Len(held) + 1] = h
        /\ \A j \in 1..Len(held) : bytes[j] = held[j]
    BY <1>0
  <2>. HIDE DEF bytes, flush
  <2>2. \A k, j \in 1..Len(held) : held[k].of = held[j].of
    <3>. SUFFICES ASSUME NEW k \in 1..Len(held), NEW j \in 1..Len(held) PROVE held[k].of = held[j].of
      OBVIOUS
    <3>1. k \in 1..Len(bytes) /\ j \in 1..Len(bytes)
      BY <1>7, <2>1
    <3>. QED
      BY <2>1, <3>1
  <2>3. \A j \in 1..Len(held) : ~held[j].whole
    BY <1>0, <2>2 DEF Torn
  <2>4. i = Len(held) + 1
    BY <1>7, <2>1, <2>3
  <2>. QED
    BY <2>1, <2>4, <1>7 DEF Last
<1>11. CASE ~flush /\ ~ok /\ ~(Len(bytes) > MaxHeld)
  <2>1. held' = bytes /\ played' = played /\ bytes = Append(held, h)
    BY <1>2, <1>11 DEF HeldBack
  <2>2. Stream' = Stream
    <3>1. chain = <<h>> \o Tail(chain)
      BY <1>0, <1>4 DEF h
    <3>2. h \in Entries /\ Tail(chain) \in Seq(Entries)
      BY <1>1, <1>4
    <3>3. Append(held, h) \o Tail(chain) = held \o (<<h>> \o Tail(chain))
      BY <1>6, <3>2
    <3>. QED
      BY <1>1, <2>1, <3>1, <3>3, Zenon DEF Stream
  <2>3. Torn(bytes)
    <3>. SUFFICES ASSUME \A i, j \in 1..Len(bytes) : bytes[i].of = bytes[j].of
                  PROVE  Torn(bytes)
      BY DEF Torn
    <3>0. Len(bytes) = Len(held) + 1
      BY <1>0, <2>1
    <3>1. Len(bytes) \in 1..Len(bytes) /\ Last(bytes) = bytes[Len(bytes)] /\ bytes # <<>>
      BY <1>6, <1>7, <3>0 DEF Last
    <3>2. \A i \in 1..Len(bytes) : bytes[i].of = Last(bytes).of
      BY <3>1
    <3>3. Last(bytes).whole => Decodes(bytes) = {TRUE}
      BY <3>1, <3>2 DEF Decodes
    <3>4. ~Last(bytes).whole
      BY <1>11, <3>3
    <3>. QED
      BY <1>10, <1>11, <3>4
  <2>. HIDE DEF bytes, flush
  <2>4. Here(Stream)' /\ EndWhole(Stream)' /\ Torn(held)'
    BY <1>0, <1>1, <2>1, <2>2, <2>3 DEF Here, EndWhole, Torn
  <2>5. Chained(Stream)'
    BY <1>0, <1>1, <2>2 DEF Chained, Joined
  <2>6. Known(Stream)'
    BY <1>0, <1>1, <2>1, <2>2 DEF Known, Exempt, Oversized
  <2>7. EndOf(Stream)'
    BY <1>0, <1>1, <2>2 DEF EndOf, Before, Awaited
  <2>. QED
    BY <2>4, <2>5, <2>6, <2>7 DEF StreamInv, EndInv
<1>12. CASE flush \/ ok \/ Len(bytes) > MaxHeld
  <2>1. held' = <<>>
    BY <1>2, <1>12 DEF HeldBack, Flushed
  <2>2. Stream' = chain'
    BY <1>4, <2>1 DEF Stream
  <2>. DEFINE t == chain'
  <2>3. /\ t \in Seq(Entries) /\ Len(t) = Len(chain) - 1 /\ Len(t) <= Len(Stream)
        /\ Len(Stream) - Len(t) = Len(held) + 1
        /\ \A i \in 1..Len(t) : t[i] = Stream[i + (Len(held) + 1)]
    <3>1. Len(t) = Len(chain) - 1
      BY <1>4
    <3>2. \A i \in 1..Len(t) : t[i] = Stream[i + (Len(held) + 1)]
      <4>. SUFFICES ASSUME NEW i \in 1..Len(t) PROVE t[i] = Stream[i + (Len(held) + 1)]
        OBVIOUS
      <4>1. i + 1 \in 1..Len(chain) /\ Len(held) + (i + 1) = i + (Len(held) + 1)
        BY <1>7, <3>1
      <4>. QED
        BY <1>4, <1>7, <4>1
    <3>. QED
      BY <1>4, <1>7, <3>1, <3>2
  <2>. HIDE DEF t, bytes, flush
  <2>4. Suffix(t, Stream)
    BY <1>7, <2>3 DEF Suffix
  <2>5. Here(t) /\ Chained(t) /\ EndWhole(t) /\ EndOf(t)
    BY <1>0, <2>4, SuffixHere, SuffixChained, SuffixEndWhole, SuffixEnd
  <2>6. Stream' = t
    BY <2>2 DEF t
  <2>7. Here(Stream)' /\ EndWhole(Stream)'
    BY <1>1, <2>5, <2>6 DEF Here, EndWhole
  <2>8. Torn(held)'
    BY <2>1 DEF Torn
  <2>9. Chained(Stream)'
    BY <1>1, <2>5, <2>6 DEF Chained, Joined
  <2>10. EndOf(Stream)'
    BY <1>1, <2>5, <2>6 DEF EndOf, Before, Awaited
  <2>11. ~ok => \A i \in 1..Len(bytes) : Exempt(bytes[i].of)
    <3>. SUFFICES ASSUME ~ok, bytes # <<>> PROVE \A i \in 1..Len(bytes) : Exempt(bytes[i].of)
      BY <1>6
    <3>1. FALSE \in Decodes(bytes)
      BY <1>2, <1>3
    <3>2. CASE flush
      <4>1. bytes = held
        BY <3>2 DEF bytes
      <4>2. Len(held) > 0 /\ Len(held) + 1 \in 2..Len(Stream) /\ Stream[Len(held) + 1] = Flush
        <5>1. Len(held) > 0
          BY <1>0, <4>1
        <5>2. Stream[Len(held) + 1] = chain[1]
          BY <1>4, <1>7
        <5>3. chain[1] = Flush
          BY <1>4, <3>2 DEF flush
        <5>. QED
          BY <1>4, <1>7, <5>1, <5>2, <5>3
      <4>3. Stream[(Len(held) + 1) - 1].whole
        BY <1>0, <4>2 DEF EndWhole
      <4>4. (Len(held) + 1) - 1 = Len(held) /\ Len(held) \in 1..Len(held)
        BY <1>7, <4>2
      <4>5. Last(bytes).whole
        BY <1>7, <4>1, <4>3, <4>4 DEF Last
      <4>. QED
        BY <1>6, <1>9, <3>1, <4>5, DroppedAreExempt
    <3>3. CASE ~flush
      <4>1. Len(bytes) > MaxHeld
        BY <1>12, <3>3
      <4>2. Last(bytes).whole \/ (Torn(bytes) /\ Len(bytes) > MaxHeld)
        BY <1>10, <3>3, <4>1
      <4>. QED
        BY <1>6, <1>9, <3>1, <4>2, DroppedAreExempt
    <3>. QED
      BY <3>2, <3>3
  <2>12. \A b : b \in ToSet(Stream) => b = Flush \/ b \in ToSet(bytes) \/ b \in ToSet(t)
    <3>. SUFFICES ASSUME NEW i \in 1..Len(Stream), Stream[i] # Flush
                  PROVE  Stream[i] \in ToSet(bytes) \/ Stream[i] \in ToSet(t)
      BY DEF ToSet
    <3>1. CASE i \in 1..Len(bytes)
      BY <1>8, <3>1 DEF ToSet
    <3>2. CASE i > Len(held) + 1
      <4>1. i - (Len(held) + 1) \in 1..Len(t) /\ (i - (Len(held) + 1)) + (Len(held) + 1) = i
        BY <1>7, <2>3, <3>2
      <4>2. t[i - (Len(held) + 1)] = Stream[i]
        BY <2>3, <4>1
      <4>. QED
        BY <2>3, <4>1, <4>2, InToSet
    <3>3. CASE i <= Len(held) + 1 /\ i \notin 1..Len(bytes)
      <4>1. i = Len(held) + 1 /\ flush
        <5>1. ~flush => Len(bytes) = Len(held) + 1
          BY <1>0 DEF bytes
        <5>2. flush => Len(bytes) = Len(held)
          BY DEF bytes
        <5>. QED
          BY <1>7, <3>3, <5>1, <5>2
      <4>2. Stream[i] = h
        BY <1>4, <1>7, <4>1
      <4>. QED
        BY <4>1, <4>2 DEF flush
    <3>. QED
      BY <1>7, <3>1, <3>2, <3>3
  <2>13. ToSet(played) \subseteq ToSet(played') /\ (ok => ToSet(bytes) \subseteq ToSet(played'))
    <3>1. CASE ok
      <4>1. played' = played \o bytes
        BY <1>2, <3>1
      <4>2. /\ Len(played') = Len(played) + Len(bytes)
            /\ \A i \in 1..Len(played) : played'[i] = played[i]
            /\ \A i \in 1..Len(bytes) : played'[Len(played) + i] = bytes[i]
        BY <1>0, <1>6, <4>1
      <4>3. Len(played) \in Nat /\ Len(bytes) \in Nat
        BY <1>0, <1>8
      <4>4. \A i \in 1..Len(played) : i \in 1..Len(played')
        BY <4>2, <4>3
      <4>5. \A i \in 1..Len(bytes) : Len(played) + i \in 1..Len(played')
        BY <4>2, <4>3
      <4>. QED
        <5>1. played' \in Seq(Bytes)
          BY <1>0, <1>6, <4>1
        <5>2. \A i \in 1..Len(played) : played[i] \in ToSet(played')
          BY <4>2, <4>4, <5>1, InToSet
        <5>3. \A i \in 1..Len(bytes) : bytes[i] \in ToSet(played')
          BY <4>2, <4>5, <5>1, InToSet
        <5>. QED
          BY <1>0, <1>6, <5>2, <5>3, OfToSet
    <3>2. CASE ~ok
      BY <1>2, <3>2
    <3>. QED
      BY <3>1, <3>2
  <2>14. \A f \in frames : Exempt(f.chunk.of) => Exempt(f.chunk.of)'
    BY <1>1, ExemptStays
  <2>15. Known(Stream)'
    <3>. SUFFICES ASSUME NEW f \in frames
                  PROVE  f.chunk \in ToSet(t) \/ f.chunk \in ToSet(played') \/ Exempt(f.chunk.of)'
      BY <1>1, <2>6 DEF Known
    <3>1. f.chunk # Flush
      BY ByteIs DEF StreamTypes
    <3>2. f.chunk \in ToSet(Stream) \/ f.chunk \in ToSet(played) \/ Exempt(f.chunk.of)
      BY <1>0 DEF Known
    <3>3. CASE f.chunk \in ToSet(bytes)
      <4>1. CASE ok
        BY <2>13, <3>3, <4>1
      <4>2. CASE ~ok
        <5>0. PICK i \in 1..Len(bytes) : f.chunk = bytes[i]
          BY <1>6, <3>3, SetOf
        <5>1. Exempt(bytes[i].of)
          BY <2>11, <4>2
        <5>2. Exempt(f.chunk.of)
          BY <5>0, <5>1
        <5>. QED
          BY <2>14, <5>2
      <4>. QED
        BY <4>1, <4>2
    <3>. QED
      BY <2>12, <2>13, <2>14, <3>1, <3>2, <3>3
  <2>. QED
    BY <2>7, <2>8, <2>9, <2>10, <2>15 DEF StreamInv, EndInv
<1>. QED
  BY <1>11, <1>12

LEMMA StreamInit == Init => StreamTypes /\ StreamInv /\ EndInv
<1>. SUFFICES ASSUME Init PROVE StreamTypes /\ StreamInv /\ EndInv
  OBVIOUS
<1>1. held = <<>> /\ chain = <<>> /\ played = <<>> /\ frames = {}
  BY DEF Init
<1>2. Stream = <<>>
  BY <1>1 DEF Stream
<1>3. StreamTypes
  BY <1>1 DEF StreamTypes
<1>4. StreamInv
  BY <1>1, <1>2 DEF StreamInv, Here, Chained, EndWhole, Torn, Known
<1>5. EndInv
  BY <1>2 DEF EndInv, EndOf
<1>. QED
  BY <1>3, <1>4, <1>5

LEMMA StreamStep ==
  TypesAndConn /\ LabelInv /\ QueueInv /\ StreamTypes /\ StreamInv /\ EndInv /\ [Next]_vars
    => StreamInv' /\ EndInv'
<1>. SUFFICES ASSUME TypesAndConn, LabelInv, QueueInv, StreamTypes, StreamInv, EndInv, [Next]_vars,
                     session' = "RUNNING"
              PROVE  StreamInv' /\ EndInv'
  BY DEF StreamInv, EndInv
<1>0. /\ upstream \in Seq(Cards) /\ spoken \in Nat /\ chunks \in Nat /\ tts.backlog \in Seq(Cards)
      /\ Stream \in Seq(Entries)
  BY StreamIs DEF TypesAndConn, VoiceTypes, Clients
<1>1. CASE Speak
  <2>1. /\ session = "RUNNING" /\ UNCHANGED <<chunks, cut, frames, pageVars>>
        /\ (tts'.unavailable <=> tts.unavailable)
        /\ spoken' = spoken + 1 /\ spoken + 1 \in Cards
        /\ tts.unavailable => UNCHANGED <<tts, upstream>>
        /\ ~tts.unavailable =>
              \/ tts.backlog = <<>> /\ tts'.backlog = <<>> /\ upstream' = Append(upstream, spoken + 1)
              \/ upstream = <<>> /\ upstream' = <<>> /\ tts'.backlog = Append(tts.backlog, spoken + 1)
    BY <1>1, SpeakQueue
  <2>2. StreamInv'
    BY <2>1, StreamCalm
  <2>3. EndOf(Stream) /\ Stream' = Stream
    BY <2>1 DEF EndInv, Stream, pageVars
  <2>4. ~tts.unavailable => Before' = Before
    <3>1. ~tts.unavailable => Len(upstream') + Len(tts'.backlog) = Len(upstream) + Len(tts.backlog) + 1
      BY <1>0, <2>1
    <3>2. ~tts.unavailable => Awaited' = Awaited + 1
      BY <3>1 DEF Awaited
    <3>3. Awaited \in Nat /\ spoken' = spoken + 1
      BY <1>0, <2>1 DEF Awaited
    <3>. QED
      BY <1>0, <3>2, <3>3 DEF Before
  <2>5. chunks > 0 => Head(upstream') = Head(upstream)
    <3>1. chunks > 0 => upstream # <<>>
      BY <1>0, <2>1 DEF QueueInv
    <3>2. chunks > 0 => upstream' = upstream \/ upstream' = Append(upstream, spoken + 1)
      BY <2>1, <3>1
    <3>3. upstream # <<>> => Head(Append(upstream, spoken + 1)) = Head(upstream)
      BY <1>0, <2>1
    <3>. QED
      BY <3>1, <3>2, <3>3, Zenon
  <2>6. EndOf(Stream)'
    BY <2>1, <2>3, <2>4, <2>5 DEF EndOf
  <2>. QED
    BY <2>2, <2>6 DEF EndInv
<1>2. CASE Opens
  <2>1. /\ UNCHANGED <<session, spoken, cut, frames, pageVars>>
        /\ ~tts.unavailable /\ ~tts'.unavailable
        /\ tts'.backlog = <<>> /\ upstream = <<>> /\ upstream' = tts.backlog /\ chunks = 0 /\ chunks' = 0
    BY <1>2, OpensQueue
  <2>2. StreamInv'
    BY <2>1, StreamCalm
  <2>3. EndOf(Stream) /\ Stream' = Stream
    BY <2>1 DEF EndInv, Stream, pageVars
  <2>4. Before' = Before
    BY <1>0, <2>1 DEF Before, Awaited
  <2>5. EndOf(Stream)'
    BY <2>1, <2>3, <2>4 DEF EndOf
  <2>. QED
    BY <2>2, <2>5 DEF EndInv
<1>3. CASE Errors \/ Closes
  <2>1. /\ UNCHANGED <<session, spoken, frames, pageVars>>
        /\ cut' = cut \cup ToSet(upstream) /\ upstream' = <<>> /\ chunks' = 0
        /\ \/ tts'.unavailable
           \/ /\ (tts'.unavailable <=> tts.unavailable) /\ tts'.backlog = tts.backlog
              /\ upstream # <<>> => tts.backlog = <<>>
    BY <1>3, EndsQueue
  <2>2. StreamInv'
    BY <2>1, StreamCalm
  <2>3. EndOf(Stream) /\ Stream' = Stream
    BY <2>1 DEF EndInv, Stream, pageVars
  <2>. DEFINE N == Len(Stream)
  <2>4. N \in Nat /\ (upstream = <<>> => chunks = 0)
    BY <1>0, <2>1 DEF QueueInv
  <2>5. upstream # <<>> => Head(upstream) \in cut'
    <3>1. upstream # <<>> => Head(upstream) = upstream[1] /\ 1 \in 1..Len(upstream)
      BY <1>0
    <3>. QED
      BY <1>0, <2>1, <3>1, InToSet
  <2>6. N > 0 /\ Stream[N] # Flush => Stream[N].of \in cut'
    <3>1. CASE chunks > 0
      BY <1>0, <2>3, <2>4, <2>5, <3>1 DEF EndOf
    <3>2. CASE ~(chunks > 0)
      BY <2>1, <2>3, <3>2 DEF EndOf
    <3>. QED
      BY <3>1, <3>2
  <2>7. ASSUME ~tts'.unavailable
        PROVE  /\ N > 0 /\ Stream[N] # Flush => Before' \in cut'
               /\ \A i \in 1..N : Stream[i].of <= Before'
    <3>1. ~tts.unavailable /\ tts'.backlog = tts.backlog
      BY <2>1, <2>7
    <3>0. Before \in Int
      BY <1>0 DEF Before, Awaited
    <3>2. Before \in Int /\ \A i \in 1..N : Stream[i].of <= Before + (IF chunks > 0 THEN 1 ELSE 0)
      BY <2>3, <3>0, <3>1 DEF EndOf
    <3>3. CASE upstream = <<>>
      <4>1. Before' = Before /\ ~(chunks > 0)
        BY <1>0, <2>1, <2>4, <3>1, <3>3 DEF Before, Awaited
      <4>2. N > 0 /\ Stream[N] # Flush => Before \in cut
        BY <2>3, <3>1, <4>1 DEF EndOf
      <4>3. \A i \in 1..N : Stream[i].of <= Before
        BY <3>2, <4>1
      <4>. QED
        BY <2>1, <4>1, <4>2, <4>3
    <3>4. CASE upstream # <<>>
      <4>1. tts.backlog = <<>> /\ Len(upstream) > 0 /\ Len(upstream) \in 1..Len(upstream)
        BY <1>0, <2>1, <2>7, <3>4
      <4>2. Before' = Before + Len(upstream)
        BY <1>0, <2>1, <3>1, <4>1 DEF Before, Awaited
      <4>3. upstream[Len(upstream)] = Before + Len(upstream)
        BY <2>1, <3>1, <4>1 DEF QueueInv
      <4>4. Before' \in cut'
        BY <1>0, <2>1, <4>1, <4>2, <4>3, InToSet
      <4>5. \A i \in 1..N : Stream[i].of <= Before'
        <5>. SUFFICES ASSUME NEW i \in 1..N PROVE Stream[i].of <= Before'
          OBVIOUS
        <5>1. Stream[i] \in Entries
          BY <1>0
        <5>2. Stream[i].of \in Int
          BY <5>1, EntryIs, ByteIs DEF Cards, Flush
        <5>3. Stream[i].of <= Before + 1
          BY <3>2, <5>2
        <5>. QED
          BY <1>0, <3>2, <4>1, <4>2, <5>2, <5>3
      <4>. QED
        BY <4>4, <4>5
    <3>. QED
      BY <3>3, <3>4
  <2>8. EndOf(Stream)'
    <3>1. ~(chunks' > 0) /\ Stream' = Stream
      BY <2>1, <2>3
    <3>2. ~tts'.unavailable => \A i \in 1..Len(Stream') : Stream'[i].of <= Before' + (IF chunks' > 0 THEN 1 ELSE 0)
      <4>. SUFFICES ASSUME ~tts'.unavailable, NEW i \in 1..Len(Stream')
                    PROVE  Stream'[i].of <= Before' + 0
        BY <3>1
      <4>1. Stream[i].of <= Before' /\ Before' \in Int
        <5>1. Len(tts'.backlog) \in Nat
          BY <1>0, <2>1
        <5>. QED
          BY <1>0, <2>1, <2>7, <3>1, <5>1 DEF Before, Awaited
      <4>. QED
        BY <3>1, <4>1
    <3>3. Len(Stream') > 0 /\ Stream'[Len(Stream')] # Flush =>
            Stream'[Len(Stream')].of \in cut' /\ (~tts'.unavailable => Before' \in cut')
      BY <2>6, <2>7, <3>1
    <3>. QED
      BY <3>1, <3>2, <3>3 DEF EndOf
  <2>. QED
    BY <2>2, <2>8 DEF EndInv
<1>4. CASE TimerFires
  <2>1. /\ UNCHANGED <<session, upstream, chunks, spoken, frames, cut, pageVars>>
        /\ (tts'.unavailable <=> tts.unavailable) /\ tts'.backlog = tts.backlog
    BY <1>4, TimerQueue
  <2>2. StreamInv'
    BY <2>1, StreamCalm
  <2>3. EndOf(Stream) /\ Stream' = Stream /\ Before' = Before
    BY <2>1 DEF EndInv, Stream, pageVars, Before, Awaited
  <2>4. EndOf(Stream)'
    BY <2>1, <2>3 DEF EndOf
  <2>. QED
    BY <2>2, <2>4 DEF EndInv
<1>5. CASE Answers
  <2>1. session = "RUNNING"
    BY <1>5 DEF Answers
  <2>. QED
    BY <1>5, <2>1, AnswersStream
<1>6. CASE RunsTask
  <2>1. session = "RUNNING"
    BY <1>6 DEF RunsTask
  <2>. QED
    BY <1>6, <2>1, RunsStream
<1>7. CASE UNCHANGED vars
  <2>1. UNCHANGED <<session, tts, upstream, chunks, spoken, frames, cut, pageVars>>
    BY <1>7 DEF vars, clientVars
  <2>2. StreamInv'
    BY <2>1, StreamCalm
  <2>3. EndInv'
    BY <2>1 DEF EndInv, EndOf, Stream, pageVars, Before, Awaited
  <2>. QED
    BY <2>2, <2>3
<1>8. ~SessionCloses /\ ~SessionEnds
  BY DEF SessionCloses, SessionEnds
<1>. QED
  BY <1>1, <1>2, <1>3, <1>4, <1>5, <1>6, <1>7, <1>8 DEF Next

\* Once the page has caught up, what it still holds back is of the sentence that is
\* being answered, of one that was cut off, or of one that such a sentence follows.
LEMMA CaughtUp == TypesAndConn /\ StreamTypes /\ QueueInv /\ StreamInv /\ EndInv => LossIsLocal
<1>. SUFFICES ASSUME TypesAndConn, StreamTypes, QueueInv, StreamInv, EndInv, chain = <<>>, session = "RUNNING",
                     NEW c \in Finished, c - 1 \notin cut, ~Oversized(c),
                     NEW f \in frames, f.chunk.of = c
              PROVE  f.chunk \in ToSet(played)
  BY DEF LossIsLocal
<1>1. c \notin cut /\ c \notin ToSet(upstream)
  BY DEF Finished
<1>2. /\ held \in Seq(Bytes) /\ Stream = held
  BY DEF StreamTypes, Stream
<1>3. f.chunk \in ToSet(held) \/ f.chunk \in ToSet(played)
  BY <1>1, <1>2 DEF StreamInv, Known, Exempt
<1>4. ASSUME NEW i \in 1..Len(held), held[i].of = c
      PROVE  FALSE
  <2>. DEFINE N == Len(held)
  <2>1. N \in 1..N /\ N > 0
    BY <1>2
  <2>2. \A k \in 1..N : held[k] # Flush
    BY <1>2, ByteIs
  <2>3. Joined(held, i, N)
    BY <1>2, <2>2 DEF Joined
  <2>4. held[N].of = c
    <3>1. CASE i = N
      BY <1>4, <3>1
    <3>2. CASE i < N
      BY <1>1, <1>2, <1>4, <2>1, <2>3, <3>2 DEF StreamInv, Chained
    <3>. QED
      BY <1>2, <3>1, <3>2
  <2>5. EndOf(held)
    BY <1>2 DEF EndInv
  <2>6. chunks > 0 /\ c = Head(upstream)
    BY <1>1, <2>1, <2>2, <2>4, <2>5 DEF EndOf
  <2>. QED
    <3>1. upstream \in Seq(Cards) /\ upstream # <<>>
      BY <2>6 DEF TypesAndConn, VoiceTypes, QueueInv
    <3>2. Head(upstream) = upstream[1] /\ 1 \in 1..Len(upstream)
      BY <3>1
    <3>. QED
      BY <1>1, <2>6, <3>1, <3>2, InToSet
<1>. QED
  BY <1>2, <1>3, <1>4 DEF ToSet

\* What the page could not decode costs one sentence (audio-queue.ts:19-27, 78-79,
\* 119-129).
THEOREM VoiceLossIsLocal == Spec => []LossIsLocal
<1>. DEFINE Inv == TypesAndConn /\ LabelInv /\ QueueInv /\ StreamTypes /\ StreamInv /\ EndInv
<1>1. Init => Inv
  BY TypesInit, LabelInit, QueueInit, StreamInit
<1>2. Inv /\ [Next]_vars => Inv'
  BY TypesStep, LabelStep, QueueStep, StreamTypesStep, StreamStep
<1>3. Inv => LossIsLocal
  BY CaughtUp
<1>. QED
  BY <1>1, <1>2, <1>3, PTL DEF Spec

=============================================================================
