---------------------------- MODULE WebProofs -----------------------------
(***************************************************************************)
(* Proofs about the web app: the page of the studio and the resampler of   *)
(* its recorder (Studio, Frames), and the accounts behind it (Login).      *)
(***************************************************************************)
EXTENDS Studio, Frames, Login, FiniteSetTheorems, TLAPS

-----------------------------------------------------------------------------
(***************************************************************************)
(* What the actor hears and what the page shows, for any number of         *)
(* attempts and any limit of the buffer; and what the resampler keeps      *)
(* between two blocks, for every rate and every block.                     *)
(***************************************************************************)

(* Types                                                                   *)

Messages == [t : {"hello", "audio", "bye"}, n : Nat]
Carried == Seq(Messages)   \* what a socket carries
Sounds == Seq(Nat)         \* frames, by their numbers

PageTypes ==
  /\ status \in {"idle", "starting", "live", "ended"} /\ mounted \in BOOLEAN
  /\ current \in 0..MaxStarts /\ recorder \in 0..MaxStarts /\ starts \in 0..MaxStarts
  /\ closing \in [Attempts -> {"", "stop", "end", "fail"}]
  /\ confused \in BOOLEAN /\ lost \subseteq Attempts

ClientTypes ==
  /\ phase \in [Attempts -> {"fetch", "mic", "over"}]
  /\ client \in [Attempts -> {"idle", "connecting", "live", "closed"}]
  /\ sock \in [Attempts -> {"none", "connecting", "open", "closing", "closed"}]
  /\ mic \in [Attempts -> {"off", "on", "lit"}]

SoundTypes ==
  /\ buffered \in [Attempts -> Sounds] /\ frames \in [Attempts -> Nat]
  /\ up \in [Attempts -> Carried]
  /\ inWindow \in [Attempts -> Nat] /\ heard \in [Attempts -> Sounds]

RelayTypes ==
  /\ relay \in [Attempts -> {"none", "greeting", "verifying", "running", "left", "alone",
                             "refused", "over"}]
  /\ down \in [Attempts -> {"", "end", "close"}]

\* TypeOK, with what the sockets carry and without the bound on the frames, which is of
\* the model checking only.
StudioTypes == PageTypes /\ ClientTypes /\ SoundTypes /\ RelayTypes

\* The attempts and their numbers.
LEMMA AttemptsAre ==
  /\ \A k \in Attempts : k \in 0..MaxStarts /\ k # 0
  /\ \A k \in 0..MaxStarts : k # 0 => k \in Attempts
  /\ \A k \in 0..MaxStarts : k < MaxStarts => k + 1 \in Attempts /\ k + 1 \in 0..MaxStarts
  /\ 0 \in 0..MaxStarts
  BY StudioAssumption DEF Attempts

\* One attempt's sequence is altered.
LEMMA Altered ==
  ASSUME SoundTypes, NEW k \in Attempts
  PROVE  /\ \A u \in Carried : Set(up, k, u) \in [Attempts -> Carried]
         /\ \A b \in Sounds : Set(buffered, k, b) \in [Attempts -> Sounds]
         /\ \A h \in Sounds : Set(heard, k, h) \in [Attempts -> Sounds]
         /\ \A w \in Nat : Set(inWindow, k, w) \in [Attempts -> Nat]
  BY DEF SoundTypes, Set

\* What can become of a sequence.
LEMMA Sequences ==
  /\ <<>> \in Carried /\ <<>> \in Sounds
  /\ \A u \in Carried, m \in Messages : Append(u, m) \in Carried /\ Append(u, m) # <<>>
  /\ \A u \in Carried : u # <<>> => Head(u) \in Messages /\ Tail(u) \in Carried
  /\ \A b \in Sounds, n \in Nat : Append(b, n) \in Sounds /\ Append(b, n) # <<>>
  /\ \A b \in Sounds : b # <<>> => Tail(b) \in Sounds
  BY DEF Carried, Sounds

\* What the browser sends is a message.
LEMMA MessagesAre ==
  Hello \in Messages /\ Bye \in Messages /\ \A n \in Nat : Audio(n) \in Messages
  BY DEF Messages, Hello, Bye, Audio

\* What onopen sends is hello and one message for each frame of the buffer.
LEMMA OpeningIs ==
  ASSUME NEW k, buffered[k] \in Sounds
  PROVE  LET b == buffered[k]
         IN  /\ Opening(k) \in Carried /\ Len(Opening(k)) = Len(b) + 1
             /\ Opening(k)[1] = Hello
             /\ \A i \in 1..Len(b) : Opening(k)[i + 1] = Audio(b[i])
<1> DEFINE b == buffered[k]
           a == [i \in 1..Len(b) |-> Audio(b[i])]
<1>1. a \in Seq(Messages) /\ Len(a) = Len(b)
  <2>1. Len(b) \in Nat /\ \A i \in 1..Len(b) : b[i] \in Nat
    BY DEF Sounds
  <2>2. \A i \in 1..Len(b) : Audio(b[i]) \in Messages
    BY <2>1, MessagesAre
  <2>3. QED
    BY <2>1, <2>2
<1>2. \A i \in 1..Len(b) : a[i] = Audio(b[i])
  OBVIOUS
<1>3. Opening(k) = <<Hello>> \o a
  BY DEF Opening
<1>4. Hello \in Messages
  BY MessagesAre
<1> HIDE DEF a, b
<1>5. /\ <<Hello>> \o a \in Seq(Messages) /\ Len(<<Hello>> \o a) = Len(a) + 1
      /\ (<<Hello>> \o a)[1] = Hello
      /\ \A i \in 1..Len(a) : (<<Hello>> \o a)[i + 1] = a[i]
  BY <1>1, <1>4
<1>6. QED
  BY <1>1, <1>2, <1>3, <1>5 DEF b, Carried

\* The page as it is opened.
LEMMA TypesInit == Init => StudioTypes
<1> SUFFICES ASSUME Init PROVE StudioTypes
  OBVIOUS
<1>1. PageTypes /\ ClientTypes /\ RelayTypes
  BY AttemptsAre DEF Init, PageTypes, ClientTypes, RelayTypes
<1>2. SoundTypes
  BY Sequences DEF Init, SoundTypes
<1>3. QED
  BY <1>1, <1>2 DEF StudioTypes

\* What RelayClient.close() and MicStream.stop() leave.
LEMMA Closing ==
  ASSUME StudioTypes
  PROVE  /\ CloseClient => /\ client' \in [Attempts -> {"idle", "connecting", "live", "closed"}]
                           /\ sock' \in [Attempts -> {"none", "connecting", "open", "closing", "closed"}]
         /\ Stopped \in [Attempts -> {"off", "on", "lit"}]
  BY AttemptsAre DEF StudioTypes, PageTypes, ClientTypes, CloseClient, Stopped, Set

\* Every step keeps the types.
LEMMA TypesNext == StudioTypes /\ [Next]_vars => StudioTypes'
<1> SUFFICES ASSUME StudioTypes, [Next]_vars PROVE StudioTypes'
  OBVIOUS
<1> USE DEF StudioTypes, vars, ui, browser, wire, server, history
<1>1. CASE Start
  BY <1>1, AttemptsAre DEF PageTypes, ClientTypes, SoundTypes, RelayTypes, Start, Set
<1>0. ASSUME NEW by \in {"stop", "end", "fail"}, Teardown(by)
      PROVE  /\ closing' \in [Attempts -> {"", "stop", "end", "fail"}]
             /\ current' = 0 /\ recorder' = recorder /\ CloseClient
  BY <1>0 DEF PageTypes, Teardown, Set
<1>2. CASE Stop
  <2>1. up' = up \/ (current # 0 /\ up' = Set(up, current, Append(up[current], Bye)))
    BY <1>2 DEF Stop, Append1, Set
  <2>2. up' \in [Attempts -> Carried]
    <3>1. CASE current # 0
      <4>1. current \in Attempts
        BY <3>1, AttemptsAre DEF PageTypes
      <4>2. Append(up[current], Bye) \in Carried
        BY <4>1, Sequences, MessagesAre DEF SoundTypes
      <4>3. QED
        BY <2>1, <4>1, <4>2, Altered DEF SoundTypes
    <3>2. QED
      BY <2>1, <3>1 DEF SoundTypes
  <2>3. Teardown("stop") /\ mic' = Stopped /\ UNCHANGED phase
    BY <1>2 DEF Stop
  <2>4. PageTypes'
    BY <1>0, <1>2, <2>3, AttemptsAre DEF PageTypes, Stop
  <2>5. ClientTypes'
    BY <1>0, <2>3, Closing DEF ClientTypes
  <2>6. QED
    BY <1>2, <2>2, <2>4, <2>5 DEF SoundTypes, RelayTypes, Stop
<1>3. CASE Leave
  BY <1>3, Closing DEF PageTypes, ClientTypes, SoundTypes, RelayTypes, Leave
<1>4. ASSUME NEW k \in Attempts, NotStarted(k) PROVE StudioTypes'
  BY <1>4 DEF PageTypes, ClientTypes, SoundTypes, RelayTypes, NotStarted, Set
<1>5. ASSUME NEW k \in Attempts, Connect(k) PROVE StudioTypes'
  BY <1>5, AttemptsAre DEF PageTypes, ClientTypes, SoundTypes, RelayTypes, Connect, Set
<1>6. ASSUME NEW k \in Attempts, MicOpens(k) PROVE StudioTypes'
  BY <1>6, AttemptsAre DEF PageTypes, ClientTypes, SoundTypes, RelayTypes, MicOpens, Set
<1>7. ASSUME NEW k \in Attempts, MicFails(k) PROVE StudioTypes'
  <2>1. mic' \in [Attempts -> {"off", "on", "lit"}]
    BY <1>7, Closing DEF MicFails, Set
  <2>2. phase' \in [Attempts -> {"fetch", "mic", "over"}]
    BY <1>7 DEF MicFails, Set, ClientTypes
  <2>3. /\ closing' \in [Attempts -> {"", "stop", "end", "fail"}] /\ CloseClient
        /\ current' = 0 /\ UNCHANGED <<recorder, mounted, starts, lost>>
        /\ status' \in {"idle", status} /\ confused' \in BOOLEAN
    <3>1. Teardown("fail")
      BY <1>7 DEF MicFails
    <3>2. QED
      BY <1>0, <1>7, <3>1 DEF MicFails
  <2>4. PageTypes'
    BY <2>3, AttemptsAre DEF PageTypes
  <2>5. ClientTypes'
    BY <2>1, <2>2, <2>3, Closing DEF ClientTypes
  <2>6. QED
    BY <1>7, <2>4, <2>5 DEF SoundTypes, RelayTypes, MicFails
<1>8. ASSUME NEW k \in Attempts, Frame(k) PROVE StudioTypes'
  <2> DEFINE n == frames[k] + 1
             u == Append(up[k], Audio(n))
             b == Buffered(k, n)
  <2>1. n \in Nat /\ u \in Carried /\ b \in Sounds
    <3>1. n \in Nat /\ Audio(n) \in Messages /\ up[k] \in Carried /\ buffered[k] \in Sounds
      BY MessagesAre DEF SoundTypes
    <3> HIDE DEF n
    <3> DEFINE q == Append(buffered[k], n)
    <3>2. q \in Sounds /\ q # <<>> /\ u \in Carried
      BY <3>1, Sequences
    <3>3. b = IF Len(q) > MaxBuffered THEN Tail(q) ELSE q
      BY DEF Buffered
    <3> HIDE DEF q, b
    <3>4. QED
      BY <3>1, <3>2, <3>3, Sequences
  <2>2. /\ frames' = Set(frames, k, n) /\ (up' = up \/ up' = Set(up, k, u))
        /\ buffered' = buffered \/ buffered' = Set(buffered, k, b)
    BY <1>8 DEF Frame, Append1, Set
  <2> HIDE DEF n, u, b
  <2>3. frames' \in [Attempts -> Nat]
    BY <2>1, <2>2 DEF SoundTypes, Set
  <2>5. up' \in [Attempts -> Carried] /\ buffered' \in [Attempts -> Sounds]
    BY <2>1, <2>2, Altered DEF SoundTypes
  <2>4. QED
    BY <1>8, <2>3, <2>5 DEF PageTypes, ClientTypes, SoundTypes, RelayTypes, Frame
<1>9. ASSUME NEW k \in Attempts, SocketOpens(k) PROVE StudioTypes'
  <2>1. Opening(k) \in Carried
    BY OpeningIs DEF SoundTypes
  <2>2. up' = Set(up, k, Opening(k)) /\ buffered' = Set(buffered, k, <<>>)
    BY <1>9 DEF SocketOpens
  <2>3. up' \in [Attempts -> Carried] /\ buffered' \in [Attempts -> Sounds]
    BY <2>1, <2>2, Altered, Sequences
  <2>4. ClientTypes'
    BY <1>9 DEF ClientTypes, SocketOpens, Set
  <2>5. RelayTypes'
    BY <1>9 DEF RelayTypes, SocketOpens, Set
  <2>6. QED
    BY <1>9, <2>3, <2>4, <2>5 DEF PageTypes, SoundTypes, SocketOpens
<1>10. ASSUME NEW k \in Attempts, SocketCloses(k) PROVE StudioTypes'
  <2>1. up' \in [Attempts -> Carried] /\ buffered' \in [Attempts -> Sounds]
    <3>1. (up' = up \/ up' = Set(up, k, <<>>)) /\ buffered' = Set(buffered, k, <<>>)
      BY <1>10 DEF SocketCloses
    <3>2. QED
      BY <3>1, Altered, Sequences DEF SoundTypes
  <2>2. ClientTypes' /\ RelayTypes'
    BY <1>10 DEF ClientTypes, RelayTypes, SocketCloses, Set
  <2>3. PageTypes'
    BY <1>10, AttemptsAre DEF PageTypes, SocketCloses, AfterClose
  <2>4. QED
    BY <1>10, <2>1, <2>2, <2>3 DEF SoundTypes, SocketCloses
<1>11. ASSUME NEW k \in Attempts, Ended(k) PROVE StudioTypes'
  <2>1. Teardown("end") /\ mic' = Stopped /\ UNCHANGED phase
    BY <1>11 DEF Ended
  <2>2. PageTypes'
    BY <1>0, <1>11, <2>1, AttemptsAre DEF PageTypes, Ended
  <2>3. ClientTypes'
    BY <1>0, <2>1, Closing DEF ClientTypes
  <2>4. QED
    BY <1>11, <2>2, <2>3 DEF SoundTypes, RelayTypes, Ended, Set
<1>12. ASSUME NEW k \in Attempts, Deliver(k) PROVE StudioTypes'
  <2>1. up[k] \in Carried /\ up[k] # <<>> /\ up' = Set(up, k, Tail(up[k]))
    BY <1>12 DEF SoundTypes, Deliver, Set
  <2>2. Head(up[k]) \in Messages /\ up' \in [Attempts -> Carried]
    <3>1. Head(up[k]) \in Messages /\ Tail(up[k]) \in Carried
      BY <2>1, Sequences
    <3>2. QED
      BY <2>1, <3>1, Altered
  <2>3. \/ heard' = heard /\ inWindow' = inWindow
        \/ \E w \in {1, inWindow[k] + 1} :
             /\ inWindow' = Set(inWindow, k, w)
             /\ heard' = heard \/ heard' = Set(heard, k, Append(heard[k], Head(up[k]).n))
    BY <1>12 DEF Deliver, EndFromRelay, AcceptFrame, Append1, Set
  <2>4. Head(up[k]).n \in Nat
    BY <2>2 DEF Messages
  <2>5. heard' \in [Attempts -> Sounds] /\ inWindow' \in [Attempts -> Nat]
    <3>1. Append(heard[k], Head(up[k]).n) \in Sounds /\ {1, inWindow[k] + 1} \subseteq Nat
      BY <2>4, Sequences DEF SoundTypes
    <3>2. QED
      BY <2>3, <3>1, Altered DEF SoundTypes
  <2>6. RelayTypes'
    BY <1>12 DEF RelayTypes, Deliver, EndFromRelay, Set
  <2>7. QED
    BY <1>12, <2>2, <2>5, <2>6 DEF PageTypes, ClientTypes, SoundTypes, Deliver
<1>13. ASSUME NEW k \in Attempts, Handshake(k) PROVE StudioTypes'
  <2>1. RelayTypes'
    BY <1>13 DEF RelayTypes, Handshake, CloseFromRelay, Set
  <2>2. QED
    BY <1>13, <2>1 DEF PageTypes, ClientTypes, SoundTypes, Handshake
<1>14. ASSUME NEW k \in Attempts, ActorEnds(k) PROVE StudioTypes'
  BY <1>14 DEF PageTypes, ClientTypes, SoundTypes, RelayTypes, ActorEnds, EndFromRelay, Set
<1>15. ASSUME NEW k \in Attempts, RelaySeesClose(k) PROVE StudioTypes'
  BY <1>15 DEF PageTypes, ClientTypes, SoundTypes, RelayTypes, RelaySeesClose, AfterGone, Set
<1>18. ASSUME NEW k \in Attempts, MicCloses(k) PROVE StudioTypes'
  BY <1>18, AttemptsAre DEF PageTypes, ClientTypes, SoundTypes, RelayTypes, MicCloses, Set
<1>16. CASE UNCHANGED vars
  BY <1>16 DEF PageTypes, ClientTypes, SoundTypes, RelayTypes
<1>17. QED
  BY <1>1, <1>2, <1>3, <1>4, <1>5, <1>6, <1>7, <1>8, <1>9, <1>10, <1>11, <1>12, <1>13, <1>14,
     <1>15, <1>16, <1>18 DEF Next

\* Every variable of the page, the sockets and the relay has its type.
THEOREM StudioTypesHold == Spec => []StudioTypes
  BY TypesInit, TypesNext, PTL DEF Spec

-----------------------------------------------------------------------------
(* What the actor hears                                                    *)

InARow(q) == \A i \in 1..Len(q) - 1 : q[i + 1] = q[i] + 1

\* Hello comes first, bye last, and the frames between them in a row.
Ordered(u) ==
  \A i \in 1..Len(u) - 1 :
    /\ u[i].t # "bye" /\ u[i + 1].t # "hello"
    /\ u[i].t = "audio" /\ u[i + 1].t = "audio" => u[i + 1].n = u[i].n + 1

LastOf(q) == q[Len(q)]

\* What is heard with w frames counted in the current second: in order, with a gap only
\* after FrameLimit in a row; and the last of it in a row, as far as the second goes.
Gapless(h, i) == h[i + 1] = h[i] + 1

Heeded(h, w) ==
  /\ \A i \in 1..Len(h) - 1 :
       /\ h[i] < h[i + 1]
       /\ ~Gapless(h, i) =>
            i >= FrameLimit /\ \A j \in (i - FrameLimit + 1)..(i - 1) : Gapless(h, j)
  /\ \A j \in 1..Len(h) - 1 : Len(h) - j < w /\ Len(h) - j < FrameLimit => Gapless(h, j)
  /\ w <= Len(h) \/ FrameLimit <= Len(h)
  /\ h # <<>> => w >= 1

\* The last frame read, n, is the last one heard unless the second is over its limit.
Follows(n, last, w) == n >= last /\ (w <= FrameLimit => n = last)

\* One attempt: its client c, socket s, frames n given, b buffered, u under way, h heard,
\* w counted, and the relay's end r.  What is sent next follows what was sent last, what is
\* under way what was heard last, or dropped over the limit; and as long as the relay
\* waits for hello, hello is what it reads.
Sound(c, s, n, b, u, r, w, h) ==
  /\ InARow(b) /\ Heeded(h, w) /\ Ordered(u)
  /\ c \in {"idle", "connecting"} /\ b # <<>> => LastOf(b) = n
  /\ c = "live" /\ u # <<>> /\ LastOf(u).t = "audio" => LastOf(u).n = n
  /\ u # <<>> /\ LastOf(u).t = "bye" => c = "closed" /\ s \in {"closing", "closed"}
  /\ r \in {"none", "greeting", "verifying"} => h = <<>>
  /\ r = "greeting" => IF u = <<>> THEN s = "closed" /\ c = "closed" ELSE u[1].t = "hello"
  /\ r \in {"verifying", "running"} /\ u # <<>> => u[1].t # "hello"
  /\ r = "running" /\ h # <<>> =>
       IF u = <<>> THEN c = "live" => Follows(n, LastOf(h), w)
       ELSE u[1].t = "audio" => Follows(u[1].n - 1, LastOf(h), w)
  /\ r # "refused"

\* A socket is opened once, by its own attempt.
OpensOnce(k) ==
  /\ k > starts => phase[k] = "over" /\ sock[k] = "none"
  /\ phase[k] = "fetch" => sock[k] = "none"
  /\ phase[k] = "mic" => sock[k] # "none"
  /\ sock[k] = "none" <=> client[k] = "idle"
  /\ sock[k] = "connecting" <=> client[k] = "connecting"
  /\ sock[k] = "open" <=> client[k] = "live"
  /\ sock[k] \in {"none", "connecting"} => relay[k] = "none"
  /\ k = current => sock[k] # "none"

SoundInv ==
  \A k \in Attempts :
    /\ OpensOnce(k)
    /\ Sound(client[k], sock[k], frames[k], buffered[k], up[k], relay[k], inWindow[k], heard[k])

\* The next frame keeps a row.
LEMMA RowGrows ==
  ASSUME NEW q \in Sounds, NEW n \in Nat, InARow(q), q # <<>> => n = LastOf(q) + 1
  PROVE  InARow(Append(q, n)) /\ LastOf(Append(q, n)) = n
  BY DEF Sounds, InARow, LastOf

\* So does the loss of its first.
LEMMA RowShrinks ==
  ASSUME NEW q \in Sounds, InARow(q), q # <<>>
  PROVE  /\ InARow(Tail(q))
         /\ Tail(q) # <<>> => LastOf(Tail(q)) = LastOf(q)
  BY DEF Sounds, InARow, LastOf

\* A message that may follow the last one keeps the order.
LEMMA OrderedGrows ==
  ASSUME NEW u \in Carried, NEW m \in Messages, Ordered(u), u # <<>> => m.t # "hello",
         u # <<>> => LastOf(u).t # "bye",
         u # <<>> /\ LastOf(u).t = "audio" /\ m.t = "audio" => m.n = LastOf(u).n + 1
  PROVE  /\ Ordered(Append(u, m)) /\ LastOf(Append(u, m)) = m /\ Append(u, m) # <<>>
         /\ Append(u, m)[1] = IF u = <<>> THEN m ELSE u[1]
<1> DEFINE v == Append(u, m)
<1>1. /\ v \in Seq(Messages) /\ Len(u) \in Nat /\ Len(v) = Len(u) + 1 /\ v[Len(u) + 1] = m
      /\ \A i \in 1..Len(u) : v[i] = u[i]
      /\ u = <<>> <=> Len(u) = 0
  BY DEF Carried
<1>2. v # <<>>
  BY DEF Carried
<1> HIDE DEF v
<1>3. LastOf(v) = m
  BY <1>1 DEF LastOf
<1>4. v[1] = IF u = <<>> THEN m ELSE u[1]
  BY <1>1
<1>5. Ordered(v)
  <2>1. SUFFICES ASSUME NEW i \in 1..Len(u)
                 PROVE  /\ v[i].t # "bye" /\ v[i + 1].t # "hello"
                        /\ v[i].t = "audio" /\ v[i + 1].t = "audio" => v[i + 1].n = v[i].n + 1
    BY <1>1 DEF Ordered
  <2>2. CASE i = Len(u)
    <3>1. v[i] = LastOf(u) /\ v[i + 1] = m /\ u # <<>>
      BY <1>1, <2>2 DEF LastOf
    <3>2. QED
      BY <3>1
  <2>3. CASE i # Len(u)
    <3>1. i \in 1..Len(u) - 1 /\ v[i] = u[i] /\ v[i + 1] = u[i + 1]
      BY <1>1, <2>3
    <3>2. QED
      BY <3>1 DEF Ordered
  <2>4. QED
    BY <2>2, <2>3
<1>6. QED
  BY <1>2, <1>3, <1>4, <1>5 DEF v

\* So does the reading of the first.
LEMMA OrderedShrinks ==
  ASSUME NEW u \in Carried, Ordered(u), u # <<>>
  PROVE  /\ Head(u) = u[1] /\ Ordered(Tail(u))
         /\ Tail(u) = <<>> => LastOf(u) = u[1]
         /\ Tail(u) # <<>> =>
              /\ LastOf(Tail(u)) = LastOf(u)
              /\ u[1].t # "bye" /\ Tail(u)[1].t # "hello"
              /\ u[1].t = "audio" /\ Tail(u)[1].t = "audio" => Tail(u)[1].n = u[1].n + 1
<1>1. u \in Seq(Messages) /\ Head(u) = u[1] /\ Len(u) \in Nat /\ Len(u) > 0
  BY DEF Carried
<1>2. /\ Len(Tail(u)) = Len(u) - 1
      /\ \A i \in 1..Len(u) - 1 : Tail(u)[i] = u[i + 1]
      /\ Tail(u) = <<>> <=> Len(u) = 1
  <2>1. /\ Len(Tail(u)) = Len(u) - 1 /\ Tail(u) \in Seq(Messages)
        /\ \A i \in 1..Len(u) - 1 : Tail(u)[i] = u[i + 1]
    BY <1>1
  <2>2. \A q \in Seq(Messages) : q = <<>> <=> Len(q) = 0
    OBVIOUS
  <2>3. QED
    BY <1>1, <2>1, <2>2
<1>3. Ordered(Tail(u))
  <2>1. SUFFICES ASSUME NEW i \in 1..Len(Tail(u)) - 1
                 PROVE  /\ Tail(u)[i].t # "bye" /\ Tail(u)[i + 1].t # "hello"
                        /\ Tail(u)[i].t = "audio" /\ Tail(u)[i + 1].t = "audio"
                             => Tail(u)[i + 1].n = Tail(u)[i].n + 1
    BY DEF Ordered
  <2>2. i + 1 \in 1..Len(u) - 1 /\ Tail(u)[i] = u[i + 1] /\ Tail(u)[i + 1] = u[i + 1 + 1]
    BY <1>1, <1>2
  <2>3. QED
    BY <2>2 DEF Ordered
<1>4. ASSUME Tail(u) # <<>>
      PROVE  /\ LastOf(Tail(u)) = LastOf(u)
             /\ u[1].t # "bye" /\ Tail(u)[1].t # "hello"
             /\ u[1].t = "audio" /\ Tail(u)[1].t = "audio" => Tail(u)[1].n = u[1].n + 1
  <2>1. 1 \in 1..Len(u) - 1 /\ Tail(u)[1] = u[1 + 1]
    BY <1>1, <1>2, <1>4
  <2>2. Tail(u)[Len(Tail(u))] = u[Len(u)]
    BY <1>1, <1>2, <1>4
  <2>3. QED
    BY <2>1, <2>2 DEF Ordered, LastOf
<1>5. QED
  BY <1>1, <1>2, <1>3, <1>4 DEF LastOf

\* Hello, and then what was buffered in a row.
LEMMA OpeningOrdered ==
  ASSUME NEW k, buffered[k] \in Sounds, InARow(buffered[k])
  PROVE  /\ Ordered(Opening(k)) /\ Opening(k) # <<>> /\ Opening(k)[1].t = "hello"
         /\ LastOf(Opening(k)).t # "bye"
         /\ LastOf(Opening(k)).t = "audio" =>
              buffered[k] # <<>> /\ LastOf(Opening(k)).n = LastOf(buffered[k])
<1> DEFINE b == buffered[k]
           o == Opening(k)
<1>1. /\ o \in Carried /\ Len(o) = Len(b) + 1 /\ o[1] = Hello
      /\ \A i \in 1..Len(b) : o[i + 1] = Audio(b[i])
  BY OpeningIs
<1>2. Len(b) \in Nat /\ (b = <<>> <=> Len(b) = 0)
  BY DEF Sounds
<1> HIDE DEF o
<1>3. Ordered(o)
  <2>1. SUFFICES ASSUME NEW i \in 1..Len(b)
                 PROVE  /\ o[i].t # "bye" /\ o[i + 1].t # "hello"
                        /\ o[i].t = "audio" /\ o[i + 1].t = "audio" => o[i + 1].n = o[i].n + 1
    BY <1>1, <1>2 DEF Ordered
  <2>2. o[i + 1] = Audio(b[i])
    BY <1>1
  <2>3. CASE i = 1
    BY <1>1, <2>2, <2>3 DEF Audio, Hello
  <2>4. CASE i # 1
    <3> DEFINE before == i - 1
    <3>1. before \in 1..Len(b) - 1 /\ before \in 1..Len(b) /\ before + 1 = i
      BY <1>2, <2>4
    <3> HIDE DEF before
    <3>2. o[i] = Audio(b[before]) /\ b[i] = b[before] + 1
      BY <1>1, <3>1 DEF InARow
    <3>3. QED
      BY <2>2, <3>2 DEF Audio
  <2>5. QED
    BY <2>3, <2>4
<1>4. LastOf(o) = IF b = <<>> THEN Hello ELSE Audio(LastOf(b))
  <2>1. CASE b = <<>>
    BY <1>1, <1>2, <2>1 DEF LastOf
  <2>2. CASE b # <<>>
    <3>1. Len(b) \in 1..Len(b) /\ Len(o) = Len(b) + 1
      BY <1>1, <1>2, <2>2
    <3>2. QED
      BY <1>1, <2>2, <3>1 DEF LastOf
  <2>3. QED
    BY <2>1, <2>2
<1>5. o # <<>>
  BY <1>1, <1>2
<1>6. QED
  BY <1>1, <1>3, <1>4, <1>5 DEF o, Hello, Audio

\* A frame of the microphone is buffered, and the oldest is given up for it at the limit.
LEMMA FrameBuffered ==
  ASSUME NEW c, NEW s, NEW n \in Nat, NEW b \in Sounds, NEW u, NEW r, NEW w, NEW h,
         Sound(c, s, n, b, u, r, w, h), c \in {"idle", "connecting"}, NEW q,
         LET all == Append(b, n + 1) IN q = IF Len(all) > MaxBuffered THEN Tail(all) ELSE all
  PROVE  Sound(c, s, n + 1, q, u, r, w, h)
<1> DEFINE m == n + 1
           all == Append(b, m)
<1>1. InARow(all) /\ LastOf(all) = m /\ all # <<>> /\ all \in Sounds
  <2>1. m \in Nat /\ InARow(b) /\ (b # <<>> => m = LastOf(b) + 1)
    BY DEF Sound
  <2> HIDE DEF m
  <2>2. QED
    BY <2>1, RowGrows, Sequences
<1> HIDE DEF all
<1>2. InARow(q) /\ (q # <<>> => LastOf(q) = m)
  BY <1>1, RowShrinks DEF all
<1>3. QED
  BY <1>2 DEF Sound

\* A frame is sent.
LEMMA FrameSent ==
  ASSUME NEW s, NEW n \in Nat, NEW b, NEW u \in Carried, NEW r, NEW w \in Nat, NEW h \in Sounds,
         Sound("live", s, n, b, u, r, w, h)
  PROVE  Sound("live", s, n + 1, b, Append(u, Audio(n + 1)), r, w, h)
<1> DEFINE m == Audio(n + 1)
           v == Append(u, m)
<1>1. m \in Messages /\ m.t = "audio" /\ m.n = n + 1
  BY DEF Messages, Audio
<1> HIDE DEF m
<1>2. /\ Ordered(v) /\ LastOf(v) = m /\ v # <<>>
      /\ v[1] = IF u = <<>> THEN m ELSE u[1]
  BY <1>1, OrderedGrows DEF Sound
<1> HIDE DEF v
<1>3. QED
  BY <1>1, <1>2 DEF Sound, m, v

\* Bye is sent, and the socket closed.
LEMMA ByeSent ==
  ASSUME NEW c, NEW n, NEW b, NEW u \in Carried, NEW r, NEW w, NEW h,
         Sound(c, "open", n, b, u, r, w, h)
  PROVE  Sound("closed", "closing", n, b, Append(u, Bye), r, w, h)
<1> DEFINE v == Append(u, Bye)
<1>1. Bye \in Messages /\ Bye.t = "bye"
  BY DEF Messages, Bye
<1>2. /\ Ordered(v) /\ LastOf(v) = Bye /\ v # <<>>
      /\ v[1] = IF u = <<>> THEN Bye ELSE u[1]
  BY <1>1, OrderedGrows DEF Sound
<1> HIDE DEF v
<1>3. QED
  BY <1>1, <1>2 DEF Sound, v

\* The client is closed, with the socket as it is or closing.
LEMMA SoundOfClosing ==
  ASSUME NEW c, NEW s, NEW n, NEW b, NEW u, NEW r, NEW w, NEW h, Sound(c, s, n, b, u, r, w, h),
         NEW z, z = s \/ (s \in {"connecting", "open"} /\ z = "closing")
  PROVE  Sound("closed", z, n, b, u, r, w, h)
  BY DEF Sound

\* The socket is lost with what it carries, or closed by the relay.
LEMMA SoundOfClosed ==
  ASSUME NEW c, NEW s, NEW n, NEW b, NEW u, NEW r, NEW w, NEW h, Sound(c, s, n, b, u, r, w, h),
         NEW v, v \in {u, <<>>}
  PROVE  Sound("closed", "closed", n, <<>>, v, r, w, h)
<1>1. InARow(<<>>) /\ Ordered(<<>>)
  BY DEF InARow, Ordered
<1>2. QED
  BY <1>1 DEF Sound

\* A frame that is read is heard, or is over the limit of its second.
LEMMA HeededGrows ==
  ASSUME NEW h \in Sounds, NEW w \in Nat, NEW n \in Nat, Heeded(h, w),
         h # <<>> => Follows(n - 1, LastOf(h), w), NEW z \in {1, w + 1}
  PROVE  /\ z <= FrameLimit => Heeded(Append(h, n), z) /\ LastOf(Append(h, n)) = n
         /\ z > FrameLimit => Heeded(h, z) /\ h # <<>>
<1> DEFINE g == Append(h, n)
           L == Len(h)
<1>1. /\ g \in Seq(Nat) /\ L \in Nat /\ Len(g) = L + 1 /\ g[L + 1] = n /\ g # <<>>
      /\ \A i \in 1..L : g[i] = h[i] /\ h[i] \in Nat
      /\ h = <<>> <=> L = 0
  <2>1. h \in Seq(Nat)
    BY DEF Sounds
  <2>2. g \in Seq(Nat) /\ L \in Nat /\ Len(g) = L + 1 /\ g[L + 1] = n
        /\ (h = <<>> <=> L = 0)
    BY <2>1
  <2>3. \A i \in 1..L : g[i] = h[i] /\ h[i] \in Nat
    BY <2>1
  <2>4. g # <<>>
    BY <2>1
  <2>5. QED
    BY <2>2, <2>3, <2>4
<1>2. L > 0 => LastOf(h) \in Nat /\ g[L] = LastOf(h)
  BY <1>1 DEF LastOf
<1>3. FrameLimit \in Nat /\ FrameLimit >= 1
  BY StudioAssumption
<1>4. \A i \in 1..L - 1 : Gapless(g, i) <=> Gapless(h, i)
  BY <1>1 DEF Gapless
<1> HIDE DEF g
<1>5. ASSUME z <= FrameLimit PROVE Heeded(g, z)
  <2>1. ASSUME NEW i \in 1..L
        PROVE  /\ g[i] < g[i + 1]
               /\ ~Gapless(g, i) =>
                    i >= FrameLimit /\ \A j \in (i - FrameLimit + 1)..(i - 1) : Gapless(g, j)
    <3>1. CASE i < L
      <4>1. i \in 1..L - 1 /\ g[i] = h[i] /\ g[i + 1] = h[i + 1]
        BY <1>1, <3>1
      <4>2. /\ h[i] < h[i + 1]
            /\ ~Gapless(h, i) =>
                 i >= FrameLimit /\ \A j \in (i - FrameLimit + 1)..(i - 1) : Gapless(h, j)
        BY <1>1, <4>1 DEF Heeded
      <4>3. ASSUME i >= FrameLimit, NEW j \in (i - FrameLimit + 1)..(i - 1)
            PROVE  j \in 1..L - 1
        BY <1>1, <1>3, <4>1, <4>3
      <4>4. QED
        BY <1>4, <4>1, <4>2, <4>3
    <3>2. CASE i = L
      <4>1. h # <<>> /\ LastOf(h) \in Nat /\ g[i] = LastOf(h) /\ g[i + 1] = n
        BY <1>1, <1>2, <3>2
      <4>2. n - 1 >= LastOf(h) /\ (w <= FrameLimit => n - 1 = LastOf(h))
        BY <4>1 DEF Follows
      <4>3. ASSUME ~Gapless(g, i)
            PROVE  i >= FrameLimit /\ \A j \in (i - FrameLimit + 1)..(i - 1) : Gapless(g, j)
        <5>1. w > FrameLimit
          BY <1>3, <4>1, <4>2, <4>3 DEF Gapless
        <5>2. L >= FrameLimit
          BY <1>1, <1>3, <5>1 DEF Heeded
        <5>3. ASSUME NEW j \in (i - FrameLimit + 1)..(i - 1) PROVE Gapless(g, j)
          <6>1. j \in 1..L - 1 /\ L - j < w /\ L - j < FrameLimit
            BY <1>1, <1>3, <3>2, <5>1, <5>2
          <6>2. QED
            BY <1>4, <6>1 DEF Heeded
        <5>4. QED
          BY <3>2, <5>2, <5>3
      <4>4. QED
        BY <4>1, <4>2, <4>3
    <3>3. QED
      BY <1>1, <3>1, <3>2
  <2>2. ASSUME NEW j \in 1..L, L + 1 - j < z, L + 1 - j < FrameLimit PROVE Gapless(g, j)
    <3>1. z = w + 1 /\ L - j < w /\ L - j < FrameLimit
      BY <1>1, <1>3, <2>2
    <3>2. CASE j < L
      <4>1. j \in 1..L - 1
        BY <1>1, <3>2
      <4>2. Gapless(h, j)
        BY <3>1, <4>1 DEF Heeded
      <4>3. QED
        BY <1>4, <4>1, <4>2
    <3>3. CASE j = L
      <4>1. h # <<>> /\ w <= FrameLimit /\ g[j] = LastOf(h) /\ g[j + 1] = n
        BY <1>1, <1>2, <1>3, <1>5, <3>1, <3>3
      <4>2. n - 1 = LastOf(h)
        BY <4>1 DEF Follows
      <4>3. QED
        BY <1>1, <1>2, <3>3, <4>1, <4>2 DEF Gapless
    <3>4. QED
      BY <1>1, <3>2, <3>3
  <2>3. z <= L + 1 \/ FrameLimit <= L + 1
    BY <1>1, <1>3 DEF Heeded
  <2>4. z >= 1
    OBVIOUS
  <2>5. L + 1 - 1 = L
    BY <1>1
  <2>6. QED
    BY <1>1, <2>1, <2>2, <2>3, <2>4, <2>5 DEF Heeded
<1>6. ASSUME z > FrameLimit PROVE Heeded(h, z) /\ h # <<>>
  <2>1. z = w + 1 /\ w >= FrameLimit
    BY <1>3, <1>6
  <2>2. FrameLimit <= L
    BY <1>1, <1>3, <2>1 DEF Heeded
  <2>3. \A j \in 1..L - 1 : L - j < FrameLimit => Gapless(h, j)
    BY <1>1, <1>3, <2>1 DEF Heeded
  <2>4. QED
    BY <1>1, <1>3, <2>1, <2>2, <2>3 DEF Heeded
<1>7. LastOf(g) = n
  BY <1>1 DEF LastOf
<1>8. QED
  BY <1>5, <1>6, <1>7 DEF g

\* One message is read.
LEMMA SoundRead ==
  ASSUME NEW c, NEW s, NEW n \in Nat, NEW b, NEW u \in Carried, NEW r, NEW w \in Nat,
         NEW h \in Sounds, Sound(c, s, n, b, u, r, w, h), u # <<>>, NEW z, NEW x, NEW g,
         \/ r = "greeting" /\ u[1].t = "hello" /\ z = "verifying" /\ x = w /\ g = h
         \/ r = "greeting" /\ u[1].t # "hello" /\ z = "refused" /\ x = w /\ g = h
         \/ /\ r = "running" /\ u[1].t = "audio" /\ z = r /\ x \in {1, w + 1}
            /\ g = IF x <= FrameLimit THEN Append(h, u[1].n) ELSE h
         \/ r = "running" /\ u[1].t = "bye" /\ z = "over" /\ x = w /\ g = h
         \/ /\ r \notin {"greeting", "running"} \/ (r = "running" /\ u[1].t = "hello")
            /\ z = r /\ x = w /\ g = h
  PROVE  Sound(c, s, n, b, Tail(u), z, x, g)
<1> DEFINE v == Tail(u)
<1>1. u[1] \in Messages /\ u[1].n \in Nat
  <2>1. u[1] \in Messages
    BY OrderedShrinks, Sequences DEF Sound
  <2>2. QED
    BY <2>1 DEF Messages
<1>2. /\ Ordered(v)
      /\ v = <<>> => LastOf(u) = u[1]
      /\ v # <<>> => /\ LastOf(v) = LastOf(u) /\ v[1].t # "hello"
                     /\ u[1].t = "audio" /\ v[1].t = "audio" => v[1].n = u[1].n + 1
  BY OrderedShrinks DEF Sound
<1>6. v # <<>> => v[1] \in Messages /\ v[1].n \in Nat
  <2>1. ASSUME v # <<>> PROVE v[1] \in Messages
    <3>1. v \in Carried
      BY Sequences
    <3> HIDE DEF v
    <3>2. QED
      BY <2>1, <3>1, Sequences, OrderedShrinks, <1>2
  <2>2. QED
    BY <2>1 DEF Messages
<1> HIDE DEF v
<1>3. CASE r = "running" /\ u[1].t = "audio"
  <2> DEFINE m == u[1].n
             last == LastOf(g)
  <2>1. z = r /\ x \in {1, w + 1} /\ g = IF x <= FrameLimit THEN Append(h, m) ELSE h
    BY <1>3
  <2>2. Heeded(h, w) /\ (h # <<>> => Follows(m - 1, LastOf(h), w))
    BY <1>3 DEF Sound
  <2>3. m \in Nat /\ x \in Nat /\ FrameLimit \in Nat
    BY <1>1, <2>1, StudioAssumption
  <2>8. h # <<>> => LastOf(h) \in Nat
    BY DEF Sounds, LastOf
  <2> HIDE DEF m
  <2>4. Heeded(g, x) /\ g # <<>> /\ last \in Nat /\ last <= m /\ (x <= FrameLimit => last = m)
    <3>1. CASE x <= FrameLimit
      <4>1. g = Append(h, m) /\ g # <<>>
        BY <2>1, <2>3, <3>1, Sequences
      <4>2. Heeded(Append(h, m), x) /\ LastOf(Append(h, m)) = m
        BY <2>1, <2>2, <2>3, <3>1, HeededGrows
      <4>3. QED
        BY <2>3, <4>1, <4>2
    <3>2. CASE x > FrameLimit
      <4>4. Heeded(h, x) /\ h # <<>>
        BY <2>1, <2>2, <2>3, <3>2, HeededGrows
      <4>5. g = h
        BY <2>1, <2>3, <3>2
      <4>1. Heeded(h, x) /\ h # <<>> /\ g = h
        BY <4>4, <4>5
      <4>2. m - 1 >= LastOf(h)
        BY <2>2, <4>1 DEF Follows
      <4>3. QED
        BY <2>3, <2>8, <3>2, <4>1, <4>2
    <3>3. QED
      BY <2>3, <3>1, <3>2
  <2> HIDE DEF last
  <2>5. Follows(m, last, x)
    BY <2>3, <2>4 DEF Follows
  <2>6. IF v = <<>> THEN c = "live" => Follows(n, last, x)
        ELSE v[1].t = "audio" => Follows(v[1].n - 1, last, x)
    <3>1. CASE v = <<>>
      <4>1. c = "live" => n = m
        BY <1>2, <1>3, <3>1 DEF Sound, m
      <4>2. QED
        BY <2>5, <3>1, <4>1
    <3>2. CASE v # <<>>
      <4>1. v[1].t = "audio" => v[1].n = m + 1 /\ v[1].n - 1 = m
        BY <1>2, <1>3, <2>3, <3>2 DEF m
      <4>2. QED
        BY <2>5, <3>2, <4>1
    <3>3. QED
      BY <3>1, <3>2
  <2>7. QED
    BY <1>2, <1>3, <2>1, <2>4, <2>6 DEF Sound, v, last
<1>4. CASE ~(r = "running" /\ u[1].t = "audio")
  <2>1. g = h /\ x = w /\ (z = r \/ z \in {"verifying", "refused", "over"})
    BY <1>4
  <2>2. CASE r = "greeting"
    <3>1. u[1].t = "hello" /\ z = "verifying"
      BY <1>4, <2>2 DEF Sound
    <3>2. QED
      BY <1>2, <2>1, <2>2, <3>1 DEF Sound, v
  <2>3. CASE r # "greeting" /\ z = r
    <3>1. r = "running" => u[1].t # "hello"
      BY DEF Sound
    <3>2. r # "running"
      BY <1>4, <2>3, <3>1
    <3>3. QED
      BY <1>2, <2>1, <2>3, <3>2 DEF Sound, v
  <2>4. CASE r # "greeting" /\ z # r
    <3>1. z = "over"
      BY <1>4, <2>4
    <3>2. QED
      BY <1>2, <2>1, <3>1 DEF Sound, v
  <2>5. QED
    BY <2>2, <2>3, <2>4
<1>5. QED
  BY <1>3, <1>4

\* The relay's end goes on without reading.
LEMMA SoundAlong ==
  ASSUME NEW c, NEW s, NEW n, NEW b, NEW u, NEW r, NEW w, NEW h, Sound(c, s, n, b, u, r, w, h), NEW z,
         \/ r = "verifying" /\ z = "running"
         \/ z \in {"left", "alone", "over"}
  PROVE  Sound(c, s, n, b, u, z, w, h)
  BY DEF Sound

\* Nothing is under way, and no socket is there.
LEMMA SoundInit == Init => SoundInv
<1> SUFFICES ASSUME Init, NEW k \in Attempts
             PROVE  /\ OpensOnce(k)
                    /\ Sound(client[k], sock[k], frames[k], buffered[k], up[k], relay[k], inWindow[k], heard[k])
  BY DEF SoundInv
<1>1. OpensOnce(k)
  BY AttemptsAre DEF Init, OpensOnce
<1>2. /\ client[k] = "idle" /\ sock[k] = "none" /\ frames[k] = 0 /\ buffered[k] = <<>>
      /\ up[k] = <<>> /\ relay[k] = "none" /\ inWindow[k] = 0 /\ heard[k] = <<>>
  BY DEF Init
<1>3. InARow(<<>>) /\ Ordered(<<>>) /\ Heeded(<<>>, 0)
  BY DEF InARow, Ordered, Heeded
<1>4. Sound("idle", "none", 0, <<>>, <<>>, "none", 0, <<>>)
  BY <1>3 DEF Sound
<1>5. QED
  BY <1>1, <1>2, <1>4

\* An attempt that no step of the page or of another has touched.
LEMMA SoundKept ==
  ASSUME SoundInv, NEW k \in Attempts, StudioTypes,
         /\ client'[k] = client[k] /\ sock'[k] = sock[k] /\ frames'[k] = frames[k]
         /\ buffered'[k] = buffered[k] /\ up'[k] = up[k] /\ relay'[k] = relay[k]
         /\ inWindow'[k] = inWindow[k] /\ heard'[k] = heard[k]
  PROVE  Sound(client[k], sock[k], frames[k], buffered[k], up[k], relay[k], inWindow[k], heard[k])'
  BY DEF SoundInv

\* The page closes its client, having sent bye or not.
LEMMA SoundCloses ==
  ASSUME SoundInv, StudioTypes, NEW k \in Attempts, CloseClient,
         UNCHANGED <<frames, buffered, relay, inWindow, heard>>,
         \/ up' = up
         \/ current # 0 /\ sock[current] = "open" /\ up' = Append1(up, current, Bye)
  PROVE  Sound(client[k], sock[k], frames[k], buffered[k], up[k], relay[k], inWindow[k], heard[k])'
<1>1. client[k] \in {"idle", "connecting", "live", "closed"} /\ up[k] \in Carried
      /\ Sound(client[k], sock[k], frames[k], buffered[k], up[k], relay[k], inWindow[k], heard[k])
  BY DEF SoundInv, StudioTypes, ClientTypes, SoundTypes
<1>2. CASE current # k
  <2>1. client'[k] = client[k] /\ sock'[k] = sock[k] /\ up'[k] = up[k]
    BY <1>2 DEF CloseClient, Set, Append1, StudioTypes, ClientTypes, SoundTypes
  <2>2. QED
    BY <2>1, SoundKept
<1>3. CASE current = k
  <2>1. current # 0
    BY <1>3, AttemptsAre
  <2>2. /\ client'[k] = "closed"
        /\ sock'[k] = IF sock[k] \in {"connecting", "open"} THEN "closing" ELSE sock[k]
    BY <1>3, <2>1 DEF CloseClient, Set, StudioTypes, ClientTypes
  <2>3. CASE up' = up
    <3>1. Sound("closed", sock'[k], frames[k], buffered[k], up[k], relay[k], inWindow[k], heard[k])
      BY <1>1, <2>2, SoundOfClosing
    <3>2. QED
      BY <2>2, <2>3, <3>1
  <2>4. CASE sock[current] = "open" /\ up' = Append1(up, current, Bye)
    <3>1. up'[k] = Append(up[k], Bye) /\ sock[k] = "open" /\ sock'[k] = "closing"
      BY <1>3, <2>2, <2>4 DEF Append1, StudioTypes, SoundTypes
    <3>2. Sound("closed", "closing", frames[k], buffered[k], Append(up[k], Bye), relay[k], inWindow[k], heard[k])
      BY <1>1, <3>1, ByeSent
    <3>3. QED
      BY <2>2, <3>1, <3>2
  <2>5. QED
    BY <2>3, <2>4
<1>4. QED
  BY <1>2, <1>3

\* Every step keeps an attempt's socket, client and place to each other.
LEMMA OpensOnceNext == StudioTypes /\ SoundInv /\ [Next]_vars => \A k \in Attempts : OpensOnce(k)'
<1> SUFFICES ASSUME StudioTypes, SoundInv, [Next]_vars, NEW j \in Attempts PROVE OpensOnce(j)'
  OBVIOUS
<1> USE DEF vars, ui, browser, wire, server, history
<1>0. OpensOnce(j) /\ ClientTypes /\ PageTypes /\ RelayTypes
  BY DEF SoundInv, StudioTypes
<1>1. CASE Start
  <2>1. /\ starts' = starts + 1 /\ phase' = Set(phase, starts + 1, "fetch")
        /\ UNCHANGED <<sock, client, relay, current>>
    BY <1>1 DEF Start
  <2>2. starts \in Nat /\ starts + 1 \in Nat /\ j \in Nat
    <3>1. starts \in 0..MaxStarts
      BY <1>0 DEF PageTypes
    <3>2. QED
      BY <3>1, StudioAssumption DEF Attempts
  <2>3. phase'[j] = IF j = starts + 1 THEN "fetch" ELSE phase[j]
    BY <1>0, <2>1 DEF ClientTypes, Set
  <2>4. QED
    BY <1>0, <2>1, <2>2, <2>3 DEF OpensOnce
<1>2. ASSUME CloseClient, current' \in {0, current}, starts' = starts, relay' = relay,
             phase' = phase \/ \E k \in Attempts : phase[k] = "mic" /\ phase' = Set(phase, k, "over")
      PROVE  OpensOnce(j)'
  <2>1. phase'[j] = phase[j] \/ (phase[j] = "mic" /\ phase'[j] = "over")
    BY <1>0, <1>2 DEF ClientTypes, Set
  <2>2. \/ client'[j] = client[j] /\ sock'[j] = sock[j]
        \/ /\ client'[j] = "closed" /\ sock[j] \in {"connecting", "open"} /\ sock'[j] = "closing"
        \/ client'[j] = "closed" /\ sock[j] \notin {"connecting", "open"} /\ sock'[j] = sock[j]
    <3>1. CASE current \in {0} \/ current # j
      BY <1>0, <1>2, <3>1, AttemptsAre DEF ClientTypes, CloseClient, Set
    <3>2. CASE current # 0 /\ current = j
      BY <1>0, <1>2, <3>2 DEF ClientTypes, CloseClient, Set
    <3>3. QED
      BY <3>1, <3>2
  <2>3. j = current' => j = current
    BY <1>2, AttemptsAre
  <2>4. client'[j] # client[j] => j = current
    BY <1>0, <1>2 DEF ClientTypes, CloseClient, Set
  <2>5. QED
    BY <1>0, <1>2, <2>1, <2>2, <2>3, <2>4 DEF OpensOnce
<1>3. CASE Stop
  BY <1>2, <1>3 DEF Stop, Teardown
<1>4. CASE Leave
  BY <1>2, <1>4 DEF Leave
<1>5. ASSUME NEW k \in Attempts, NotStarted(k) PROVE OpensOnce(j)'
  BY <1>0, <1>5 DEF OpensOnce, ClientTypes, NotStarted, Set
<1>6. ASSUME NEW k \in Attempts, Connect(k) PROVE OpensOnce(j)'
  <2>1. OpensOnce(k)
    BY DEF SoundInv
  <2>2. QED
    BY <1>0, <1>6, <2>1 DEF OpensOnce, ClientTypes, Connect, Set
<1>7. ASSUME NEW k \in Attempts, MicOpens(k) PROVE OpensOnce(j)'
  BY <1>0, <1>7 DEF OpensOnce, ClientTypes, MicOpens, Set
<1>8. ASSUME NEW k \in Attempts, MicFails(k) PROVE OpensOnce(j)'
  BY <1>2, <1>8 DEF MicFails, Teardown
<1>9. ASSUME NEW k \in Attempts, Frame(k) PROVE OpensOnce(j)'
  BY <1>0, <1>9 DEF OpensOnce, Frame
<1>10. ASSUME NEW k \in Attempts, SocketOpens(k) PROVE OpensOnce(j)'
  <2>1. CASE j = k
    BY <1>0, <1>10, <2>1 DEF OpensOnce, ClientTypes, RelayTypes, SocketOpens, Set
  <2>2. CASE j # k
    BY <1>0, <1>10, <2>2 DEF OpensOnce, ClientTypes, RelayTypes, SocketOpens, Set
  <2>3. QED
    BY <2>1, <2>2
<1>11. ASSUME NEW k \in Attempts, SocketCloses(k) PROVE OpensOnce(j)'
  BY <1>0, <1>11 DEF OpensOnce, ClientTypes, RelayTypes, SocketCloses, Set
<1>12. ASSUME NEW k \in Attempts, Ended(k) PROVE OpensOnce(j)'
  BY <1>2, <1>12 DEF Ended, Teardown
<1>13. ASSUME NEW k \in Attempts, relay[k] # "none", starts' = starts, UNCHANGED <<browser, ui>>,
             relay' = relay \/ \E z : relay' = Set(relay, k, z)
       PROVE  OpensOnce(j)'
  BY <1>0, <1>13 DEF OpensOnce, RelayTypes, Set
<1>14. ASSUME NEW k \in Attempts, Deliver(k) PROVE OpensOnce(j)'
  <2>1. CASE relay' = relay
    BY <1>0, <1>14, <2>1 DEF OpensOnce, Deliver
  <2>2. CASE relay' # relay
    BY <1>13, <1>14, <2>2 DEF Deliver, EndFromRelay
  <2>3. QED
    BY <2>1, <2>2
<1>15. ASSUME NEW k \in Attempts, Handshake(k) PROVE OpensOnce(j)'
  BY <1>13, <1>15 DEF Handshake, CloseFromRelay
<1>16. ASSUME NEW k \in Attempts, ActorEnds(k) PROVE OpensOnce(j)'
  BY <1>13, <1>16 DEF ActorEnds, EndFromRelay
<1>17. ASSUME NEW k \in Attempts, RelaySeesClose(k) PROVE OpensOnce(j)'
  BY <1>13, <1>17 DEF RelaySeesClose
<1>18. CASE UNCHANGED vars
  BY <1>0, <1>18 DEF OpensOnce
<1>20. ASSUME NEW k \in Attempts, MicCloses(k) PROVE OpensOnce(j)'
  BY <1>0, <1>20 DEF OpensOnce, MicCloses
<1>19. QED
  BY <1>20, <1>1, <1>3, <1>4, <1>5, <1>6, <1>7, <1>8, <1>9, <1>10, <1>11, <1>12, <1>14, <1>15, <1>16,
     <1>17, <1>18 DEF Next

\* Every step keeps the frames of every attempt in a row.
LEMMA SoundNext == StudioTypes /\ SoundInv /\ [Next]_vars => SoundInv'
<1> SUFFICES ASSUME StudioTypes, SoundInv, [Next]_vars, NEW j \in Attempts
             PROVE  Sound(client[j], sock[j], frames[j], buffered[j], up[j], relay[j], inWindow[j], heard[j])'
  BY OpensOnceNext DEF SoundInv
<1> USE DEF vars, ui, browser, wire, server, history
<1> DEFINE IsSound(k) == Sound(client[k], sock[k], frames[k], buffered[k], up[k], relay[k], inWindow[k], heard[k])
<1>0. /\ \A k \in Attempts : OpensOnce(k) /\ IsSound(k)
      /\ \A k \in Attempts : /\ client[k] \in {"idle", "connecting", "live", "closed"}
                             /\ frames[k] \in Nat /\ buffered[k] \in Sounds
                             /\ up[k] \in Carried
                             /\ inWindow[k] \in Nat /\ heard[k] \in Sounds
      /\ ClientTypes /\ SoundTypes /\ RelayTypes
  BY DEF SoundInv, StudioTypes, ClientTypes, SoundTypes
<1> HIDE DEF IsSound
<1>1. CASE Start
  BY <1>1, SoundKept DEF Start, IsSound
<1>2. CASE Stop
  BY <1>2, SoundCloses DEF Stop, Teardown
<1>3. CASE Leave
  BY <1>3, SoundCloses DEF Leave
<1>4. ASSUME NEW k \in Attempts, NotStarted(k) PROVE IsSound(j)'
  BY <1>4, SoundKept DEF NotStarted, IsSound
<1>5. ASSUME NEW k \in Attempts, Connect(k) PROVE IsSound(j)'
  <2>1. CASE j # k
    <3>1. client'[j] = client[j] /\ sock'[j] = sock[j]
      BY <1>0, <1>5, <2>1 DEF Connect, Set, ClientTypes
    <3>2. QED
      BY <1>5, <3>1, SoundKept DEF Connect, IsSound
  <2>2. CASE j = k
    <3>1. client'[j] = "connecting" /\ sock'[j] = "connecting" /\ client[j] = "idle" /\ sock[j] = "none"
      BY <1>0, <1>5, <2>2 DEF Connect, Set, ClientTypes, OpensOnce
    <3>2. Sound("idle", "none", frames[j], buffered[j], up[j], relay[j], inWindow[j], heard[j])
      BY <1>0, <3>1 DEF IsSound
    <3>3. Sound("connecting", "connecting", frames[j], buffered[j], up[j], relay[j], inWindow[j], heard[j])
      BY <3>2 DEF Sound
    <3>4. QED
      BY <1>5, <3>1, <3>3 DEF Connect, IsSound
  <2>3. QED
    BY <2>1, <2>2
<1>6. ASSUME NEW k \in Attempts, MicOpens(k) PROVE IsSound(j)'
  BY <1>6, SoundKept DEF MicOpens, IsSound
<1>7. ASSUME NEW k \in Attempts, MicFails(k) PROVE IsSound(j)'
  BY <1>7, SoundCloses DEF MicFails, Teardown, IsSound
<1>8. ASSUME NEW k \in Attempts, Frame(k) PROVE IsSound(j)'
  <2>1. CASE j # k
    <3>1. frames'[j] = frames[j] /\ buffered'[j] = buffered[j] /\ up'[j] = up[j]
      BY <1>0, <1>8, <2>1 DEF Frame, Set, Append1, SoundTypes
    <3>2. QED
      BY <1>8, <3>1, SoundKept DEF Frame, IsSound
  <2>2. CASE j = k
    <3>1. frames'[j] = frames[j] + 1 /\ client'[j] = client[j] /\ sock'[j] = sock[j]
          /\ relay'[j] = relay[j] /\ inWindow'[j] = inWindow[j] /\ heard'[j] = heard[j]
      BY <1>0, <1>8, <2>2 DEF Frame, Set, SoundTypes
    <3>2. CASE client[j] = "closed" /\ UNCHANGED <<buffered, up>>
      <4>1. Sound("closed", sock[j], frames[j], buffered[j], up[j], relay[j], inWindow[j], heard[j])
        BY <1>0, <3>2 DEF IsSound
      <4>2. Sound("closed", sock[j], frames[j] + 1, buffered[j], up[j], relay[j], inWindow[j], heard[j])
        BY <4>1 DEF Sound
      <4>3. QED
        BY <3>1, <3>2, <4>2 DEF IsSound
    <3>3. CASE client[j] = "live" /\ up' = Append1(up, k, Audio(frames[k] + 1)) /\ UNCHANGED buffered
      <4>1. up'[j] = Append(up[j], Audio(frames[j] + 1))
        BY <1>0, <2>2, <3>3 DEF Append1, SoundTypes
      <4>2. Sound("live", sock[j], frames[j] + 1, buffered[j], Append(up[j], Audio(frames[j] + 1)),
                  relay[j], inWindow[j], heard[j])
        BY <1>0, <3>3, FrameSent DEF IsSound
      <4>3. QED
        BY <3>1, <3>3, <4>1, <4>2 DEF IsSound
    <3>4. CASE client[j] \in {"idle", "connecting"} /\ UNCHANGED up
               /\ buffered' = Set(buffered, k, Buffered(k, frames[k] + 1))
      <4> DEFINE q == Buffered(j, frames[j] + 1)
      <4>1. buffered'[j] = q
        BY <1>0, <2>2, <3>4 DEF Set, SoundTypes
      <4>2. LET all == Append(buffered[j], frames[j] + 1)
            IN  q = IF Len(all) > MaxBuffered THEN Tail(all) ELSE all
        BY DEF Buffered
      <4> HIDE DEF q
      <4>3. Sound(client[j], sock[j], frames[j] + 1, q, up[j], relay[j], inWindow[j], heard[j])
        BY <1>0, <3>4, <4>2, FrameBuffered DEF IsSound
      <4>4. QED
        BY <3>1, <3>4, <4>1, <4>3 DEF IsSound
    <3>5. QED
      BY <1>0, <1>8, <2>2, <3>2, <3>3, <3>4 DEF Frame
  <2>3. QED
    BY <2>1, <2>2
<1>9. ASSUME NEW k \in Attempts, SocketOpens(k) PROVE IsSound(j)'
  <2>1. CASE j # k
    <3>1. client'[j] = client[j] /\ sock'[j] = sock[j] /\ relay'[j] = relay[j]
      BY <1>0, <1>9, <2>1 DEF SocketOpens, Set, ClientTypes, RelayTypes
    <3>2. up'[j] = up[j] /\ buffered'[j] = buffered[j]
      BY <1>0, <1>9, <2>1 DEF SocketOpens, Set, SoundTypes
    <3>3. QED
      BY <1>9, <3>1, <3>2, SoundKept DEF SocketOpens, IsSound
  <2>2. CASE j = k
    <3>1. client[j] = "connecting" /\ sock[j] = "connecting" /\ relay[j] = "none"
      BY <1>0, <1>9, <2>2 DEF SocketOpens, OpensOnce
    <3>2. /\ client'[j] = "live" /\ sock'[j] = "open" /\ relay'[j] \in {"greeting", "over"}
          /\ up'[j] = Opening(j) /\ buffered'[j] = <<>>
          /\ frames'[j] = frames[j] /\ inWindow'[j] = inWindow[j] /\ heard'[j] = heard[j]
      <4>1. client'[j] = "live" /\ sock'[j] = "open"
        BY <1>0, <1>9, <2>2 DEF SocketOpens, Set, ClientTypes
      <4>2. relay'[j] \in {"greeting", "over"}
        BY <1>0, <1>9, <2>2 DEF SocketOpens, Set, RelayTypes
      <4>3. up' = Set(up, j, Opening(j)) /\ buffered' = Set(buffered, j, <<>>)
            /\ frames' = frames /\ inWindow' = inWindow /\ heard' = heard
        BY <1>9, <2>2 DEF SocketOpens
      <4>4. up'[j] = Opening(j) /\ buffered'[j] = <<>>
        BY <1>0, <4>3 DEF Set, SoundTypes
      <4>5. QED
        BY <4>1, <4>2, <4>3, <4>4
    <3>3. Sound("connecting", "connecting", frames[j], buffered[j], up[j], "none", inWindow[j], heard[j])
      BY <1>0, <3>1 DEF IsSound
    <3>4. InARow(buffered[j]) /\ buffered[j] \in Sounds /\ heard[j] = <<>>
          /\ (buffered[j] # <<>> => LastOf(buffered[j]) = frames[j])
      BY <1>0, <3>3 DEF Sound
    <3>5. /\ Ordered(Opening(j)) /\ Opening(j) # <<>> /\ Opening(j)[1].t = "hello"
          /\ LastOf(Opening(j)).t # "bye"
          /\ LastOf(Opening(j)).t = "audio" => LastOf(Opening(j)).n = frames[j]
      BY <3>4, OpeningOrdered
    <3>6. InARow(<<>>) /\ Heeded(<<>>, inWindow[j])
      BY <3>3, <3>4 DEF InARow, Sound
    <3>7. \A r \in {"greeting", "over"} :
            Sound("live", "open", frames[j], <<>>, Opening(j), r, inWindow[j], <<>>)
      BY <3>5, <3>6 DEF Sound
    <3>8. QED
      BY <3>2, <3>4, <3>7 DEF IsSound
  <2>3. QED
    BY <2>1, <2>2
<1>10. ASSUME NEW k \in Attempts, SocketCloses(k) PROVE IsSound(j)'
  <2>1. CASE j # k
    <3>1. /\ client'[j] = client[j] /\ sock'[j] = sock[j]
          /\ up'[j] = up[j] /\ buffered'[j] = buffered[j]
      BY <1>0, <1>10, <2>1 DEF SocketCloses, Set, ClientTypes, SoundTypes
    <3>2. QED
      BY <1>10, <3>1, SoundKept DEF SocketCloses, IsSound
  <2>2. CASE j = k
    <3>1. /\ client'[j] = "closed" /\ sock'[j] = "closed" /\ buffered'[j] = <<>>
          /\ up'[j] \in {up[j], <<>>}
          /\ frames'[j] = frames[j] /\ relay'[j] = relay[j]
          /\ inWindow'[j] = inWindow[j] /\ heard'[j] = heard[j]
      BY <1>0, <1>10, <2>2 DEF SocketCloses, Set, ClientTypes, SoundTypes
    <3>2. Sound("closed", "closed", frames[j], <<>>, up'[j], relay[j], inWindow[j], heard[j])
      BY <1>0, <3>1, SoundOfClosed DEF IsSound
    <3>3. QED
      BY <3>1, <3>2 DEF IsSound
  <2>3. QED
    BY <2>1, <2>2
<1>11. ASSUME NEW k \in Attempts, Ended(k) PROVE IsSound(j)'
  BY <1>11, SoundCloses DEF Ended, Teardown, IsSound
<1>12. ASSUME NEW k \in Attempts, Deliver(k) PROVE IsSound(j)'
  <2>1. /\ up[k] # <<>> /\ up' = Set(up, k, Tail(up[k])) /\ Head(up[k]) = up[k][1]
        /\ UNCHANGED browser
    BY <1>0, <1>12, OrderedShrinks DEF Deliver, Set, IsSound, Sound
  <2>2. CASE j # k
    <3>1. /\ up'[j] = up[j] /\ relay'[j] = relay[j]
          /\ inWindow'[j] = inWindow[j] /\ heard'[j] = heard[j]
      BY <1>0, <1>12, <2>1, <2>2
      DEF Deliver, AcceptFrame, EndFromRelay, Set, Append1, SoundTypes, RelayTypes
    <3>2. QED
      BY <2>1, <3>1, SoundKept DEF IsSound
  <2>3. CASE j = k
    <3>1. LET r == relay[j]
              h == heard[j]
              w == inWindow[j]
              m == up[j][1]
              z == relay'[j]
              x == inWindow'[j]
              g == heard'[j]
          IN  \/ r = "greeting" /\ m.t = "hello" /\ z = "verifying" /\ x = w /\ g = h
              \/ r = "greeting" /\ m.t # "hello" /\ z = "refused" /\ x = w /\ g = h
              \/ /\ r = "running" /\ m.t = "audio" /\ z = r /\ x \in {1, w + 1}
                 /\ g = IF x <= FrameLimit THEN Append(h, m.n) ELSE h
              \/ r = "running" /\ m.t = "bye" /\ z = "over" /\ x = w /\ g = h
              \/ /\ r \notin {"greeting", "running"} \/ (r = "running" /\ m.t = "hello")
                 /\ z = r /\ x = w /\ g = h
      <4>1. LET m == up[k][1]
                same == inWindow' = inWindow /\ heard' = heard
            IN  \/ relay[k] = "greeting" /\ m.t = "hello" /\ relay' = Set(relay, k, "verifying")
                     /\ same
                \/ relay[k] = "greeting" /\ m.t # "hello" /\ relay' = Set(relay, k, "refused")
                     /\ same
                \/ /\ relay[k] = "running" /\ m.t = "audio" /\ relay' = relay
                   /\ \E x \in {1, inWindow[k] + 1} :
                        /\ inWindow' = Set(inWindow, k, x)
                        /\ heard' = IF x <= FrameLimit
                                    THEN Set(heard, k, Append(heard[k], m.n)) ELSE heard
                \/ relay[k] = "running" /\ m.t = "bye" /\ relay' = Set(relay, k, "over")
                     /\ same
                \/ /\ relay[k] \notin {"greeting", "running"} \/ (relay[k] = "running" /\ m.t = "hello")
                   /\ relay' = relay /\ same
        BY <1>12, <2>1 DEF Deliver, AcceptFrame, EndFromRelay, Append1, Set
      <4>2. /\ \A z : Set(relay, k, z)[k] = z
            /\ \A x : Set(inWindow, k, x)[k] = x
            /\ \A g : Set(heard, k, g)[k] = g
        BY <1>0 DEF Set, SoundTypes, RelayTypes
      <4>3. QED
        BY <2>3, <4>1, <4>2
    <3>2. up'[j] = Tail(up[j]) /\ up[j] # <<>>
      BY <1>0, <2>1, <2>3 DEF Set, SoundTypes
    <3>3. Sound(client[j], sock[j], frames[j], buffered[j], Tail(up[j]), relay'[j], inWindow'[j],
                heard'[j])
      BY <1>0, <3>1, <3>2, SoundRead DEF IsSound
    <3>4. QED
      BY <2>1, <3>2, <3>3 DEF IsSound
  <2>4. QED
    BY <2>2, <2>3
<1>13. ASSUME NEW k \in Attempts, NEW z, relay' = Set(relay, k, z),
              UNCHANGED <<browser, up, inWindow, heard>>,
              (relay[k] = "verifying" /\ z = "running") \/ z \in {"left", "alone", "over"}
       PROVE  IsSound(j)'
  <2>1. CASE j # k
    <3>1. relay'[j] = relay[j]
      BY <1>0, <1>13, <2>1 DEF Set, RelayTypes
    <3>2. QED
      BY <1>13, <3>1, SoundKept DEF IsSound
  <2>2. CASE j = k
    <3>1. relay'[j] = z
      BY <1>0, <1>13, <2>2 DEF Set, RelayTypes
    <3>2. Sound(client[j], sock[j], frames[j], buffered[j], up[j], z, inWindow[j], heard[j])
      BY <1>0, <1>13, <2>2, SoundAlong DEF IsSound
    <3>3. QED
      BY <1>13, <3>1, <3>2 DEF IsSound
  <2>3. QED
    BY <2>1, <2>2
<1>14. ASSUME NEW k \in Attempts, Handshake(k) PROVE IsSound(j)'
  BY <1>13, <1>14 DEF Handshake, CloseFromRelay
<1>15. ASSUME NEW k \in Attempts, ActorEnds(k) PROVE IsSound(j)'
  BY <1>13, <1>15 DEF ActorEnds, EndFromRelay
<1>16. ASSUME NEW k \in Attempts, RelaySeesClose(k) PROVE IsSound(j)'
  BY <1>13, <1>16 DEF RelaySeesClose, AfterGone
<1>17. CASE UNCHANGED vars
  BY <1>17, SoundKept DEF IsSound
<1>19. ASSUME NEW k \in Attempts, MicCloses(k) PROVE IsSound(j)'
  BY <1>19, SoundKept DEF MicCloses, IsSound
<1>18. QED
  BY <1>19, <1>1, <1>2, <1>3, <1>4, <1>5, <1>6, <1>7, <1>8, <1>9, <1>10, <1>11, <1>12, <1>14, <1>15,
     <1>16, <1>17 DEF Next, IsSound

\* Hello is the first thing that the relay reads of every socket; and from the first frame
\* that the actor hears it misses none but those beyond the limit of a second.
THEOREM StudioHeardUnbroken == Spec => []HeardUnbroken
<1>1. SoundInv => HeardUnbroken
  BY DEF SoundInv, Sound, Heeded, Gapless, HeardUnbroken
<1>2. QED
  BY <1>1, TypesInit, TypesNext, SoundInit, SoundNext, PTL DEF Spec

-----------------------------------------------------------------------------
(* What the page shows                                                     *)

\* A microphone is closed once, of an attempt whose start() is over.
MicAt(k) ==
  /\ closing[k] # "" => mic[k] = "off"
  /\ closing[k] # "" \/ mic[k] = "on" => k <= starts /\ phase[k] = "over"

MicsInv == \A k \in Attempts : MicAt(k)

\* No microphone is there.
LEMMA MicsInit == Init => MicsInv
  BY DEF Init, MicsInv, MicAt

\* Every step keeps what is closed closed.
LEMMA MicsNext == StudioTypes /\ SoundInv /\ MicsInv /\ [Next]_vars => MicsInv'
<1> SUFFICES ASSUME StudioTypes, SoundInv, MicsInv, [Next]_vars, NEW j \in Attempts
             PROVE  MicAt(j)'
  BY DEF MicsInv
<1> USE DEF vars, ui, browser, wire, server, history
<1>0. /\ \A k \in Attempts : MicAt(k)
      /\ \A k \in Attempts : k > starts => phase[k] = "over"
      /\ PageTypes /\ ClientTypes /\ \A k \in Attempts : k \in Nat /\ k # 0
      /\ starts \in Nat
  <2>1. \A k \in Attempts : MicAt(k) /\ (k > starts => phase[k] = "over")
    BY DEF MicsInv, SoundInv, OpensOnce
  <2>2. PageTypes /\ ClientTypes
    BY DEF StudioTypes
  <2>3. starts \in 0..MaxStarts
    BY <2>2 DEF PageTypes
  <2>4. starts \in Nat /\ \A k \in Attempts : k \in Nat /\ k # 0
    BY <2>3, StudioAssumption DEF Attempts
  <2>5. QED
    BY <2>1, <2>2, <2>4
<1>1. ASSUME NEW by \in {"stop", "end", "fail"}, Teardown(by), starts' = starts,
             phase'[j] \in {phase[j], "over"},
             \/ mic' = Stopped
             \/ \E k \in Attempts, m \in {"off", "lit"} :
                  phase[k] = "mic" /\ mic' = Set(Stopped, k, m)
      PROVE  MicAt(j)'
  <2>1. MicAt(j) /\ Stopped \in [Attempts -> {"off", "on", "lit"}]
    BY <1>0, Closing
  <2>2. Stopped[j] = IF j = recorder THEN "off" ELSE mic[j]
    BY <1>0 DEF Stopped, ClientTypes, Set
  <2>3. closing'[j] = IF j = recorder /\ mic[j] = "on" THEN by ELSE closing[j]
    BY <1>0, <1>1 DEF Teardown, PageTypes, Set
  <2>4. \/ mic'[j] = Stopped[j]
        \/ phase[j] = "mic" /\ mic'[j] \in {"off", "lit"}
    BY <1>1, <2>1 DEF Set
  <2>5. QED
    BY <1>1, <2>1, <2>2, <2>3, <2>4 DEF MicAt
<1>2. CASE Start
  <2>1. /\ starts' = starts + 1 /\ phase' = Set(phase, starts + 1, "fetch")
        /\ UNCHANGED <<closing, mic>>
    BY <1>2 DEF Start
  <2>2. MicAt(j) /\ (j <= starts => j # starts + 1 /\ j <= starts + 1)
    BY <1>0
  <2>3. j # starts + 1 => phase'[j] = phase[j]
    BY <1>0, <2>1 DEF ClientTypes, Set
  <2>4. QED
    BY <2>1, <2>2, <2>3 DEF MicAt
<1>3. CASE Stop
  BY <1>1, <1>3 DEF Stop
<1>4. CASE Leave
  <2>1. mic'[j] \in {mic[j], "off"}
    BY <1>0, <1>4 DEF Leave, Stopped, ClientTypes, Set
  <2>2. QED
    BY <1>0, <1>4, <2>1 DEF Leave, MicAt
<1>5. ASSUME NEW k \in Attempts, NotStarted(k) PROVE MicAt(j)'
  BY <1>0, <1>5 DEF NotStarted, MicAt, ClientTypes, Set
<1>6. ASSUME NEW k \in Attempts, Connect(k) PROVE MicAt(j)'
  BY <1>0, <1>6 DEF Connect, MicAt, ClientTypes, Set
<1>7. ASSUME NEW k \in Attempts, MicOpens(k) PROVE MicAt(j)'
  <2>1. MicAt(j) /\ (j <= starts \/ phase[j] = "over")
    BY <1>0
  <2>2. /\ phase[k] = "mic" /\ UNCHANGED <<closing, starts>>
        /\ phase' = Set(phase, k, "over") /\ mic' = Set(mic, k, "on")
    BY <1>7 DEF MicOpens
  <2>3. CASE j = k
    BY <1>0, <2>1, <2>2, <2>3 DEF MicAt, ClientTypes, Set
  <2>4. CASE j # k
    BY <1>0, <2>1, <2>2, <2>4 DEF MicAt, ClientTypes, Set
  <2>5. QED
    BY <2>3, <2>4
<1>8. ASSUME NEW k \in Attempts, MicFails(k) PROVE MicAt(j)'
  <2>1. phase'[j] \in {phase[j], "over"}
    BY <1>0, <1>8 DEF MicFails, ClientTypes, Set
  <2>2. QED
    BY <1>1, <1>8, <2>1 DEF MicFails
<1>9. ASSUME NEW k \in Attempts, MicCloses(k) PROVE MicAt(j)'
  BY <1>0, <1>9 DEF MicCloses, MicAt, PageTypes, Set
<1>10. ASSUME NEW k \in Attempts, Ended(k) PROVE MicAt(j)'
  BY <1>1, <1>10 DEF Ended
<1>11. CASE UNCHANGED <<mic, closing, starts, phase>>
  BY <1>0, <1>11 DEF MicAt
<1>12. ASSUME NEW k \in Attempts,
              \/ Frame(k) \/ SocketOpens(k) \/ SocketCloses(k) \/ Deliver(k)
              \/ Handshake(k) \/ ActorEnds(k) \/ RelaySeesClose(k)
       PROVE  UNCHANGED <<mic, closing, starts, phase>>
  BY <1>12 DEF Frame, SocketOpens, SocketCloses, Deliver, Handshake, ActorEnds, RelaySeesClose
<1>13. QED
  BY <1>2, <1>3, <1>4, <1>5, <1>6, <1>7, <1>8, <1>9, <1>10, <1>11, <1>12 DEF Next

\* An attempt of a page that has not been left, and that has taken every end for what it
\* was: only the last one waits for something, only the one that relayRef holds has a
\* client that is not closed, and only the one that micRef holds has a microphone on.
CalmAt(k) ==
  /\ phase[k] # "over" => k = starts /\ status \in {"starting", "ended"}
  /\ phase[k] = "fetch" => status = "starting"
  /\ phase[k] = "mic" /\ status = "starting" => current = k
  /\ client[k] \in {"connecting", "live"} =>
       k = current /\ (status = "live" \/ (status = "starting" /\ phase[k] = "mic"))
  /\ mic[k] = "on" => k \in lost \/ (status = "live" /\ k = recorder)

\* And the page itself.
CalmPage ==
  /\ status = "live" =>
       /\ recorder # 0
       /\ IF closing[recorder] = "stop" THEN current = 0
          ELSE current # 0 /\ client[current] # "closed" /\ mic[recorder] = "on"
  /\ status = "starting" => \E k \in Attempts : phase[k] # "over" \/ closing[k] = "fail"

CalmInv == mounted /\ ~confused => CalmPage /\ \A k \in Attempts : CalmAt(k)

\* A page that has just been opened is calm.
LEMMA CalmInit == Init => CalmInv
<1> SUFFICES ASSUME Init PROVE CalmPage /\ \A k \in Attempts : CalmAt(k)
  BY DEF CalmInv
<1>1. QED
  BY DEF Init, CalmPage, CalmAt

\* The page closes what its references hold.
LEMMA CalmCloses ==
  ASSUME StudioTypes, SoundInv, CalmInv, mounted, ~confused, CloseClient, NEW k \in Attempts
  PROVE  /\ client'[k] \in {"idle", "closed"}
         /\ Stopped[k] = "on" => k \in lost
<1>1. CalmAt(k) /\ client[k] \in {"idle", "connecting", "live", "closed"} /\ ClientTypes
  BY DEF CalmInv, StudioTypes, ClientTypes
<1>2. client'[k] = IF k = current THEN "closed" ELSE client[k]
  BY <1>1, AttemptsAre DEF CloseClient, Set, ClientTypes
<1>3. Stopped[k] = IF k = recorder THEN "off" ELSE mic[k]
  BY <1>1, AttemptsAre DEF Stopped, Set, ClientTypes
<1>4. QED
  BY <1>1, <1>2, <1>3 DEF CalmAt

\* Every step keeps the page calm, or is one that takes an end for another's.
LEMMA CalmNext ==
  StudioTypes /\ SoundInv /\ MicsInv /\ CalmInv /\ [Next]_vars => CalmInv'
<1> SUFFICES ASSUME StudioTypes, SoundInv, MicsInv, CalmInv, [Next]_vars, mounted', confused' = FALSE
             PROVE  CalmPage' /\ \A j \in Attempts : CalmAt(j)'
  BY TypesNext DEF CalmInv, StudioTypes, PageTypes
<1> USE DEF vars, ui, browser, wire, server, history
<1> DEFINE Calm == CalmPage /\ \A j \in Attempts : CalmAt(j)
<1>0. /\ mounted /\ ~confused => Calm
      /\ \A j \in Attempts : OpensOnce(j) /\ MicAt(j)
      /\ PageTypes /\ ClientTypes
      /\ \A j \in Attempts : client[j] \in {"idle", "connecting", "live", "closed"}
  BY DEF CalmInv, SoundInv, MicsInv, StudioTypes, ClientTypes
<1> HIDE DEF Calm
<1>1. CASE Start
  <2>1. Calm /\ status' = "starting" /\ phase' = Set(phase, starts + 1, "fetch")
        /\ \A k \in Attempts : phase[k] = "over"
    BY <1>0, <1>1 DEF Start
  <2>2. ASSUME NEW j \in Attempts PROVE CalmAt(j)'
    <3>1. phase'[j] = IF j = starts + 1 THEN "fetch" ELSE "over"
      BY <1>0, <2>1 DEF ClientTypes, Set
    <3>2. client[j] \notin {"connecting", "live"} /\ (mic[j] = "on" => j \in lost)
      BY <1>0, <1>1, <2>1 DEF Calm, CalmAt, Start
    <3>3. QED
      BY <1>0, <1>1, <2>1, <3>1, <3>2 DEF CalmAt, Start
  <2>3. starts + 1 \in Attempts /\ phase'[starts + 1] # "over"
    BY <1>0, <1>1, <2>1, AttemptsAre DEF Start, PageTypes, ClientTypes, Set
  <2>4. QED
    BY <2>1, <2>2, <2>3 DEF CalmPage
<1>2. ASSUME mounted, ~confused, CloseClient, mic' = Stopped,
             UNCHANGED <<starts, phase, lost>>, NEW j \in Attempts,
             \/ status' = "ended" /\ \A k \in Attempts : phase[k] # "fetch"
             \/ status' = "live" /\ \A k \in Attempts : phase[k] = "over"
      PROVE  CalmAt(j)'
  <2>1. client'[j] \in {"idle", "closed"} /\ (mic'[j] = "on" => j \in lost)
    BY <1>2, CalmCloses
  <2>2. CalmAt(j)
    BY <1>0, <1>2 DEF Calm
  <2>3. QED
    BY <1>2, <2>1, <2>2 DEF CalmAt
<1>3. CASE Stop
  <2>1. mounted /\ ~confused /\ status = "live" /\ Calm /\ Teardown("stop")
    BY <1>0, <1>3 DEF Stop
  <2>2. \A k \in Attempts : phase[k] = "over"
    BY <1>0, <2>1 DEF Calm, CalmAt
  <2>3. recorder # 0 /\ (closing[recorder] = "stop" \/ mic[recorder] = "on")
    BY <2>1 DEF Calm, CalmPage
  <2>4. status' = "live" /\ current' = 0 /\ recorder' = recorder
    BY <1>3, <2>1, <2>3 DEF Stop, Teardown
  <2>5. closing'[recorder] = "stop"
    BY <1>0, <2>1, <2>3, AttemptsAre DEF Teardown, PageTypes, Set
  <2>6. QED
    BY <1>2, <1>3, <2>1, <2>2, <2>3, <2>4, <2>5 DEF Stop, Teardown, Calm, CalmPage
<1>4. CASE Leave
  BY <1>4 DEF Leave
<1>5. ASSUME NEW k \in Attempts, NotStarted(k) PROVE Calm'
  <2>1. Calm /\ phase[k] = "fetch" /\ status' = "idle" /\ phase' = Set(phase, k, "over")
    BY <1>0, <1>5 DEF NotStarted
  <2>2. status = "starting" /\ k = starts
    BY <2>1 DEF Calm, CalmAt
  <2>3. ASSUME NEW j \in Attempts PROVE CalmAt(j)'
    <3>1. CalmAt(j) /\ phase'[j] = "over"
      BY <1>0, <2>1, <2>2 DEF Calm, CalmAt, ClientTypes, Set
    <3>2. client[j] \notin {"connecting", "live"}
      BY <2>1, <2>2, <3>1, <1>0 DEF CalmAt
    <3>3. QED
      BY <1>5, <2>1, <2>2, <3>1, <3>2 DEF CalmAt, NotStarted
  <2>4. QED
    BY <2>1, <2>3 DEF Calm, CalmPage
<1>6. ASSUME NEW k \in Attempts, Connect(k) PROVE Calm'
  <2>1. Calm /\ phase[k] = "fetch" /\ phase' = Set(phase, k, "mic") /\ current' = k
        /\ client' = Set(client, k, "connecting")
    BY <1>0, <1>6 DEF Connect
  <2>2. status = "starting" /\ k = starts
    BY <2>1 DEF Calm, CalmAt
  <2>3. ASSUME NEW j \in Attempts PROVE CalmAt(j)'
    <3>1. CalmAt(j)
      BY <2>1 DEF Calm
    <3>2. j # k => client[j] \notin {"connecting", "live"} /\ phase[j] = "over"
      BY <2>2, <3>1, <1>0, <2>1 DEF CalmAt
    <3>3. /\ phase'[j] = IF j = k THEN "mic" ELSE phase[j]
          /\ client'[j] = IF j = k THEN "connecting" ELSE client[j]
      BY <1>0, <2>1 DEF ClientTypes, Set
    <3>4. QED
      BY <1>6, <2>1, <2>2, <3>1, <3>2, <3>3 DEF CalmAt, Connect
  <2>4. phase'[k] # "over"
    BY <1>0, <2>1 DEF ClientTypes, Set
  <2>5. QED
    BY <1>6, <2>2, <2>3, <2>4 DEF Calm, CalmPage, Connect
<1>7. ASSUME NEW k \in Attempts, MicOpens(k) PROVE Calm'
  <2>1. Calm /\ phase[k] = "mic" /\ client[k] # "closed"
    BY <1>0, <1>7 DEF MicOpens, PageTypes
  <2>2. client[k] \in {"connecting", "live"}
    BY <1>0, <2>1 DEF OpensOnce
  <2>3. k = current /\ status = "starting" /\ k = starts /\ k # 0
    BY <2>1, <2>2, AttemptsAre DEF Calm, CalmAt
  <2>4. ASSUME NEW j \in Attempts PROVE CalmAt(j)'
    <3>1. CalmAt(j)
      BY <2>1 DEF Calm
    <3>2. /\ phase'[j] = "over"
          /\ mic'[j] = IF j = k THEN "on" ELSE mic[j]
      BY <1>0, <1>7, <2>3, <3>1 DEF MicOpens, ClientTypes, Set, CalmAt
    <3>3. QED
      BY <1>7, <2>3, <3>1, <3>2 DEF CalmAt, MicOpens
  <2>5. mic'[k] = "on" /\ closing[k] = ""
    BY <1>0, <1>7, <2>1 DEF MicOpens, MicAt, ClientTypes, Set
  <2>6. QED
    BY <1>7, <2>1, <2>3, <2>4, <2>5 DEF Calm, CalmPage, MicOpens
<1>8. ASSUME NEW k \in Attempts, MicFails(k) PROVE Calm'
  <2>1. Calm /\ mounted /\ ~confused /\ phase[k] = "mic" /\ CloseClient /\ current' = 0
        /\ Teardown("fail") /\ (recorder = 0 \/ mic[recorder] = "on")
        /\ status' = (IF recorder = 0 THEN "idle" ELSE status)
    BY <1>0, <1>8 DEF MicFails, Teardown, PageTypes
  <2>2. status \in {"starting", "ended"}
    BY <2>1 DEF Calm, CalmAt
  <2>3. ASSUME NEW j \in Attempts PROVE CalmAt(j)'
    <3>1. CalmAt(j) /\ CalmAt(k)
      BY <2>1 DEF Calm
    <3>2. client'[j] \in {"idle", "closed"} /\ (Stopped[j] = "on" => j \in lost)
      BY <2>1, CalmCloses
    <3>3. phase'[j] = "over"
      BY <1>0, <1>8, <2>1, <3>1 DEF MicFails, CalmAt, ClientTypes, Set
    <3>4. mic'[j] = "on" => Stopped[j] = "on"
      BY <1>0, <1>8, Closing DEF MicFails, Set, StudioTypes
    <3>5. QED
      BY <1>8, <2>1, <3>2, <3>3, <3>4 DEF CalmAt, MicFails
  <2>4. status' = "starting" => recorder \in Attempts /\ closing'[recorder] = "fail"
    BY <1>0, <2>1, AttemptsAre DEF Teardown, PageTypes, Set
  <2>5. status' # "live"
    BY <2>1, <2>2
  <2>6. QED
    BY <2>3, <2>4, <2>5 DEF Calm, CalmPage
<1>17. ASSUME NEW k \in Attempts, MicCloses(k) PROVE Calm'
  <2>1. /\ Calm /\ recorder \in {0, k} /\ closing[k] # "" /\ recorder' = 0 /\ k # 0
        /\ closing[k] # "end" => \A j \in Attempts : phase[j] = "over"
        /\ closing' = Set(closing, k, "")
        /\ UNCHANGED <<current, phase, client, mic, starts, lost>>
        /\ status' = IF closing[k] = "stop" THEN "ended"
                     ELSE IF closing[k] = "fail" THEN "idle" ELSE status
    BY <1>0, <1>17, AttemptsAre DEF MicCloses, PageTypes
  <2>2. mic[k] = "off"
    BY <1>0, <2>1 DEF MicAt
  <2>3. status = "live" => recorder = k /\ closing[k] = "stop" /\ current = 0
    BY <2>1, <2>2 DEF Calm, CalmPage
  <2>4. status' # "live"
    BY <2>1, <2>3
  <2>5. ASSUME NEW j \in Attempts PROVE CalmAt(j)'
    <3>1. CalmAt(j) /\ j # 0
      BY <2>1, AttemptsAre DEF Calm
    <3>2. mic[j] = "on" => j \in lost
      BY <2>2, <2>3, <3>1 DEF CalmAt
    <3>3. CASE closing[k] \in {"stop", "fail"}
      <4>1. client[j] \notin {"connecting", "live"}
        BY <2>1, <2>3, <3>1, <3>3 DEF CalmAt
      <4>2. QED
        BY <2>1, <3>1, <3>2, <3>3, <4>1 DEF CalmAt
    <3>4. CASE closing[k] \notin {"stop", "fail"}
      <4>1. status' = status /\ status # "live"
        BY <2>1, <2>3, <3>4
      <4>2. QED
        BY <2>1, <3>1, <3>2, <4>1 DEF CalmAt
    <3>5. QED
      BY <3>3, <3>4
  <2>6. ASSUME status' = "starting"
        PROVE  \E j \in Attempts : phase'[j] # "over" \/ closing'[j] = "fail"
    <3>1. status = "starting" /\ closing[k] \notin {"stop", "fail"}
      BY <2>1, <2>6
    <3>2. PICK j \in Attempts : phase[j] # "over" \/ closing[j] = "fail"
      BY <2>1, <3>1 DEF Calm, CalmPage
    <3>3. j # k => closing'[j] = closing[j]
      BY <1>0, <2>1 DEF PageTypes, Set
    <3>4. QED
      BY <2>1, <3>1, <3>2, <3>3
  <2>7. QED
    BY <2>4, <2>5, <2>6 DEF Calm, CalmPage
<1>9. ASSUME NEW k \in Attempts, Frame(k) PROVE Calm'
  <2>1. UNCHANGED <<ui, starts, phase, client, mic, history>>
    BY <1>9 DEF Frame
  <2>2. Calm
    BY <1>0, <2>1
  <2>3. QED
    BY <2>1, <2>2 DEF Calm, CalmPage, CalmAt
<1>10. ASSUME NEW k \in Attempts, SocketOpens(k) PROVE Calm'
  <2>1. Calm /\ client[k] = "connecting" /\ client' = Set(client, k, "live")
    BY <1>0, <1>10 DEF SocketOpens, OpensOnce
  <2>2. k = current
    BY <2>1 DEF Calm, CalmAt
  <2>3. ASSUME NEW j \in Attempts PROVE CalmAt(j)'
    <3>1. CalmAt(j) /\ client'[j] = IF j = k THEN "live" ELSE client[j]
      BY <1>0, <2>1 DEF Calm, ClientTypes, Set
    <3>2. QED
      BY <1>10, <2>1, <3>1 DEF CalmAt, SocketOpens
  <2>4. client'[k] = "live"
    BY <1>0, <2>1 DEF ClientTypes, Set
  <2>5. QED
    BY <1>10, <2>1, <2>2, <2>3, <2>4 DEF Calm, CalmPage, SocketOpens
<1>11. ASSUME NEW k \in Attempts, SocketCloses(k) PROVE Calm'
  <2>1. /\ Calm /\ (status = "live" => current \in {0, k}) /\ client' = Set(client, k, "closed")
        /\ status' = (IF status = "live" THEN "ended" ELSE status)
        /\ lost' = IF status = "live" /\ recorder # 0 THEN lost \cup {recorder} ELSE lost
        /\ UNCHANGED <<phase, starts, current, recorder, closing, mic>>
    BY <1>0, <1>11 DEF SocketCloses, AfterClose, PageTypes
  <2>2. ASSUME NEW j \in Attempts PROVE CalmAt(j)'
    <3>1. CalmAt(j) /\ j # 0
      BY <2>1, AttemptsAre DEF Calm
    <3>2. client'[j] = IF j = k THEN "closed" ELSE client[j]
      BY <1>0, <2>1 DEF ClientTypes, Set
    <3>3. mic[j] = "on" => j \in lost' \/ (status' = "live" /\ j = recorder)
      BY <2>1, <3>1 DEF CalmAt
    <3>4. status = "live" => phase[j] = "over" /\ client'[j] \notin {"connecting", "live"}
      BY <2>1, <3>1, <3>2, <1>0 DEF CalmAt
    <3>5. QED
      BY <2>1, <3>1, <3>2, <3>3, <3>4 DEF CalmAt
  <2>3. QED
    BY <2>1, <2>2 DEF Calm, CalmPage
<1>12. ASSUME NEW k \in Attempts, Ended(k) PROVE Calm'
  <2>1. mounted /\ ~confused /\ Calm /\ client[k] = "live"
    BY <1>0, <1>12 DEF Ended, OpensOnce
  <2>2. \A j \in Attempts : phase[j] # "fetch"
    <3>1. status = "live" \/ (status = "starting" /\ phase[k] = "mic" /\ k = starts)
      BY <2>1 DEF Calm, CalmAt
    <3>2. QED
      BY <2>1, <3>1 DEF Calm, CalmAt
  <2>3. QED
    BY <1>2, <1>12, <2>1, <2>2 DEF Ended, Teardown, Calm, CalmPage
<1>13. ASSUME UNCHANGED <<ui, starts, browser, history>> PROVE Calm'
  <2>1. Calm
    BY <1>0, <1>13
  <2>2. QED
    BY <1>13, <2>1 DEF Calm, CalmPage, CalmAt
<1>14. ASSUME NEW k \in Attempts, Deliver(k) \/ Handshake(k) \/ ActorEnds(k) \/ RelaySeesClose(k)
       PROVE  Calm'
  BY <1>13, <1>14 DEF Deliver, Handshake, ActorEnds, RelaySeesClose
<1>15. CASE UNCHANGED vars
  BY <1>13, <1>15 DEF Calm
<1>16. QED
  BY <1>1, <1>3, <1>4, <1>5, <1>6, <1>7, <1>8, <1>9, <1>10, <1>11, <1>12, <1>14, <1>15, <1>17
  DEF Next, Calm

\* A page that shows live has a client that is not closed, or awaits the microphone that STOP
\* has stopped; one that shows starting has a start() that goes on; one that shows idle or
\* ended has no client that is not closed, and no microphone on: except when it has taken
\* one attempt's end for another's, or its connection has broken and left the microphone on.
THEOREM StudioScreenIsTrue == Spec => []ScreenIsTrue
<1>1. StudioTypes /\ CalmInv => ScreenIsTrue
  <2>1. SUFFICES ASSUME StudioTypes, CalmInv, mounted, ~confused PROVE ScreenIsTrue
    BY DEF ScreenIsTrue
  <2>2. \A k \in Attempts : client[k] \in {"idle", "connecting", "live", "closed"}
    BY <2>1 DEF StudioTypes, ClientTypes
  <2>3. CalmPage /\ \A k \in Attempts : CalmAt(k)
    BY <2>1 DEF CalmInv
  <2>4. status \in {"idle", "ended"} =>
          \A k \in Attempts : client[k] \in {"idle", "closed"} /\ (mic[k] = "on" => k \in lost)
    BY <2>2, <2>3 DEF CalmAt
  <2>5. QED
    BY <2>3, <2>4 DEF CalmPage, ScreenIsTrue
<1>2. QED
  BY <1>1, TypesInit, TypesNext, SoundInit, SoundNext, MicsInit, MicsNext, CalmInit, CalmNext, PTL
  DEF Spec

-----------------------------------------------------------------------------
(* What the resampler keeps between two blocks                             *)

\* What division leaves: the quotient times the divisor, and less than one divisor.
LEMMA Division ==
  ASSUME NEW a \in Nat, NEW d \in Nat, d > 0
  PROVE  /\ a \div d \in Nat
         /\ (a \div d) * d <= a
         /\ a < (a \div d + 1) * d
  OBVIOUS

\* A sample more and a sample less, in parts.
LEMMA Neighbours ==
  ASSUME NEW n \in Nat, NEW d \in Nat
  PROVE  /\ n * d \in Nat
         /\ (n + 1) * d = n * d + d
         /\ n > 0 => (n - 1) * d \in Nat /\ (n - 1) * d = n * d - d
<1>1. n * d \in Nat /\ (n + 1) * d = n * d + d
  OBVIOUS
<1>2. ASSUME n > 0 PROVE (n - 1) * d \in Nat /\ (n - 1) * d = n * d - d
  <2>1. PICK k \in Nat : n = k + 1
    <3>1. n - 1 \in Nat /\ n = (n - 1) + 1
      BY <1>2
    <3>2. QED
      BY <3>1
  <2>2. k * d \in Nat /\ (k + 1) * d = k * d + d
    OBVIOUS
  <2>3. n - 1 = k
    BY <2>1
  <2>4. QED
    BY <2>1, <2>2, <2>3
<1>3. QED
  BY <1>1, <1>2

\* What begins before the end of a sample is no later a sample.
LEMMA NotPast ==
  ASSUME NEW q \in Nat, NEW n \in Nat, NEW d \in Nat, NEW p \in Nat,
         q * d <= p, p < (n + 1) * d
  PROVE  q <= n
<1>1. SUFFICES ASSUME q > n PROVE FALSE
  OBVIOUS
<1>2. PICK k \in Nat : q = (n + 1) + k
  <2>1. q - (n + 1) \in Nat
    BY <1>1
  <2>2. QED
    BY <2>1
<1>3. ((n + 1) + k) * d = (n + 1) * d + k * d /\ k * d \in Nat /\ (n + 1) * d \in Nat
  OBVIOUS
<1>4. QED
  BY <1>2, <1>3

\* What is left of a sequence when its first samples are taken.
LEMMA Rest ==
  ASSUME NEW s \in Seq(Nat), NEW q \in 0..Len(s)
  PROVE  /\ SubSeq(s, q + 1, Len(s)) \in Seq(Nat)
         /\ Len(SubSeq(s, q + 1, Len(s))) = Len(s) - q
  OBVIOUS

\* Where reading ends: less than a step past the last sample, or where it began.
EndsWithin(pos, given, cursor, num, den) ==
  /\ pos \in Nat
  /\ pos >= (given - 1) * den
  /\ pos < (given - 1) * den + num \/ given = 1
  /\ given = 1 => pos = cursor

\* A block is read to its last sample but one, and no sample is made that would need one
\* more: the next would lie less than a step past there (worklet.ts:41).
LEMMA BlockIsRead ==
  ASSUME NEW num \in Nat, num > 0, NEW den \in Nat, den > 0,
         NEW given \in Nat, given > 0, NEW cursor \in 0..den - 1
  PROVE  EndsWithin(EndsAt(given, cursor, num, den), given, cursor, num, den)
<1> USE DEF EndsWithin
<1> DEFINE room == (given - 1) * den - cursor
           last == (given - 1) * den
<1>1. last \in Nat /\ (given = 1 => last = 0) /\ (given > 1 => last >= den)
  <2>1. given - 1 \in Nat /\ (given > 1 => given - 1 > 0)
    OBVIOUS
  <2>2. \A n \in Nat : n * den \in Nat /\ (n > 0 => n * den >= den) /\ (n = 0 => n * den = 0)
    <3>1. SUFFICES ASSUME NEW n \in Nat
                   PROVE  n * den \in Nat /\ (n > 0 => n * den >= den) /\ (n = 0 => n * den = 0)
      OBVIOUS
    <3>2. QED
      BY Neighbours
  <2>3. QED
    BY <2>1, <2>2
<1> HIDE DEF last
<1>2. room = last - cursor
  BY DEF last
<1> HIDE DEF room
<1>3. CASE room <= 0
  <2>1. Made(given, cursor, num, den) = 0
    BY <1>3 DEF Made, room
  <2>2. EndsAt(given, cursor, num, den) = cursor
    BY <2>1 DEF EndsAt
  <2>3. given = 1
    BY <1>1, <1>2, <1>3
  <2>4. QED
    BY <1>1, <2>1, <2>2, <2>3 DEF last
<1>4. CASE room > 0
  <2> DEFINE n == (room + num - 1) \div num
  <2>1. room \in Int
    BY <1>1, <1>2
  <2>2. n \in Nat /\ n * num <= room + num - 1 /\ room + num - 1 < (n + 1) * num
    <3>1. room + num - 1 \in Nat
      BY <1>4, <2>1
    <3>2. QED
      BY <3>1, Division
  <2> HIDE DEF n
  <2>3. n * num \in Nat /\ (n + 1) * num = n * num + num
    BY <2>2
  <2>4. Made(given, cursor, num, den) = n
    BY <1>4 DEF Made, room, n
  <2>5. EndsAt(given, cursor, num, den) = cursor + n * num
    BY <2>4 DEF EndsAt
  <2>6. given # 1
    BY <1>1, <1>2, <1>4
  <2>7. cursor + n * num >= last /\ cursor + n * num < last + num
    BY <1>1, <1>2, <2>1, <2>2, <2>3
  <2>8. QED
    BY <2>2, <2>3, <2>4, <2>5, <2>6, <2>7 DEF last
<1>5. QED
  BY <1>1, <1>2, <1>3, <1>4

\* Up to twice the wire's rate, nothing is forgotten between two blocks: the samples left
\* over and the cursor say where in the stream the next sample is (worklet.ts:59-61).
THEOREM PlaceIsKept ==
  ASSUME NEW num \in Nat, num > 0, NEW den \in Nat, den > 0, num <= 2 * den,
         NEW frameSamples, NEW kept, NEW block,
         kept.tail \in Seq(Nat), kept.cursor \in 0..den - 1, block \in Seq(Nat), block # <<>>
  PROVE  LET next  == Process(kept, block, num, den, frameSamples)
             given == Len(kept.tail) + Len(block)
         IN  /\ next.tail \in Seq(Nat)
             /\ next.cursor \in 0..den - 1
             /\ (given - Len(next.tail)) * den + next.cursor
                  = EndsAt(given, kept.cursor, num, den)
<1> DEFINE merged == kept.tail \o block
           given == Len(merged)
           pos == EndsAt(given, kept.cursor, num, den)
           q == pos \div den
           next == Process(kept, block, num, den, frameSamples)
<1>1. merged \in Seq(Nat) /\ given = Len(kept.tail) + Len(block) /\ given \in Nat /\ given > 0
  OBVIOUS
<1>2. /\ next.tail = SubSeq(merged, q + 1, given)
      /\ next.cursor = pos - q * den
  BY DEF Process
<1> HIDE DEF merged, next
<1>3. /\ pos \in Nat
      /\ pos < (given - 1) * den + num \/ given = 1
      /\ given = 1 => pos = kept.cursor
  <2>1. given \in Nat /\ given > 0
    BY <1>1
  <2> HIDE DEF given
  <2>2. EndsWithin(pos, given, kept.cursor, num, den)
    <3>1. kept.cursor \in 0..den - 1
      OBVIOUS
    <3>2. QED
      BY <2>1, <3>1, BlockIsRead
  <2> HIDE DEF pos
  <2>3. QED
    BY <2>2 DEF EndsWithin
<1> HIDE DEF pos
<1>4. q \in Nat /\ q * den <= pos /\ pos < (q + 1) * den
  BY <1>3, Division
<1> HIDE DEF q
<1>5. pos - q * den \in 0..den - 1
  <2>1. (q + 1) * den = q * den + den /\ q * den \in Nat
    BY <1>4, Neighbours
  <2>2. QED
    BY <1>3, <1>4, <2>1
<1>6. q <= given
  <2> HIDE DEF given
  <2>1. pos < (given + 1) * den
    <3> DEFINE here == given * den
               more == (given + 1) * den
               less == (given - 1) * den
    <3>1. here \in Nat /\ more = here + den /\ less = here - den /\ (given = 1 => here = den)
      BY <1>1, Neighbours
    <3>2. pos < less + num \/ given = 1
      BY <1>3
    <3>3. pos \in Nat /\ (given = 1 => pos = kept.cursor)
      BY <1>3
    <3> HIDE DEF here, more, less
    <3>4. pos < more
      BY <3>1, <3>2, <3>3
    <3>5. QED
      BY <3>4 DEF more
  <2>2. q \in Nat /\ given \in Nat /\ pos \in Nat /\ q * den <= pos
    BY <1>1, <1>3, <1>4
  <2>3. QED
    BY <2>1, <2>2, NotPast
<1>7. next.tail \in Seq(Nat) /\ Len(next.tail) = given - q
  <2>1. q \in 0..given
    BY <1>1, <1>4, <1>6
  <2>2. QED
    BY <1>1, <1>2, <2>1, Rest
<1>8. (given - (given - q)) * den + (pos - q * den) = pos
  <2> HIDE DEF given
  <2>1. q \in Nat /\ given \in Nat /\ given - (given - q) = q
    BY <1>1, <1>4
  <2>2. q * den \in Nat
    BY <2>1, Neighbours
  <2>3. q * den + (pos - q * den) = pos
    BY <1>3, <2>2
  <2>4. QED
    BY <2>1, <2>3
<1>9. QED
  BY <1>1, <1>2, <1>5, <1>7, <1>8 DEF pos, next

-----------------------------------------------------------------------------
(***************************************************************************)
(* For any number of tabs and browsers, whatever their requests do between *)
(* their awaits and wherever they throw: which sessions outlive a          *)
(* password, that none comes back, and what a deleted account leaves.      *)
(***************************************************************************)

USE LoginAssumption

Cookies == [id : Int, until : Int]
Requests == [op : Ops, at : Steps, sid : Int, knows : Int, set : Cookies]
Rows == [id : Int, until : Int, password : Int]

LoginTypes ==
  /\ now \in Nat /\ opened \in Nat /\ passwords \in Nat
  /\ user \in [password : Int, deleted : BOOLEAN]
  /\ sessions \subseteq Rows
  /\ glossaries \in Nat
  /\ cookie \in [Browsers -> Cookies]
  /\ req \in [Tabs -> Requests]

LoginInv == LoginTypes /\ OldSessionsDie

LEMMA Constants ==
  /\ NoCookie \in Cookies /\ Keep \in Cookies /\ NoRequest \in Requests
  /\ NoRequest.at = "idle" /\ \A t \in Tabs : Browser(t) \in Browsers
  BY DEF NoCookie, Keep, NoRequest, Cookies, Requests, Ops, Steps, SignedInOps, Browsers

LEMMA AfterIsStep ==
  ASSUME NEW op \in Ops, NEW at \in Steps
  PROVE  /\ After(op, at) \in Steps
         /\ First(op) \in {"verify", "work", "done"}
         /\ After(op, at) # "update" \/ at = "erase" \/ (at = "verify" /\ op # "delete")
         /\ at = "update" => After(op, at) = "revoke"
  BY DEF After, First, Ops, SignedInOps, Steps

LEMMA LoginStarts == LoginInit => LoginInv
<1> SUFFICES ASSUME LoginInit PROVE LoginInv
  OBVIOUS
<1>1. LoginTypes
  BY Constants DEF LoginInit, LoginTypes
<1>2. OldSessionsDie
  BY DEF LoginInit, OldSessionsDie
<1>3. QED
  BY <1>1, <1>2 DEF LoginInv

\* A step of the tab t that leaves the account's row alone: sessions are
\* dropped or renewed, and t is past the revocation only if none is left.
LEMMA TabStep ==
  ASSUME LoginInv, NEW t \in Tabs, \A u \in Tabs : u # t => req'[u] = req[u],
         UNCHANGED <<user, outlived>>,
         \A s \in sessions' : \E o \in sessions : s.id = o.id /\ s.password = o.password,
         At(t, "revoke") => sessions' = {}
  PROVE  OldSessionsDie'
  BY DEF LoginInv, OldSessionsDie, At

LEMMA TypesStep == LoginTypes /\ [LoginNext]_loginVars => LoginTypes'
<1> SUFFICES ASSUME LoginTypes, [LoginNext]_loginVars PROVE LoginTypes'
  OBVIOUS
<1> USE DEF LoginTypes
<1>0. TTL \in Nat /\ \A u \in Tabs : req[u].op \in Ops /\ req[u].at \in Steps /\ req[u].sid \in Int
  BY DEF Requests
<1>1. CASE Tick
  <2>1. cookie' \in [Browsers -> Cookies]
    BY <1>1, Constants DEF Tick
  <2>2. QED
    BY <1>1, <2>1 DEF Tick, tables, bounds
<1>2. ASSUME NEW b \in Browsers, LinkExpires(b) PROVE LoginTypes'
  BY <1>2 DEF LinkExpires, tables, bounds
<1>3. ASSUME NEW t \in Tabs, NEW op \in SignedInOps, Ask(t, op) PROVE LoginTypes'
  <2>1. cookie[Browser(t)].id \in Int /\ op \in Ops
    BY Constants DEF Cookies, Ops
  <2>2. First(op) \in Steps
    BY <2>1, AfterIsStep DEF Steps
  <2>3. PICK at \in Steps : req' = [req EXCEPT ![t] = [op |-> op, sid |-> cookie[Browser(t)].id, knows |-> 0,
                                                       set |-> Keep, at |-> at]]
    BY <1>3, <2>2 DEF Ask, Steps
  <2>4. req' \in [Tabs -> Requests]
    BY <2>1, <2>3, Constants DEF Requests
  <2>5. QED
    BY <1>3, <2>4 DEF Ask, tables, bounds
<1>4. ASSUME NEW t \in Tabs, Slide(t) PROVE LoginTypes'
  <2>1. First(req[t].op) \in Steps /\ [id |-> req[t].sid, until |-> now + TTL] \in Cookies
    BY <1>0, AfterIsStep DEF Cookies, Steps
  <2>2. req' \in [Tabs -> Requests]
    BY <1>4, <2>1, Constants DEF Slide, Requests
  <2>3. sessions' \subseteq Rows
    BY <1>0, <1>4 DEF Slide, Renewed, Rows
  <2>4. QED
    BY <1>4, <2>2, <2>3 DEF Slide, bounds
<1>5. ASSUME NEW t \in Tabs, Answer(t) PROVE LoginTypes'
  <2>1. cookie' \in [Browsers -> Cookies]
    BY <1>5, Constants DEF Answer, Requests
  <2>2. QED
    BY <1>5, <2>1, Constants DEF Answer, tables, bounds
<1>6. ASSUME NEW t \in Tabs, Fail(t) PROVE LoginTypes'
  BY <1>6, Constants DEF Fail, tables
<1>7. ASSUME NEW t \in Tabs, Login(t) \/ Logout(t) PROVE LoginTypes'
  <2>1. cookie[Browser(t)].id \in Int /\ user.password \in Int
    BY Constants DEF Cookies
  <2>2. req' \in [Tabs -> Requests]
    <3>1. CASE Login(t)
      BY <2>1, <3>1, Constants DEF Login, Requests, Ops, Steps
    <3>2. CASE Logout(t)
      <4>1. [NoRequest EXCEPT !.op = "logout", !.at = "destroy", !.sid = cookie[Browser(t)].id]
              \in Requests
        BY <2>1, Constants DEF Requests, Ops, Steps
      <4>2. QED
        BY <3>2, <4>1 DEF Logout
    <3>3. QED
      BY <1>7, <3>1, <3>2
  <2>3. QED
    BY <1>7, <2>2 DEF Login, Logout, tables, bounds
<1>8. ASSUME NEW t \in Tabs, Forgot(t) PROVE LoginTypes'
  BY <1>8 DEF Forgot, tables, bounds
<1>9. ASSUME NEW t \in Tabs, NEW link \in links, Reset(t, link) PROVE LoginTypes'
  <2>1. [NoRequest EXCEPT !.op = "reset", !.at = "verify"] \in Requests
    BY Constants DEF Requests, Ops, Steps
  <2>2. req' \in [Tabs -> Requests]
    BY <1>9, <2>1 DEF Reset
  <2>3. QED
    BY <1>9, <2>2 DEF Reset, tables, bounds
<1>10. ASSUME NEW t \in Tabs, NEW at \in Steps, Go(t, at) PROVE req' \in [Tabs -> Requests]
  BY <1>10 DEF Go, Requests
<1>11. \A op \in Ops, at \in Steps : After(op, at) \in Steps
  BY AfterIsStep
<1>12. {"done", "insert", "verify", "erase", "update", "revoke", "destroy"} \subseteq Steps /\ "delete" \in Ops
  BY DEF Steps, Ops, SignedInOps
<1>13. ASSUME NEW t \in Tabs, Verify(t) PROVE LoginTypes'
  <2>1. \E at \in Steps : Go(t, at)
    BY <1>0, <1>11, <1>12, <1>13 DEF Verify
  <2>2. QED
    BY <1>10, <1>13, <2>1 DEF Verify, tables, bounds
<1>14. ASSUME NEW t \in Tabs, Update(t) PROVE LoginTypes'
  <2>1. CASE req[t].op = "delete"
    <3>1. user' \in [password : Int, deleted : BOOLEAN] /\ UNCHANGED passwords
      <4>1. user' = [password |-> 0, deleted |-> TRUE] /\ UNCHANGED passwords
        BY <1>14, <2>1 DEF Update
      <4>2. 0 \in Int /\ TRUE \in BOOLEAN
        OBVIOUS
      <4>3. QED
        BY <4>1, <4>2, Zenon
    <3>2. req' \in [Tabs -> Requests]
      BY <1>10, <1>11, <1>12, <1>14, <2>1 DEF Update
    <3>3. QED
      BY <1>14, <3>1, <3>2 DEF Update
  <2>2. CASE req[t].op # "delete"
    <3>1. user' \in [password : Int, deleted : BOOLEAN] /\ passwords' \in Nat
      BY <1>14, <2>2 DEF Update
    <3>2. After(req[t].op, "update") \in Steps
      BY <1>0, <1>11, <1>12
    <3>3. req' \in [Tabs -> Requests]
      BY <1>14, <2>2, <3>2 DEF Update, Requests
    <3>4. QED
      BY <1>14, <3>1, <3>3 DEF Update
  <2>3. QED
    BY <2>1, <2>2
<1>15. ASSUME NEW t \in Tabs, Revoke(t) PROVE LoginTypes'
  <2>1. req' \in [Tabs -> Requests]
    BY <1>0, <1>10, <1>11, <1>12, <1>15 DEF Revoke
  <2>2. QED
    BY <1>15, <2>1 DEF Revoke, Revoked, bounds
<1>16. ASSUME NEW t \in Tabs, Destroy(t) PROVE LoginTypes'
  <2>1. After(req[t].op, "destroy") \in Steps
    BY <1>0, <1>11, <1>12
  <2>2. req' \in [Tabs -> Requests]
    BY <1>16, <2>1, Constants DEF Destroy, Requests
  <2>3. QED
    BY <1>16, <2>2 DEF Destroy, bounds
<1>17. ASSUME NEW t \in Tabs, Mint(t) PROVE LoginTypes'
  <2>1. req[t].knows \in Int /\ opened + 1 \in Int /\ now + TTL \in Int
    BY <1>0 DEF Requests
  <2>2. sessions' \subseteq Rows
    BY <1>17, <2>1 DEF Mint, Rows
  <2>3. req' \in [Tabs -> Requests]
    <3>1. PICK at \in Steps, set \in Cookies : req' = [req EXCEPT ![t].at = at, ![t].set = set]
      BY <1>12, <1>17, <2>1 DEF Mint, Cookies
    <3>2. QED
      BY <3>1 DEF Requests
  <2>4. QED
    BY <1>17, <2>2, <2>3 DEF Mint
<1>18. ASSUME NEW t \in Tabs, Work(t) PROVE LoginTypes'
  <2>1. req' \in [Tabs -> Requests]
    BY <1>10, <1>12, <1>18 DEF Work
  <2>2. glossaries' \in Nat
    BY <1>18 DEF Work
  <2>3. QED
    BY <1>18, <2>1, <2>2 DEF Work, bounds
<1>19. ASSUME NEW t \in Tabs, Insert(t) PROVE LoginTypes'
  <2>1. req' \in [Tabs -> Requests]
    BY <1>10, <1>12, <1>19 DEF Insert
  <2>2. QED
    BY <1>19, <2>1 DEF Insert, bounds
<1>20. ASSUME NEW t \in Tabs, Erase(t) PROVE LoginTypes'
  <2>1. req' \in [Tabs -> Requests]
    BY <1>10, <1>11, <1>12, <1>20 DEF Erase
  <2>2. QED
    BY <1>20, <2>1 DEF Erase, bounds
<1>21. CASE UNCHANGED loginVars
  BY <1>21 DEF loginVars, tables, bounds
<1>22. QED
  BY <1>1, <1>2, <1>3, <1>4, <1>5, <1>6, <1>7, <1>8, <1>9, <1>13, <1>14, <1>15, <1>16, <1>17,
     <1>18, <1>19, <1>20, <1>21
  DEF LoginNext

\* The invariant through a handler's steps, with the types before and after.
LEMMA InvStep ==
  ASSUME LoginInv, LoginTypes', NEW t \in Tabs,
         \/ \E op \in SignedInOps : Ask(t, op)
         \/ Slide(t) \/ Answer(t) \/ Fail(t)
         \/ Login(t) \/ Logout(t) \/ Forgot(t) \/ \E link \in links : Reset(t, link)
         \/ Verify(t) \/ Update(t) \/ Revoke(t) \/ Destroy(t) \/ Mint(t)
         \/ Work(t) \/ Insert(t) \/ Erase(t)
  PROVE  OldSessionsDie'
<1> USE DEF At, Go
<1>0. req \in [Tabs -> Requests] /\ req' \in [Tabs -> Requests] /\ req[t] \in Requests
  BY DEF LoginInv, LoginTypes
<1>1. ASSUME NEW op \in SignedInOps, Ask(t, op) PROVE OldSessionsDie'
  <2>1. First(op) # "update" /\ First(op) # "revoke" /\ req[t].at = "idle"
    BY <1>1 DEF First, SignedInOps, Ask
  <2>2. req'[t].at # "update" /\ \A u \in Tabs : u # t => req'[u] = req[u]
    BY <1>0, <1>1, <2>1 DEF Ask
  <2>3. QED
    BY <1>1, <2>1, <2>2, TabStep DEF Ask, tables
<1>2. CASE Slide(t)
  <2>1. req[t].op \in Ops /\ First(req[t].op) # "update"
    BY <1>0, AfterIsStep DEF Requests
  <2>2. req'[t].at # "update" /\ \A u \in Tabs : u # t => req'[u] = req[u]
    BY <1>0, <1>2, <2>1 DEF Slide, Requests
  <2>3. \A s \in sessions' : \E o \in sessions : s.id = o.id /\ s.password = o.password
    BY <1>2 DEF Slide, Renewed, LoginInv, LoginTypes, Rows
  <2>4. QED
    BY <1>2, <2>2, <2>3, TabStep DEF Slide
<1>3. CASE Answer(t)
  <2>1. req'[t].at # "update" /\ \A u \in Tabs : u # t => req'[u] = req[u]
    BY <1>0, <1>3, Constants DEF Answer
  <2>2. QED
    BY <1>3, <2>1, TabStep DEF Answer, tables
<1>4. CASE Fail(t)
  <2>1. req'[t].at = "idle" /\ \A u \in Tabs : u # t => req'[u] = req[u]
    BY <1>0, <1>4, Constants DEF Fail
  <2>2. UNCHANGED <<user, sessions>>
    BY <1>4 DEF Fail, tables
  <2>3. OldSessionsDie'
    BY <1>4, <2>1, <2>2 DEF Fail, LoginInv, OldSessionsDie, Ids
  <2>4. QED
    BY <2>3
<1>5. CASE Login(t) \/ Logout(t)
  <2>1. req'[t].at = "destroy" /\ \A u \in Tabs : u # t => req'[u] = req[u]
    <3>1. CASE Login(t)
      BY <1>0, <3>1 DEF Login
    <3>2. CASE Logout(t)
      <4> DEFINE r == [NoRequest EXCEPT !.op = "logout", !.at = "destroy", !.sid = cookie[Browser(t)].id]
      <4>1. r.at = "destroy"
        BY DEF NoRequest
      <4>2. req' = [req EXCEPT ![t] = r]
        BY <3>2 DEF Logout
      <4> HIDE DEF r
      <4>3. QED
        BY <1>0, <4>1, <4>2
    <3>3. QED
      BY <1>5, <3>1, <3>2
  <2>2. QED
    BY <1>5, <2>1, TabStep DEF Login, Logout, tables
<1>6. CASE Forgot(t)
  BY <1>6 DEF Forgot, LoginInv, OldSessionsDie, tables
<1>7. ASSUME NEW link \in links, Reset(t, link) PROVE OldSessionsDie'
  <2>1. req'[t].at # "update" /\ \A u \in Tabs : u # t => req'[u] = req[u]
    BY <1>0, <1>7, Constants DEF Reset, Requests
  <2>2. QED
    BY <1>7, <2>1, TabStep DEF Reset, tables
<1>8. CASE Verify(t)
  <2>1. \/ req'[t].at = "done"
        \/ req'[t].at = After(req[t].op, "verify") /\ req'[t].op = req[t].op
    BY <1>0, <1>8 DEF Verify, Requests
  <2>2. req[t].op = "delete" => After(req[t].op, "verify") = "erase"
    BY DEF After
  <2>3. \A u \in Tabs : u # t => req'[u] = req[u]
    BY <1>0, <1>8 DEF Verify
  <2>4. QED
    BY <1>8, <2>1, <2>2, <2>3, TabStep DEF Verify, tables
<1>9. CASE Update(t)
  <2>1. After(req[t].op, "update") = "revoke"
    BY DEF After
  <2>2. req'[t].at = "revoke" /\ req'[t].op = req[t].op /\ \A u \in Tabs : u # t => req'[u] = req[u]
    BY <1>0, <1>9, <2>1 DEF Update, Requests
  <2>3. OldSessionsDie'
    BY <2>2 DEF OldSessionsDie
  <2>4. QED
    BY <2>3
<1>10. CASE Revoke(t)
  <2>1. After(req[t].op, "revoke") # "update"
    BY DEF After
  <2>2. req'[t].at # "update" /\ \A u \in Tabs : u # t => req'[u] = req[u]
    BY <1>0, <1>10, <2>1 DEF Revoke, Requests
  <2>3. QED
    BY <1>10, <2>2, TabStep DEF Revoke, Revoked
<1>11. CASE Destroy(t)
  <2>1. After(req[t].op, "destroy") # "update"
    BY DEF After
  <2>2. req'[t].at # "update" /\ \A u \in Tabs : u # t => req'[u] = req[u]
    BY <1>0, <1>11, <2>1 DEF Destroy, Requests
  <2>3. QED
    BY <1>11, <2>2, TabStep DEF Destroy
<1>12. CASE Mint(t)
  <2>1. req'[t].at = "done" /\ \A u \in Tabs : u # t => req'[u] = req[u]
    BY <1>0, <1>12 DEF Mint, Requests
  <2>2. OldSessionsDie'
    <3> DEFINE new == [id |-> opened + 1, until |-> now + TTL, password |-> req[t].knows]
    <3>1. sessions' = sessions \cup {new} /\ UNCHANGED user /\ outlived \subseteq outlived'
      BY <1>12 DEF Mint
    <3>2. new.password = user.password \/ new.id \in outlived'
      BY <1>12 DEF Mint
    <3>3. \A u \in Tabs : req[u].at = "revoke" => req'[u].at = "revoke"
      BY <1>12, <2>1 DEF Mint
    <3> HIDE DEF new
    <3>4. QED
      BY <3>1, <3>2, <3>3 DEF LoginInv, OldSessionsDie
  <2>3. QED
    BY <2>2
<1>13. CASE Work(t)
  <2>1. req'[t].at \in {"done", "insert"} /\ \A u \in Tabs : u # t => req'[u] = req[u]
    BY <1>0, <1>13 DEF Work, Requests
  <2>2. OldSessionsDie'
    BY <1>13, <2>1 DEF Work, LoginInv, OldSessionsDie
  <2>3. QED
    BY <2>2
<1>14. CASE Insert(t)
  <2>1. req'[t].at = "done" /\ \A u \in Tabs : u # t => req'[u] = req[u]
    BY <1>0, <1>14 DEF Insert, Requests
  <2>2. OldSessionsDie'
    BY <1>14, <2>1 DEF Insert, LoginInv, OldSessionsDie
  <2>3. QED
    BY <2>2
<1>15. CASE Erase(t)
  <2>1. After("delete", "erase") = "update"
    BY DEF After
  <2>2. req'[t].at = "update" /\ \A u \in Tabs : u # t => req'[u] = req[u]
    BY <1>0, <1>15, <2>1 DEF Erase, Requests
  <2>3. OldSessionsDie'
    BY <1>15, <2>2 DEF Erase, LoginInv, OldSessionsDie
  <2>4. QED
    BY <2>3
<1>16. QED
  BY <1>1, <1>2, <1>3, <1>4, <1>5, <1>6, <1>7, <1>8, <1>9, <1>10, <1>11, <1>12, <1>13, <1>14, <1>15

LEMMA LoginStep == LoginInv /\ [LoginNext]_loginVars => LoginInv'
<1> SUFFICES ASSUME LoginInv, [LoginNext]_loginVars PROVE LoginInv'
  OBVIOUS
<1>1. LoginTypes'
  BY TypesStep DEF LoginInv
<1>2. CASE Tick \/ (\E b \in Browsers : LinkExpires(b)) \/ UNCHANGED loginVars
  BY <1>1, <1>2
  DEF Tick, LinkExpires, loginVars, tables, LoginInv, OldSessionsDie, At
<1>3. QED
  BY <1>1, <1>2, InvStep DEF LoginNext, LoginInv

LEMMA LoginAlways == LoginSpec => []LoginInv
<1>1. QED
  BY LoginStarts, LoginStep, PTL DEF LoginSpec

\* Once a change, a reset or a deletion has dropped the sessions, those there are were
\* opened with the password in force, but for two kinds that are named (session.ts:131-138).
THEOREM LoginOldSessionsDie == LoginSpec => []OldSessionsDie
<1>1. LoginInv => OldSessionsDie
  BY DEF LoginInv
<1>2. QED
  BY <1>1, LoginAlways, PTL

\* What a closed account has and what may be added to it never get more together, for
\* any number of tabs (account/delete/route.ts:61-66, session.ts:91).
THEOREM LoginClosedAccountRests == LoginSpec => ClosedAccountRests
<1> DEFINE Rests == user.deleted => glossaries' + Cardinality(Adding') <= glossaries + Cardinality(Adding)
<1>1. IsFiniteSet(Adding) /\ Cardinality(Adding) \in Nat
  <2>1. Adding \in SUBSET Tabs
    BY DEF Adding
  <2>2. IsFiniteSet(Adding)
    BY <2>1, FS_Subset DEF LoginAssumption
  <2>3. QED
    BY <2>2, FS_CardinalityType
\* A step that lets no request in and adds none.
<1>2. ASSUME LoginTypes, glossaries' \in Nat, glossaries' <= glossaries, Adding' \subseteq Adding PROVE Rests
  <2> DEFINE A == Adding
             B == Adding'
  <2>1. IsFiniteSet(A) /\ Cardinality(A) \in Nat /\ B \in SUBSET A
    BY <1>1, <1>2
  <2> HIDE DEF A, B
  <2>2. IsFiniteSet(B) /\ Cardinality(B) <= Cardinality(A)
    BY <2>1, FS_Subset
  <2>3. Cardinality(B) \in Nat
    BY <2>2, FS_CardinalityType
  <2>4. glossaries \in Nat
    BY <1>2 DEF LoginTypes
  <2>5. glossaries' + Cardinality(B) <= glossaries + Cardinality(A)
    BY <1>2, <2>1, <2>2, <2>3, <2>4
  <2>6. QED
    BY <2>5 DEF A, B
<1>3. ASSUME LoginTypes, LoginTypes', user.deleted, [LoginNext]_loginVars PROVE Rests
  <2> USE DEF At, Go
  <2>0. req \in [Tabs -> Requests] /\ req' \in [Tabs -> Requests] /\ glossaries \in Nat /\ glossaries' \in Nat
    BY <1>3 DEF LoginTypes
  <2>1. CASE Tick \/ (\E b \in Browsers : LinkExpires(b)) \/ UNCHANGED loginVars
    <3>1. UNCHANGED <<glossaries, req>>
      BY <2>1 DEF Tick, LinkExpires, loginVars, tables
    <3>2. Adding' = Adding
      BY <3>1 DEF Adding
    <3>3. QED
      BY <1>2, <1>3, <2>0, <3>1, <3>2
  <2>2. ASSUME NEW t \in Tabs, Insert(t) PROVE Rests
    <3> DEFINE A == Adding
               B == Adding'
    <3>1. /\ req[t].at = "insert" /\ glossaries' = glossaries + 1 /\ req'[t].at = "done"
          /\ \A u \in Tabs : u # t => req'[u] = req[u]
      BY <2>0, <2>2 DEF Insert, Requests
    <3>2. t \in A /\ B = A \ {t}
      BY <3>1 DEF Adding
    <3>3. IsFiniteSet(A) /\ Cardinality(A) \in Nat
      BY <1>1
    <3> HIDE DEF A, B
    <3>4. Cardinality(B) = Cardinality(A) - 1
      BY <3>2, <3>3, FS_RemoveElement
    <3>5. glossaries' + Cardinality(B) <= glossaries + Cardinality(A)
      BY <2>0, <3>1, <3>3, <3>4
    <3>6. QED
      BY <3>5 DEF A, B
  <2>3. ASSUME NEW t \in Tabs, NEW op \in SignedInOps, Ask(t, op) PROVE FALSE
    BY <1>3, <2>3 DEF Ask, LetIn
  \* What t asked for is no request that may add a glossary, or was one before.
  <2>4. ASSUME NEW t \in Tabs, \A u \in Tabs : u # t => req'[u] = req[u], glossaries' <= glossaries,
               t \in Adding' => t \in Adding
        PROVE  Rests
    <3>1. Adding' \subseteq Adding
      BY <2>4 DEF Adding
    <3>2. QED
      BY <1>2, <1>3, <2>0, <2>4, <3>1
  <2>5. \A op : /\ First(op) \in {"verify", "work", "done"}
                /\ \A at : After(op, at) \in {"erase", "update", "revoke", "destroy", "mint", "done"}
    BY DEF First, After
  <2>6. ASSUME NEW t \in Tabs, Slide(t) PROVE Rests
    <3>1. /\ UNCHANGED glossaries /\ req[t].at = "slide" /\ \A u \in Tabs : u # t => req'[u] = req[u]
          /\ req'[t].at = First(req[t].op) /\ req'[t].op = req[t].op
      BY <2>0, <2>6 DEF Slide, Requests
    <3>2. t \in Adding' => t \in Adding
      BY <2>5, <3>1 DEF Adding
    <3>3. QED
      BY <2>0, <2>4, <3>1, <3>2
  <2>7. ASSUME NEW t \in Tabs, Work(t) PROVE Rests
    <3>1. /\ req[t].at = "work" /\ \A u \in Tabs : u # t => req'[u] = req[u]
          /\ req'[t].op = req[t].op /\ glossaries' <= glossaries
          /\ req'[t].at = "done" \/ (req'[t].at = "insert" /\ req[t].op = "addGlossary")
      BY <2>0, <2>7 DEF Work, Requests
    <3>2. t \in Adding' => t \in Adding
      BY <3>1 DEF Adding
    <3>3. QED
      BY <2>4, <3>1, <3>2
  \* Every other step of t is of a request that does not add, or ends it.
  <2>8. ASSUME NEW t \in Tabs, \A u \in Tabs : u # t => req'[u] = req[u], glossaries' <= glossaries,
               req'[t].at \notin {"slide", "work", "insert"}
        PROVE  Rests
    BY <2>4, <2>8 DEF Adding
  <2>9. ASSUME NEW t \in Tabs, Answer(t) \/ Fail(t) PROVE Rests
    <3>1. UNCHANGED glossaries /\ req' = [req EXCEPT ![t] = NoRequest]
      BY <2>9 DEF Answer, Fail, tables
    <3>2. QED
      BY <2>0, <2>8, <3>1, Constants
  <2>10. ASSUME NEW t \in Tabs, Login(t) \/ Logout(t) PROVE Rests
    <3>1. UNCHANGED glossaries /\ \A u \in Tabs : u # t => req'[u] = req[u]
      BY <2>0, <2>10 DEF Login, Logout, tables
    <3>2. req'[t].at = "destroy"
      <4>1. CASE Login(t)
        BY <2>0, <4>1 DEF Login
      <4>2. CASE Logout(t)
        <5> DEFINE r == [NoRequest EXCEPT !.op = "logout", !.at = "destroy", !.sid = cookie[Browser(t)].id]
        <5>1. r.at = "destroy"
          BY DEF NoRequest
        <5>2. req' = [req EXCEPT ![t] = r]
          BY <4>2 DEF Logout
        <5> HIDE DEF r
        <5>3. QED
          BY <2>0, <5>1, <5>2
      <4>3. QED
        BY <2>10, <4>1, <4>2
    <3>3. QED
      BY <2>0, <2>8, <3>1, <3>2
  <2>11. ASSUME NEW t \in Tabs, Forgot(t) PROVE Rests
    <3>1. UNCHANGED <<glossaries, req>>
      BY <2>11 DEF Forgot, tables
    <3>2. QED
      BY <2>0, <2>4, <3>1 DEF Adding
  <2>12. ASSUME NEW t \in Tabs, NEW link \in links, Reset(t, link) PROVE Rests
    <3>1. UNCHANGED glossaries /\ \A u \in Tabs : u # t => req'[u] = req[u]
      BY <2>0, <2>12 DEF Reset, tables
    <3>2. req'[t] = req[t] \/ req'[t].at = "verify"
      BY <2>0, <2>12 DEF Reset, NoRequest
    <3>3. QED
      BY <2>0, <2>4, <2>8, <3>1, <3>2 DEF Adding
  <2>13. ASSUME NEW t \in Tabs, Verify(t) \/ Update(t) \/ Revoke(t) \/ Destroy(t) \/ Mint(t) \/ Erase(t) PROVE Rests
    <3>1. glossaries' <= glossaries /\ \A u \in Tabs : u # t => req'[u] = req[u]
      BY <2>0, <2>13 DEF Verify, Update, Revoke, Destroy, Mint, Erase, tables
    <3>2. req'[t].at \in {"erase", "update", "revoke", "destroy", "mint", "done"}
      <4>1. Verify(t) => req'[t].at \in {"erase", "update", "revoke", "destroy", "mint", "done"}
        BY <2>0, <2>5 DEF Verify, Requests
      <4>2. Update(t) => req'[t].at \in {"erase", "update", "revoke", "destroy", "mint", "done"}
        <5>1. \A op : After(op, "update") = "revoke"
          BY DEF After
        <5>2. Update(t) => \/ req' = [req EXCEPT ![t].at = "revoke"]
                            \/ \E p : req' = [req EXCEPT ![t].at = "revoke", ![t].knows = p]
          BY <5>1 DEF Update, Go
        <5>3. QED
          BY <2>0, <5>2 DEF Requests
      <4>3. Revoke(t) \/ Destroy(t) => req'[t].at \in {"erase", "update", "revoke", "destroy", "mint", "done"}
        <5>1. CASE Revoke(t)
          BY <2>0, <2>5, <5>1 DEF Revoke, Requests
        <5>2. CASE Destroy(t)
          BY <2>0, <2>5, <5>2 DEF Destroy, Requests
        <5>3. QED
          BY <5>1, <5>2
      <4>4. Mint(t) \/ Erase(t) => req'[t].at \in {"erase", "update", "revoke", "destroy", "mint", "done"}
        <5>1. CASE Mint(t)
          BY <2>0, <5>1 DEF Mint, Requests
        <5>2. CASE Erase(t)
          <6>1. After("delete", "erase") = "update"
            BY DEF After
          <6>2. req' = [req EXCEPT ![t].at = "update"]
            BY <5>2, <6>1 DEF Erase
          <6>3. QED
            BY <2>0, <6>2 DEF Requests
        <5>3. QED
          BY <5>1, <5>2
      <4>5. QED
        BY <2>13, <4>1, <4>2, <4>3, <4>4
    <3>3. QED
      BY <2>8, <3>1, <3>2
  <2>14. QED
    BY <1>3, <2>1, <2>2, <2>3, <2>6, <2>7, <2>9, <2>10, <2>11, <2>12, <2>13 DEF LoginNext
<1>4. QED
  BY <1>3, LoginAlways, PTL DEF LoginSpec, ClosedAccountRests, LoginInv

\* A session that was dropped stays so: a request that had read it renews its row only if
\* there is one, and a new session has a new id (session.ts:105-118).
THEOREM LoginDeadStaysDead == LoginSpec => DeadStaysDead
<1> DEFINE Dead == \A id \in 1..opened : id \notin Ids => id \notin {s.id : s \in sessions'}
<1>1. ASSUME LoginInv, [LoginNext]_loginVars PROVE Dead
  <2>1. CASE \E t \in Tabs : Mint(t)
    BY <1>1, <2>1 DEF Mint, Ids, LoginInv, LoginTypes
  <2>2. CASE \E t \in Tabs : Slide(t)
    BY <1>1, <2>2 DEF Slide, Renewed, Ids, LoginInv, LoginTypes, Rows
  <2>3. CASE sessions' \subseteq sessions
    BY <2>3 DEF Ids
  <2>4. QED
    BY <1>1, <2>1, <2>2, <2>3
    DEF LoginNext, Tick, LinkExpires, Ask, Answer, Fail, Login, Logout, Forgot, Reset, Verify, Update, Revoke,
        Revoked, Destroy, Work, Insert, Erase, tables, loginVars
<1>2. QED
  BY <1>1, LoginAlways, PTL DEF LoginSpec, DeadStaysDead
=============================================================================
