------------------------------- MODULE Studio -------------------------------
(***************************************************************************)
(* The studio page and its socket: apps/web/app/(app)/app/studio/          *)
(* studio-client.tsx, lib/studio/relay-client.ts and lib/studio/mic.ts,    *)
(* with the relay's end of the socket (apps/relay/src/server.ts,           *)
(* handleStudio) down to the actor, which here only hears and ends.        *)
(*                                                                         *)
(* start() awaits the server and then the microphone, while the socket     *)
(* opens, fails and closes on its own: what it has started goes on when    *)
(* the session is over by then, when the page is left, or when the user    *)
(* has started again.  Each press of START is an attempt with a client, a  *)
(* socket and a microphone of its own.                                     *)
(*                                                                         *)
(* A socket delivers in order; one that breaks loses what is under way,    *)
(* and each end learns of it in its own time.  A browser delivers nothing  *)
(* after its own close().                                                  *)
(***************************************************************************)
EXTENDS Integers, Sequences, Functions

CONSTANTS
  MaxBuffered,  \* MAX_BUFFERED_FRAMES
  FrameLimit,   \* MAX_AUDIO_FRAMES_PER_SECOND
  MaxStarts,    \* bound on the attempts, for model checking only
  MaxFrames     \* bound on the audio frames of a run, for model checking only

ASSUME StudioAssumption ==
  /\ MaxBuffered \in Nat /\ FrameLimit \in Nat \ {0}
  /\ MaxStarts \in Nat /\ MaxFrames \in Nat

VARIABLES
  status,    \* what the page shows: "idle", "starting", "live", "ended"
  mounted,   \* the page has not been left
  current,   \* relayRef: an attempt, or 0
  recorder,  \* micRef: an attempt, or 0
  closing,   \* who awaits the end of a microphone that is stopped: "stop", "end", "fail"; or ""
  starts,    \* attempts so far
  phase,     \* what start() of each attempt waits for: "fetch", "mic"; else "over"
  client,    \* RelayClient.state of each
  buffered,  \* RelayClient.buffered
  sock,      \* the browser's WebSocket
  mic,       \* "off", "on", or "lit": the stream is open but feeds nobody
  frames,    \* frames each microphone has given
  up,        \* what its socket carries to the relay
  down,      \* and back: "", "end" or "close"
  relay,     \* the relay's end of it
  inWindow,  \* frames of its current second
  heard,     \* the frames it has heard
  \* History, for the properties only:
  confused,  \* the page has taken the end of one attempt for that of another, or missed one
  lost       \* attempts whose connection ended while the page was live

ui == <<status, mounted, current, recorder, closing>>
browser == <<phase, client, buffered, sock, mic, frames>>
wire == <<up, down>>
server == <<relay, inWindow, heard>>
history == <<confused, lost>>
vars == <<ui, starts, browser, wire, server, history>>

Attempts == 1..MaxStarts
Hello == [t |-> "hello", n |-> 0]
Audio(n) == [t |-> "audio", n |-> n]
Bye == [t |-> "bye", n |-> 0]

Init ==
  /\ status = "idle" /\ mounted = TRUE /\ current = 0 /\ recorder = 0
  /\ closing = [k \in Attempts |-> ""] /\ starts = 0
  /\ phase = [k \in Attempts |-> "over"]
  /\ client = [k \in Attempts |-> "idle"]
  /\ buffered = [k \in Attempts |-> <<>>]
  /\ sock = [k \in Attempts |-> "none"]
  /\ mic = [k \in Attempts |-> "off"]
  /\ frames = [k \in Attempts |-> 0]
  /\ up = [k \in Attempts |-> <<>>] /\ down = [k \in Attempts |-> ""]
  /\ relay = [k \in Attempts |-> "none"]
  /\ inWindow = [k \in Attempts |-> 0] /\ heard = [k \in Attempts |-> <<>>]
  /\ confused = FALSE /\ lost = {}

Set(f, k, v) == [f EXCEPT ![k] = v]
Append1(q, k, m) == [q EXCEPT ![k] = Append(@, m)]

-----------------------------------------------------------------------------
(* The page                                                                *)

\* RelayClient.close() of the attempt that relayRef holds, if it holds one.
CloseClient ==
  IF current = 0 THEN UNCHANGED <<client, sock>>
  ELSE /\ client' = Set(client, current, "closed")
       /\ sock' = IF sock[current] \in {"connecting", "open"} THEN Set(sock, current, "closing")
                  ELSE sock

\* MicStream.stop()
Stopped == IF recorder = 0 THEN mic ELSE Set(mic, recorder, "off")

\* teardown(), as far as its await of that stop(); a second stop() of the same
\* microphone rejects, and nothing follows.
Teardown(by) ==
  /\ CloseClient /\ current' = 0
  /\ closing' = IF recorder # 0 /\ mic[recorder] = "on" THEN Set(closing, recorder, by)
                ELSE closing
  /\ UNCHANGED recorder

\* The microphone is closed: teardown() clears what micRef holds by now, and what
\* awaited it goes on.  A stop() or a catch that outlasts its session takes the next
\* one's microphone out of reach, or its end for the next one's.
MicCloses(k) ==
  /\ closing[k] # ""
  /\ closing' = Set(closing, k, "") /\ recorder' = 0
  /\ status' = CASE closing[k] = "stop" -> "ended"
                 [] closing[k] = "fail" -> "idle"
                 [] closing[k] = "end" -> status
  /\ confused' = \/ confused \/ recorder \notin {0, k}
                 \/ closing[k] # "end" /\ \E j \in Attempts : phase[j] # "over"
  /\ UNCHANGED <<mounted, current, starts, browser, wire, server, lost>>

\* start(), up to the answer of /api/session/start.
Start ==
  /\ mounted /\ status \in {"idle", "ended"} /\ starts < MaxStarts
  /\ status' = "starting" /\ starts' = starts + 1
  /\ phase' = Set(phase, starts + 1, "fetch")
  /\ confused' = (confused \/ \E k \in Attempts : phase[k] # "over")
  /\ UNCHANGED <<mounted, current, recorder, closing, client, buffered, sock, mic, frames,
                 wire, server, lost>>

\* The request fails, or is refused.
NotStarted(k) ==
  /\ phase[k] = "fetch"
  /\ phase' = Set(phase, k, "over") /\ status' = "idle"
  /\ UNCHANGED <<mounted, current, recorder, closing, starts, client, buffered, sock, mic,
                 frames, wire, server, history>>

\* The client is made and connects, and the microphone is asked for.
Connect(k) ==
  /\ phase[k] = "fetch"
  /\ phase' = Set(phase, k, "mic") /\ current' = k
  /\ client' = Set(client, k, "connecting") /\ sock' = Set(sock, k, "connecting")
  /\ UNCHANGED <<status, mounted, recorder, closing, starts, buffered, mic, frames, wire,
                 server, history>>

\* The microphone is there, whatever has become of the session and of the page.
MicOpens(k) ==
  /\ phase[k] = "mic"
  /\ phase' = Set(phase, k, "over") /\ mic' = Set(mic, k, "on") /\ recorder' = k
  /\ status' = "live"
  /\ confused' = (confused \/ client[k] = "closed")
  /\ UNCHANGED <<mounted, current, closing, starts, client, buffered, sock, frames, wire,
                 server, lost>>

\* It is refused, or the worklet cannot be loaded and the stream stays open.  The
\* page is idle once a microphone that is still there has closed; where that one is
\* closing already the catch throws, and it never is.
MicFails(k) ==
  /\ phase[k] = "mic"
  /\ phase' = Set(phase, k, "over")
  /\ Teardown("fail") /\ \E m \in {"off", "lit"} : mic' = Set(Stopped, k, m)
  /\ status' = IF recorder = 0 THEN "idle" ELSE status
  /\ confused' = (confused \/ (recorder # 0 /\ mic[recorder] # "on"))
  /\ UNCHANGED <<mounted, starts, buffered, frames, wire, server, lost>>

\* stop(): bye on a socket that is open, and then everything is closed; the page
\* shows that it has ended when the microphone has.
Stop ==
  /\ mounted /\ status = "live"
  /\ up' = IF current # 0 /\ sock[current] = "open" THEN Append1(up, current, Bye) ELSE up
  /\ Teardown("stop") /\ mic' = Stopped
  /\ status' = IF recorder = 0 THEN "ended" ELSE status
  /\ UNCHANGED <<mounted, starts, phase, buffered, frames, down, server, history>>

\* The page is left: the effect's cleanup closes what the references hold.
Leave ==
  /\ mounted /\ mounted' = FALSE
  /\ CloseClient /\ mic' = Stopped
  /\ UNCHANGED <<status, current, recorder, closing, starts, phase, buffered, frames, wire,
                 server, history>>

-----------------------------------------------------------------------------
(* The client                                                              *)

Buffered(k, n) ==
  LET q == Append(buffered[k], n) IN IF Len(q) > MaxBuffered THEN Tail(q) ELSE q

\* sendAudio() of the next frame of the microphone.
Frame(k) ==
  LET n == frames[k] + 1
  IN /\ mic[k] = "on" /\ FoldFunction(LAMBDA a, b : a + b, 0, frames) < MaxFrames
     /\ frames' = Set(frames, k, n)
     /\ \/ client[k] = "closed" /\ UNCHANGED <<buffered, up>>
        \/ client[k] = "live" /\ up' = Append1(up, k, Audio(n)) /\ UNCHANGED buffered
        \/ /\ client[k] \notin {"closed", "live"}
           /\ buffered' = Set(buffered, k, Buffered(k, n)) /\ UNCHANGED up
     /\ UNCHANGED <<ui, starts, phase, client, sock, mic, down, server, history>>

\* Faulty variant: what was buffered goes first.
OpeningSwapped(k) == [i \in 1..Len(buffered[k]) |-> Audio(buffered[k][i])] \o <<Hello>>

\* onopen: hello, then flushBuffer().
Opening(k) == <<Hello>> \o [i \in 1..Len(buffered[k]) |-> Audio(buffered[k][i])]

\* The socket opens; the relay may refuse it: it drains, or there are too many.
SocketOpens(k) ==
  /\ sock[k] = "connecting"
  /\ sock' = Set(sock, k, "open") /\ client' = Set(client, k, "live")
  /\ up' = Set(up, k, Opening(k)) /\ buffered' = Set(buffered, k, <<>>)
  /\ \/ relay' = Set(relay, k, "greeting") /\ UNCHANGED down
     \/ relay' = Set(relay, k, "over") /\ down' = Set(down, k, "close")
  /\ UNCHANGED <<ui, starts, phase, mic, frames, inWindow, heard, history>>

\* Faulty variant: the page does not hear of the end of its connection.
AfterCloseNever == status

\* onClosed
AfterClose == IF status = "live" THEN "ended" ELSE status

\* onclose: the connection is lost, or refused; the closing handshake is over;
\* or the relay has closed.  The page does not ask which attempt it was.
SocketCloses(k) ==
  /\ \/ sock[k] \in {"connecting", "open", "closing"} /\ up' = Set(up, k, <<>>)
     \/ sock[k] = "open" /\ down[k] = "close" /\ UNCHANGED up
  /\ sock' = Set(sock, k, "closed") /\ client' = Set(client, k, "closed")
  /\ down' = Set(down, k, "") /\ buffered' = Set(buffered, k, <<>>)
  /\ status' = AfterClose
  /\ lost' = IF status = "live" /\ recorder # 0 THEN lost \cup {recorder} ELSE lost
  /\ confused' = (confused \/ (status = "live" /\ current \notin {0, k}))
  /\ UNCHANGED <<mounted, current, recorder, closing, starts, phase, mic, frames, server>>

\* onEnd
Ended(k) ==
  /\ sock[k] = "open" /\ down[k] = "end"
  /\ status' = "ended" /\ Teardown("end") /\ mic' = Stopped
  /\ down' = Set(down, k, "close")
  /\ UNCHANGED <<mounted, starts, phase, buffered, frames, up, server, history>>

-----------------------------------------------------------------------------
(* The relay                                                               *)

CloseFromRelay(k) == relay' = Set(relay, k, "over") /\ down' = Set(down, k, "close")
EndFromRelay(k) == relay' = Set(relay, k, "over") /\ down' = Set(down, k, "end")

\* acceptFrame(): a frame begins a new second or counts in the current one, of which
\* the actor hears the first FrameLimit.
AcceptFrame(k, n) ==
  \E count \in {1, inWindow[k] + 1} :
    /\ inWindow' = Set(inWindow, k, count)
    /\ heard' = IF count <= FrameLimit THEN Append1(heard, k, n) ELSE heard

\* on('message'): audio is refused before hello, dropped until there is an
\* actor, and its own after; a control message for an actor that is not there is lost.
Deliver(k) ==
  LET m == Head(up[k])
  IN /\ up[k] # <<>> /\ up' = [up EXCEPT ![k] = Tail(@)]
     /\ \/ /\ relay[k] = "greeting" /\ m.t = "hello"
           /\ relay' = Set(relay, k, "verifying") /\ UNCHANGED <<down, inWindow, heard>>
        \/ /\ relay[k] = "greeting" /\ m.t # "hello"
           /\ relay' = Set(relay, k, "refused") /\ down' = Set(down, k, "close")
           /\ UNCHANGED <<inWindow, heard>>
        \/ /\ relay[k] = "running" /\ m.t = "audio"
           /\ AcceptFrame(k, m.n) /\ UNCHANGED <<relay, down>>
        \/ /\ relay[k] = "running" /\ m.t = "bye"
           /\ EndFromRelay(k) /\ UNCHANGED <<inWindow, heard>>
        \/ /\ relay[k] \notin {"greeting", "running"} \/ (relay[k] = "running" /\ m.t = "hello")
           /\ UNCHANGED <<relay, down, inWindow, heard>>
     /\ UNCHANGED <<ui, starts, browser, history>>

\* completeStudioHandshake(): the token holds and the actor starts, even for a
\* socket that has closed meanwhile; or the socket is closed.  A hello that does
\* not come is not waited for longer than HANDSHAKE_TIMEOUT_MS.
Handshake(k) ==
  /\ \/ relay[k] = "verifying" /\ relay' = Set(relay, k, "running") /\ UNCHANGED down
     \/ relay[k] = "left" /\ relay' = Set(relay, k, "alone") /\ UNCHANGED down
     \/ relay[k] \in {"verifying", "greeting"} /\ CloseFromRelay(k)
     \/ relay[k] = "left" /\ relay' = Set(relay, k, "over") /\ UNCHANGED down
  /\ UNCHANGED <<ui, starts, browser, up, inWindow, heard, history>>

\* The actor ends on its own: no credits, no sound, an upstream lost, a drain.
ActorEnds(k) ==
  /\ \/ relay[k] = "running" /\ EndFromRelay(k)
     \/ relay[k] = "alone" /\ relay' = Set(relay, k, "over") /\ UNCHANGED down
  /\ UNCHANGED <<ui, starts, browser, up, inWindow, heard, history>>

\* Faulty variant: nobody tells the actor that its studio has gone.
AfterGoneKept(state) == state

AfterGone(state) == IF state = "verifying" THEN "left" ELSE "over"

\* on('close'): all that the socket carried has been read, or is lost.
RelaySeesClose(k) ==
  /\ sock[k] \in {"closing", "closed"} /\ up[k] = <<>>
  /\ relay[k] \in {"greeting", "verifying", "running"}
  /\ relay' = Set(relay, k, AfterGone(relay[k]))
  /\ UNCHANGED <<ui, starts, browser, wire, inWindow, heard, history>>

-----------------------------------------------------------------------------
Next ==
  \/ Start \/ Stop \/ Leave
  \/ \E k \in Attempts :
       \/ NotStarted(k) \/ Connect(k) \/ MicOpens(k) \/ MicFails(k) \/ MicCloses(k)
       \/ Frame(k)
       \/ SocketOpens(k) \/ SocketCloses(k) \/ Ended(k)
       \/ Deliver(k) \/ Handshake(k) \/ ActorEnds(k) \/ RelaySeesClose(k)

Spec == Init /\ [][Next]_vars

\* What a socket carries is read, and the relay learns of one that has closed.
FairSpec ==
  /\ Spec
  /\ \A k \in Attempts : WF_vars(Deliver(k)) /\ WF_vars(RelaySeesClose(k))

-----------------------------------------------------------------------------
(* Properties                                                              *)

\* Types.
TypeOK ==
  /\ status \in {"idle", "starting", "live", "ended"} /\ mounted \in BOOLEAN
  /\ current \in 0..MaxStarts /\ recorder \in 0..MaxStarts
  /\ closing \in [Attempts -> {"", "stop", "end", "fail"}] /\ starts \in 0..MaxStarts
  /\ phase \in [Attempts -> {"fetch", "mic", "over"}]
  /\ client \in [Attempts -> {"idle", "connecting", "live", "closed"}]
  /\ sock \in [Attempts -> {"none", "connecting", "open", "closing", "closed"}]
  /\ mic \in [Attempts -> {"off", "on", "lit"}]
  /\ frames \in [Attempts -> 0..MaxFrames]
  /\ down \in [Attempts -> {"", "end", "close"}]
  /\ relay \in [Attempts -> {"none", "greeting", "verifying", "running", "left", "alone",
                             "refused", "over"}]
  /\ inWindow \in [Attempts -> 0..MaxFrames]
  /\ confused \in BOOLEAN /\ lost \subseteq Attempts

\* "Frames that land in that window are dropped, never treated as a protocol
\* violation - closing the socket here would kill every session at start-up"
\* (server.ts:202-206): whenever the microphone and the socket open, in either
\* order, hello is the first thing that the relay reads.  What the actor hears comes
\* in order, each frame once, and after the first it misses none but what a second
\* brings beyond its limit (session-actor.ts:455-464): where it has missed some it has
\* heard the FrameLimit frames before them without a gap.  All else that is lost is
\* lost before the first, to the buffer or to the handshake (relay-client.ts:95-104).
HeardUnbroken ==
  \A k \in Attempts :
    /\ relay[k] # "refused"
    /\ \A i \in 1..(Len(heard[k]) - 1) :
         /\ heard[k][i] < heard[k][i + 1]
         /\ heard[k][i + 1] # heard[k][i] + 1 =>
              /\ i >= FrameLimit
              /\ \A j \in (i - FrameLimit + 1)..(i - 1) : heard[k][j + 1] = heard[k][j] + 1

\* What the page shows is what there is (studio-client.tsx:143-149, 199-232): live means
\* a client that is not closed, or a STOP that awaits its microphone; starting, a start()
\* that goes on; idle or ended, that every client is closed and no microphone is on.
\* It goes wrong in five ways, four of which are `confused`.  The end of a session that
\* comes while the microphone is awaited is forgotten when it opens; the end of an earlier
\* attempt is taken for that of this one; a microphone that is still closing when START
\* is pressed again ends that attempt on the screen, or takes the place of its own; one
\* that is refused by then leaves the page starting for good; and a connection that is
\* lost leaves its microphone on.
ScreenIsTrue ==
  (mounted /\ ~confused) =>
    /\ status = "live" => \/ current # 0 /\ client[current] # "closed"
                          \/ recorder # 0 /\ closing[recorder] = "stop"
    /\ status = "starting" => \E k \in Attempts : phase[k] # "over" \/ closing[k] = "fail"
    /\ status \in {"idle", "ended"} =>
         \A k \in Attempts : /\ client[k] \in {"idle", "closed"}
                             /\ mic[k] = "on" => k \in lost

\* A session whose studio has gone is closed (server.ts:244-247).
GoneIsClosed ==
  \A k \in Attempts : (relay[k] = "running" /\ sock[k] = "closed") ~> relay[k] = "over"
=============================================================================
