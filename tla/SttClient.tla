----------------------------- MODULE SttClient -----------------------------
(***************************************************************************)
(* The transcription upstream of one session                               *)
(* (apps/relay/src/providers/elevenlabs-stt.ts, class ElevenLabsSttClient, *)
(* over providers/socket.ts, and SessionActor.onSttError, which closes the *)
(* session and with it the client).                                        *)
(*                                                                         *)
(* The client holds one connection in `socket` and forgets it when any of  *)
(* its connections reports a failure.  What it forgets is not closed: a    *)
(* connection that is still alive is then in `lost`, and its callbacks go  *)
(* on calling the client.  Connections are counted, and not told apart.    *)
(*                                                                         *)
(* `ws` reports a connection that could not be made by 'error' and then    *)
(* 'close', and one that breaks by 'close', with an 'error' before it or   *)
(* not.  socket.ts passes both on, and both call handleDrop.               *)
(*                                                                         *)
(* Transcripts and audio change nothing here and are left out.             *)
(***************************************************************************)
EXTENDS Integers

CONSTANTS
  MaxAttempts,   \* MAX_RECONNECT_ATTEMPTS
  MaxOpens       \* bound on the connections that open, for model checking only

ASSUME SttAssumption ==
  /\ MaxAttempts \in Nat \ {0}
  /\ MaxOpens \in Nat

VARIABLES
  client,   \* the fields of the client and of its connections, one record:
            \*   socket   this.socket: "null", "connecting" or "open"
            \*   lost     connections alive that this.socket no longer holds
            \*   attempt  consecutive drops
            \*   retry    the timer of retryHandle is pending
            \*   older    timers set before it that are pending
            \*   stopped
            \*   gaveUp   FATAL was reported because a connection dropped
  opens,    \* connections that have opened
  failed    \* history: connections of the session that have ended since one last opened

sttVars == <<client, opens, failed>>

Alive == {"connecting", "open"}

\* SessionActor.start() has called start(): the first connection is being made.
SttInit ==
  /\ client = [socket |-> "connecting", lost |-> [k \in Alive |-> 0], attempt |-> 0,
               retry |-> FALSE, older |-> 0, stopped |-> FALSE, gaveUp |-> FALSE]
  /\ opens = 0 /\ failed = 0

-----------------------------------------------------------------------------

\* close(): the timer of retryHandle is cleared and the socket held is closed.
Closed(c) == [c EXCEPT !.stopped = TRUE, !.retry = FALSE, !.socket = "null"]

\* `this.socket` is overwritten: a live connection it held is lost.
Forgets(c) ==
  IF c.socket = "null" THEN c ELSE [c EXCEPT !.lost[c.socket] = @ + 1, !.socket = "null"]

Retries(c) ==
  [Forgets(c) EXCEPT !.attempt = @ + 1, !.retry = TRUE, !.older = @ + (IF c.retry THEN 1 ELSE 0)]

\* FATAL: the session actor closes, and closes the client at once.
GivesUp(c) == Closed([Forgets(c) EXCEPT !.gaveUp = TRUE])

\* Faulty variant: a drop is ignored while the client is reconnecting.
DroppedOnce(c) == IF c.stopped \/ c.attempt > 0 THEN c ELSE Retries(c)

\* handleDrop()
Dropped(c) ==
  IF c.stopped THEN c ELSE IF c.attempt >= MaxAttempts THEN GivesUp(c) ELSE Retries(c)

\* The connections there are, as what is left of the client without one of them.
Without(kind) ==
  (IF client.socket = kind THEN {[client EXCEPT !.socket = "null"]} ELSE {})
    \cup (IF client.lost[kind] > 0 THEN {[client EXCEPT !.lost[kind] = @ - 1]} ELSE {})

\* A connection cannot be made: 'error', and then 'close'.
CannotConnect ==
  /\ \E rest \in Without("connecting") : client' = Dropped(Dropped(rest))
  /\ failed' = IF client.stopped THEN failed ELSE failed + 1
  /\ UNCHANGED opens

\* An open connection ends: 'close', after an 'error' or not.
Breaks ==
  /\ \E rest \in Without("open") : client' \in {Dropped(rest), Dropped(Dropped(rest))}
  /\ failed' = IF client.stopped THEN failed ELSE failed + 1
  /\ UNCHANGED opens

\* onOpen() of the connection held, or of a lost one, starts a new budget.
Opened ==
  (IF client.socket = "connecting" THEN {[client EXCEPT !.socket = "open", !.attempt = 0]} ELSE {})
    \cup (IF client.lost["connecting"] > 0
          THEN {[client EXCEPT !.lost["connecting"] = @ - 1, !.lost["open"] = @ + 1, !.attempt = 0]}
          ELSE {})

Opens ==
  /\ opens < MaxOpens
  /\ client' \in Opened
  /\ opens' = opens + 1
  /\ failed' = IF client.stopped THEN failed ELSE 0

\* Faulty variant: a timer that close() did not clear connects.
ConnectsAnyway(c) == [Forgets(c) EXCEPT !.socket = "connecting"]

\* connect(), from a timer: whatever `socket` held is overwritten.
Connects(c) == IF c.stopped THEN c ELSE [Forgets(c) EXCEPT !.socket = "connecting"]

TimerFires ==
  /\ \/ client.retry /\ client' = Connects([client EXCEPT !.retry = FALSE])
     \/ client.older > 0 /\ client' = Connects([client EXCEPT !.older = @ - 1])
  /\ UNCHANGED <<opens, failed>>

\* The provider refuses in a message (a quota, a key): FATAL without a retry.
Refused ==
  /\ Without("open") # {}
  /\ ~client.stopped
  /\ client' = Closed(client)
  /\ UNCHANGED <<opens, failed>>

\* The session ends for a reason of its own.
SessionEnds ==
  /\ ~client.stopped
  /\ client' = Closed(client)
  /\ UNCHANGED <<opens, failed>>

-----------------------------------------------------------------------------
SttNext == CannotConnect \/ Breaks \/ Opens \/ TimerFires \/ Refused \/ SessionEnds

SttSpec == SttInit /\ [][SttNext]_sttVars

\* A handshake comes to an end, and a timer that is set fires.
SttFairSpec == SttSpec /\ WF_sttVars(CannotConnect \/ Opens) /\ WF_sttVars(TimerFires)

-----------------------------------------------------------------------------
(* Properties                                                              *)

\* Types.
SttTypeOK ==
  /\ client \in [socket : {"null"} \cup Alive, lost : [Alive -> Nat], attempt : 0..MaxAttempts,
                 retry : BOOLEAN, older : Nat, stopped : BOOLEAN, gaveUp : BOOLEAN]
  /\ client.stopped => client.socket = "null" /\ ~client.retry
  /\ opens \in 0..MaxOpens /\ failed \in Nat

\* The session is given up only after several connections in a row have failed, half
\* the budget at least: a connection that opens earns a new budget, and a connection
\* costs no more than its two reports (elevenlabs-stt.ts:174-182, 191-199).
GivesUpLate == client.gaveUp => 2 * failed > MaxAttempts

\* A timer that close() did not know of connects nothing: once the session is over
\* no connection is made, and the lost ones only ever end
\* (elevenlabs-stt.ts:151-161).
Connections == client.lost["connecting"] + client.lost["open"] + (IF client.socket = "null" THEN 0 ELSE 1)
OverIsOver == [][client.stopped => Connections' <= Connections]_sttVars

\* Under FairSpec a session never stays without transcription: through any overlap of
\* failures, timers and late openings it has an open connection again, or it ends
\* (elevenlabs-stt.ts:187-204).
HeardOrOver == ~client.stopped ~> client.socket = "open" \/ client.stopped

=============================================================================
