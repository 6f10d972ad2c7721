------------------------------- MODULE Relay -------------------------------
(***************************************************************************)
(* The sessions of one user, from POST /api/session/start to their end     *)
(* (apps/web/app/api/session/start/route.ts, apps/web/lib/server/redis.ts, *)
(* apps/relay/src/server.ts, auth.ts, registry.ts and index.ts), and the   *)
(* drain of the relay that runs them.                                      *)
(*                                                                         *)
(* A session passes the plan limit twice: the counter conc:{user} when it  *)
(* starts, and the registry of the relay when it is dialled.  What happens *)
(* inside a running session is Meter, Translations, Projector and          *)
(* SttClient; here a session that closes is "draining" until it is settled.*)
(* The relay's registry holds the sessions that are running or draining.   *)
(*                                                                         *)
(* A close of the studio's socket by the relay takes effect at once.       *)
(***************************************************************************)
EXTENDS Naturals, FiniteSets

CONSTANTS
  Sessions,   \* sessions the user may start
  Limit       \* maxConcurrentSessions of the plan

ASSUME RelayAssumption ==
  /\ IsFiniteSet(Sessions)
  /\ Limit \in Nat \ {0}

VARIABLES
  phase,      \* of each session
  connected,  \* sessions whose studio socket is open
  slots,      \* the counter conc:{user}
  relay,      \* where shutdown() of the relay is
  awaited,    \* sessions closeAll() waits for
  late,       \* history: sessions registered when the drain no longer looks
  expired     \* history: conc:{user} has expired

relayVars == <<phase, connected, slots, relay, awaited, late, expired>>

Phases == {"new", "starting", "minted", "dialled", "verifying", "creating", "running",
           "draining", "settled", "turnedAway"}
Stages == {"up", "draining", "closingAll", "closing", "exited"}

In(ps) == {s \in Sessions : phase[s] \in ps}
Registered == In({"running", "draining"})
Goes(s, p) == phase' = [phase EXCEPT ![s] = p]

RelayInit ==
  /\ phase = [s \in Sessions |-> "new"]
  /\ connected = {} /\ slots = 0
  /\ relay = "up" /\ awaited = {} /\ late = {}
  /\ expired = FALSE

-----------------------------------------------------------------------------
(* POST /api/session/start                                                 *)

SlotIsFree == slots < Limit

\* acquireConcurrencySlot(), one script in Redis.  Without a slot nothing changes.
Start(s) ==
  /\ phase[s] = "new"
  /\ SlotIsFree
  /\ slots' = slots + 1
  /\ Goes(s, "starting")
  /\ UNCHANGED <<connected, relay, awaited, late, expired>>

\* The row is inserted and the JWT is signed and answered.
Minted(s) ==
  /\ phase[s] = "starting"
  /\ Goes(s, "minted")
  /\ UNCHANGED <<connected, slots, relay, awaited, late, expired>>

\* One of them fails: the slot is released.
MintFails(s) ==
  /\ phase[s] = "starting"
  /\ slots' = IF slots > 0 THEN slots - 1 ELSE 0
  /\ Goes(s, "turnedAway")
  /\ UNCHANGED <<connected, relay, awaited, late, expired>>

\* The key has a TTL, renewed by each start, far longer than a start and a JWT last.
SlotsExpire ==
  /\ slots > 0
  /\ In({"starting", "minted", "dialled", "verifying", "creating"}) = {}
  /\ slots' = 0 /\ expired' = TRUE
  /\ UNCHANGED <<phase, connected, relay, awaited, late>>

-----------------------------------------------------------------------------
(* The handshake                                                           *)

\* The studio connects; a relay that drains turns it away.
Dial(s) ==
  /\ phase[s] = "minted"
  /\ IF relay = "up"
       THEN Goes(s, "dialled") /\ connected' = connected \cup {s}
       ELSE Goes(s, "turnedAway") /\ UNCHANGED connected
  /\ UNCHANGED <<slots, relay, awaited, late, expired>>

\* The studio never connects, and the JWT expires.
Lapses(s) ==
  /\ phase[s] = "minted"
  /\ Goes(s, "turnedAway")
  /\ UNCHANGED <<connected, slots, relay, awaited, late, expired>>

Leaves(s, p) ==
  /\ Goes(s, p)
  /\ connected' = connected \ {s}
  /\ UNCHANGED <<slots, relay, awaited, late, expired>>

\* The relay turns the session away, for a reason of the studio's or its own.
TurnedAway(s) == Leaves(s, "turnedAway")

\* `hello` is late, or what comes is no `hello`.
NoHello(s) == relay # "exited" /\ phase[s] = "dialled" /\ TurnedAway(s)

Hello(s) ==
  /\ relay # "exited"
  /\ phase[s] = "dialled"
  /\ Goes(s, "verifying")
  /\ UNCHANGED <<connected, slots, relay, awaited, late, expired>>

\* Faulty variant: the gate of the relay is not there.
NoGate == TRUE

\* The plan gate: the sessions of the user that the relay runs.
Gate == Cardinality(Registered) < Limit

\* verifySessionJwt() has answered: the gate, and the call of createSession().
Verified(s) ==
  /\ relay # "exited"
  /\ phase[s] = "verifying"
  /\ \/ TurnedAway(s)
     \/ /\ Gate
        /\ Goes(s, "creating")
        /\ UNCHANGED <<connected, slots, relay, awaited, late, expired>>

\* createSession() has answered: the session is registered and starts, whether the
\* studio is still there or not.
Created(s) ==
  /\ relay # "exited"
  /\ phase[s] = "creating"
  /\ \/ TurnedAway(s)
     \/ /\ Goes(s, "running")
        /\ late' = IF relay \in {"closingAll", "closing"} THEN late \cup {s} ELSE late
        /\ UNCHANGED <<connected, slots, relay, awaited, expired>>

-----------------------------------------------------------------------------
(* The session                                                             *)

\* The studio's socket closes.  A handshake under way knows nothing of it.
Hangup(s) ==
  /\ relay # "exited"
  /\ s \in connected
  /\ connected' = connected \ {s}
  /\ phase' = [phase EXCEPT ![s] = CASE @ = "dialled" -> "turnedAway"
                                     [] @ = "running" -> "draining"
                                     [] OTHER -> @]
  /\ UNCHANGED <<slots, relay, awaited, late, expired>>

\* close(): the user stops, the credits are spent, or transcription is given up.
Closes(s) ==
  /\ relay # "exited"
  /\ phase[s] = "running"
  /\ Goes(s, "draining")
  /\ UNCHANGED <<connected, slots, relay, awaited, late, expired>>

\* performClose() ends: the meter has settled, the socket is closed, and the session
\* leaves the registry.
Settled(s) ==
  /\ relay # "exited"
  /\ phase[s] = "draining"
  /\ Leaves(s, "settled")

-----------------------------------------------------------------------------
(* The drain                                                               *)

\* SIGTERM
StartDrain ==
  /\ relay = "up"
  /\ relay' = "draining"
  /\ UNCHANGED <<phase, connected, slots, awaited, late, expired>>

\* drain() finds the registry empty, before the deadline or at it.
DrainSeesEmpty ==
  /\ relay = "draining"
  /\ Registered = {}
  /\ relay' = "closing"
  /\ UNCHANGED <<phase, connected, slots, awaited, late, expired>>

\* Faulty variant: the deadline waits for sessions, and closes none.
ClosedNone == phase

\* closeAll(): what runs is told to close.
ClosedAll == [s \in Sessions |-> IF phase[s] = "running" THEN "draining" ELSE phase[s]]

\* The deadline of drain(): closeAll() waits for the sessions there are.
DrainDeadline ==
  /\ relay = "draining"
  /\ Registered # {}
  /\ relay' = "closingAll"
  /\ awaited' = Registered
  /\ phase' = ClosedAll
  /\ UNCHANGED <<connected, slots, late, expired>>

\* Faulty variant: closeAll() does not wait.
SettledAtOnce == TRUE

AllSettled == \A s \in awaited : phase[s] = "settled"

CloseAllEnds ==
  /\ relay = "closingAll"
  /\ AllSettled
  /\ relay' = "closing"
  /\ UNCHANGED <<phase, connected, slots, awaited, late, expired>>

\* server.close() answers when the last socket is closed, and the process exits.
Exit ==
  /\ relay = "closing"
  /\ connected = {}
  /\ relay' = "exited"
  /\ UNCHANGED <<phase, connected, slots, awaited, late, expired>>

-----------------------------------------------------------------------------
RelayNext ==
  \/ \E s \in Sessions :
       \/ Start(s) \/ Minted(s) \/ MintFails(s)
       \/ Dial(s) \/ Lapses(s) \/ NoHello(s) \/ Hello(s) \/ Verified(s) \/ Created(s)
       \/ Hangup(s) \/ Closes(s) \/ Settled(s)
  \/ SlotsExpire
  \/ StartDrain \/ DrainSeesEmpty \/ DrainDeadline \/ CloseAllEnds \/ Exit

RelaySpec == RelayInit /\ [][RelayNext]_relayVars

\* A handshake has a time limit and its calls answer, a close settles, and shutdown()
\* is run to its end.  Nothing makes a studio hang up or a session close.
RelayFairSpec ==
  /\ RelaySpec
  /\ \A s \in Sessions : WF_relayVars(NoHello(s) \/ Hello(s)) /\ WF_relayVars(Verified(s))
                           /\ WF_relayVars(Created(s)) /\ WF_relayVars(Settled(s))
  /\ WF_relayVars(DrainSeesEmpty \/ DrainDeadline) /\ WF_relayVars(CloseAllEnds) /\ WF_relayVars(Exit)

-----------------------------------------------------------------------------
(* Properties                                                              *)

\* Types, and what the phases say of the sockets: a session that nobody dialled, or
\* that is over, has none.
RelayTypeOK ==
  /\ phase \in [Sessions -> Phases]
  /\ connected \in SUBSET In({"dialled", "verifying", "creating", "running", "draining"})
  /\ In({"dialled"}) \subseteq connected
  /\ slots \in 0..Limit
  /\ relay \in Stages /\ awaited \subseteq Sessions /\ late \subseteq Sessions
  /\ expired \in BOOLEAN

\* The plan limit: handshakes that pass the gate together can exceed it, since the
\* gate is read before createSession() and the registry is written after it, but never
\* beyond what the slots of the same window allow, and not at all before the key of
\* the slots has expired once (server.ts:272-284, redis.ts:30-37).
Active == In({"creating", "running", "draining"})
LimitHeld ==
  /\ Cardinality(Active) < 2 * Limit
  /\ ~expired => Cardinality(Active) <= Limit

\* The relay exits only when the sessions it drained are settled, whenever their
\* studios hung up; what is left unsettled was registered after the drain had looked
\* for the last time (server.ts:135-145, index.ts:77-83).
DrainSettles == relay = "exited" => Registered \subseteq late

\* Under FairSpec a drain ends with the exit of the process, whatever the studios do,
\* unless a session was registered after the drain had looked: that one may go on, and
\* its socket is waited for (server.ts:135-151).
DrainEnds == relay = "draining" ~> relay = "exited" \/ late # {}
=============================================================================
