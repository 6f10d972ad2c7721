------------------------------- MODULE Access -------------------------------
(***************************************************************************)
(* Who gets at a session: the token a studio opens it with                 *)
(* (apps/web/app/api/session/start/route.ts, lib/auth/relay-jwt.ts,        *)
(* apps/relay/src/auth.ts), the assembly of the actor and the user's       *)
(* runtime key (apps/relay/src/index.ts, providers/openrouter.ts), and the *)
(* links with which browser sources watch it (server.ts, handleProjector,  *)
(* and apps/web/app/api/session/[id]/projector-token/route.ts).            *)
(*                                                                         *)
(* The sessions are those of one user.  Their number, the drain and what   *)
(* becomes of a studio that hangs up are Relay's subject: here a handshake *)
(* may be turned away at any step, for a reason of its own.                *)
(*                                                                         *)
(* One unit of time is longer than Redis takes to answer.  The clocks of   *)
(* the web application and the relay differ by no more than the relay      *)
(* tolerates.                                                              *)
(***************************************************************************)
EXTENDS Integers, FiniteSets

CONSTANTS
  Sessions,    \* sessions the user may start
  Tabs,        \* studio connections
  Screens,     \* connections of browser sources
  Ttl,         \* RELAY_JWT_TTL_SECONDS
  Tolerance,   \* clockToleranceSeconds
  MaxTime,     \* bound on time, for model checking only
  MaxLinks,    \* bound on the links a session is given, for model checking only
  MaxKeys      \* bound on the keys created upstream, for model checking only

ASSUME AccessAssumption ==
  /\ IsFiniteSet(Sessions) /\ IsFiniteSet(Tabs) /\ IsFiniteSet(Screens)
  /\ Ttl \in Nat \ {0} /\ Tolerance \in Nat /\ MaxTime \in Nat
  /\ MaxLinks \in Nat /\ MaxKeys \in Nat

VARIABLES
  now,        \* the relay's clock
  skew,       \* how far the web application's clock is ahead of it
  expires,    \* of each session, the `exp` of its token, once it is started
  link,       \* of each session, the projector link whose digest is stored, by number
  used,       \* of each token, when its used:{jti} expires; 0 if there is none
  tab,        \* the handshake of each studio connection
  live,       \* the sessions in the registry
  key,        \* of each live session, the runtime key it was built with
  row,        \* the user's row of provider_keys: a key, or 0
  made,       \* runtime keys created upstream, by number
  screen,     \* each browser source's connection
  watchers,   \* SessionActor.projectors of each session
  opened      \* history: how often each token has opened a session

startVars == <<expires, link>>
studioVars == <<used, tab, live, key, row, made, opened>>
vars == <<now, skew, startVars, studioVars, screen, watchers>>

NoSession == "none"
ASSUME SessionNames == Sessions \cap {NoSession, "nobody", "reading"} = {}

Idle == [at |-> "idle", sid |-> NoSession]
NoSocket == [socket |-> "none", sid |-> NoSession, link |-> 0, found |-> NoSession,
             attached |-> NoSession, asked |-> 0]

Init ==
  /\ now = 0 /\ skew \in -Tolerance..Tolerance
  /\ expires = [s \in Sessions |-> 0] /\ link = [s \in Sessions |-> 0]
  /\ used = [s \in Sessions |-> 0] /\ opened = [s \in Sessions |-> 0]
  /\ tab = [t \in Tabs |-> Idle] /\ live = {}
  /\ key = [s \in Sessions |-> 0] /\ row = 0 /\ made = 0
  /\ screen = [p \in Screens |-> NoSocket] /\ watchers = [s \in Sessions |-> {}]

Started == {s \in Sessions : link[s] > 0}
NewLink(s) == link' = [link EXCEPT ![s] = @ + 1]

\* A claim is answered within the unit of time it was made in.
TimePasses ==
  /\ now < MaxTime
  /\ \A t \in Tabs : tab[t].at # "claiming"
  /\ now' = now + 1
  /\ UNCHANGED <<skew, startVars, studioVars, screen, watchers>>

-----------------------------------------------------------------------------
(* The web application                                                     *)

\* mintRelayJwt(): the token's end, on the web application's clock.
Exp == now + skew + Ttl

\* POST /api/session/start, for a request no gate refuses.
Start(s) ==
  /\ s \notin Started
  /\ expires' = [expires EXCEPT ![s] = Exp]
  /\ NewLink(s)
  /\ UNCHANGED <<now, skew, studioVars, screen, watchers>>

\* POST /api/session/{id}/projector-token.  ended_at is written nowhere, so that a
\* session that is over may be given a new link too.
Rotate(s) ==
  /\ s \in Started
  /\ link[s] < MaxLinks
  /\ NewLink(s)
  /\ UNCHANGED <<now, skew, expires, studioVars, screen, watchers>>

-----------------------------------------------------------------------------
(* The studio's handshake                                                  *)

Goes(t, at) == tab' = [tab EXCEPT ![t].at = at]

\* A studio presents the token of a session, which may have been presented before:
\* jwtVerify() with its tolerance.
Hello(t, s) ==
  /\ tab[t].at = "idle"
  /\ s \in Started
  /\ expires[s] > now - Tolerance
  /\ tab' = [tab EXCEPT ![t] = [at |-> "claiming", sid |-> s]]
  /\ UNCHANGED <<now, skew, startVars, used, live, key, row, made, opened, screen, watchers>>

\* Faulty variant: the marker is kept as long as the token is valid, and no longer.
MarkerEndsWithToken == now + Ttl

MarkerEnd == now + Ttl + 2 * Tolerance

\* SET used:{jti} EX ttl NX: a marker that is there turns the studio away.
Claims(t) ==
  LET s == tab[t].sid
  IN  /\ tab[t].at = "claiming"
      /\ IF used[s] > now
         THEN tab' = [tab EXCEPT ![t] = Idle] /\ UNCHANGED used
         ELSE Goes(t, "selecting") /\ used' = [used EXCEPT ![s] = MarkerEnd]
      /\ UNCHANGED <<now, skew, startVars, live, key, row, made, opened, screen, watchers>>

\* The plan gate, the balance, the glossary, the key: whichever fails closes the studio.
\* The token stays used.
TurnedAway(t) ==
  /\ tab[t].at \in {"selecting", "creating", "inserting", "capping"}
  /\ tab' = [tab EXCEPT ![t] = Idle]
  /\ UNCHANGED <<now, skew, startVars, used, live, key, row, made, opened, screen, watchers>>

\* resolveRuntimeKey(): the user's row, if there is one.
Selects(t) ==
  /\ tab[t].at = "selecting"
  /\ Goes(t, IF row = 0 THEN "creating" ELSE "capping")
  /\ UNCHANGED <<now, skew, startVars, used, live, key, row, made, opened, screen, watchers>>

\* createRuntimeKey(): a key exists upstream; a tab's key is the last one it made.
Creates(t) ==
  /\ tab[t].at = "creating"
  /\ made < MaxKeys
  /\ made' = made + 1
  /\ tab' = [tab EXCEPT ![t] = [at |-> "inserting", sid |-> tab[t].sid, key |-> made + 1]]
  /\ UNCHANGED <<now, skew, startVars, used, live, key, row, opened, screen, watchers>>

\* register() and start(), with the key k; a session that is registered already is an
\* error, and the studio is turned away.
Registers(t, k) ==
  LET s == tab[t].sid
  IN  IF s \in live
      THEN tab' = [tab EXCEPT ![t] = Idle] /\ UNCHANGED <<live, key, opened>>
      ELSE /\ tab' = [tab EXCEPT ![t] = [at |-> "running", sid |-> s]]
           /\ live' = live \cup {s}
           /\ key' = [key EXCEPT ![s] = k]
           /\ opened' = [opened EXCEPT ![s] = @ + 1]

\* updateRuntimeKey() has answered or failed, which is only logged: the stored key.
Capped(t) ==
  /\ tab[t].at = "capping"
  /\ Registers(t, row)
  /\ UNCHANGED <<now, skew, startVars, used, row, made, screen, watchers>>

\* provider_keys_user_provider_idx.
Conflict == row # 0

\* The new key is inserted, unless the user has got one meanwhile.
Inserts(t) ==
  /\ tab[t].at = "inserting"
  /\ IF Conflict
     THEN tab' = [tab EXCEPT ![t] = Idle] /\ UNCHANGED <<live, key, opened, row>>
     ELSE Registers(t, tab[t].key) /\ row' = IF row = 0 THEN tab[t].key ELSE row
  /\ UNCHANGED <<now, skew, startVars, used, made, screen, watchers>>

\* The end of performClose(): projectors.clear().
WatchersCleared(s) == [watchers EXCEPT ![s] = {}]

\* performClose() closes every socket of the session and unregisters it.
Closes(t) ==
  LET s == tab[t].sid
  IN  /\ tab[t].at = "running"
      /\ tab' = [tab EXCEPT ![t] = Idle]
      /\ live' = live \ {s}
      /\ key' = [key EXCEPT ![s] = 0]
      /\ watchers' = WatchersCleared(s)
      /\ screen' = [p \in Screens |->
           IF p \in watchers[s] /\ screen[p].socket = "open"
           THEN [screen[p] EXCEPT !.socket = "closing"] ELSE screen[p]]
      /\ UNCHANGED <<now, skew, startVars, used, row, made, opened>>

-----------------------------------------------------------------------------
(* Browser sources                                                         *)

screenOnly == <<now, skew, startVars, studioVars>>

\* A page opens a connection with a link it was given, at whatever time.
Dials(p, s, n) ==
  /\ screen[p].socket = "none"
  /\ n \in 1..link[s]
  /\ screen' = [screen EXCEPT ![p] = [NoSocket EXCEPT !.socket = "open", !.sid = s, !.link = n]]
  /\ UNCHANGED <<screenOnly, watchers>>

\* The relay closes a connection: too many handshakes, no attach in time, no session.
\* The connection is gone when the page has answered.
Hangs(c) == [c EXCEPT !.socket = IF @ = "open" THEN "closing" ELSE @]

\* Nothing has come before HANDSHAKE_TIMEOUT_MS, or not what was expected.
NoAttach(p) ==
  /\ screen[p].socket = "open" /\ screen[p].asked = 0
  /\ screen' = [screen EXCEPT ![p] = Hangs(@)]
  /\ UNCHANGED <<screenOnly, watchers>>

\* `attach`, which the page sends once on a connection, even if that is being closed.
Attach(p) ==
  /\ screen[p].socket \in {"open", "closing"} /\ screen[p].asked = 0
  /\ screen' = [screen EXCEPT ![p].asked = link[screen[p].sid], ![p].found = "reading"]
  /\ UNCHANGED <<screenOnly, watchers>>

\* Faulty variant: the link the session was started with goes on being looked up.
LooksUpFirst(s, n) == n = 1

LooksUp(s, n) == n = link[s]

\* The query reads the table.
Reads(p) ==
  LET c == screen[p]
  IN  /\ c.found = "reading"
      /\ screen' = [screen EXCEPT ![p].found = IF LooksUp(c.sid, c.link) THEN c.sid ELSE "nobody"]
      /\ UNCHANGED <<screenOnly, watchers>>

\* Faulty variant: the answer attaches, wherever its connection is.
MayAttachLate(c) == TRUE

\* `disposed` is set by the 'close' of the connection.
MayAttach(c) == c.socket \in {"open", "closing"}

\* The answer comes: the session is looked up in the registry, and attached.
Found(p) ==
  LET c == [screen[p] EXCEPT !.found = NoSession]
      s == screen[p].found
  IN  /\ s \in Sessions \cup {"nobody"}
      /\ IF s \notin live
         THEN screen' = [screen EXCEPT ![p] = Hangs(c)] /\ UNCHANGED watchers
         ELSE IF MayAttach(c)
         THEN /\ screen' = [screen EXCEPT ![p] = [c EXCEPT !.attached = s]]
              /\ watchers' = [watchers EXCEPT ![s] = @ \cup {p}]
         ELSE screen' = [screen EXCEPT ![p] = c] /\ UNCHANGED watchers
      /\ UNCHANGED screenOnly

\* The query fails, which is told to the page like a link that leads nowhere.
LookupFails(p) ==
  /\ screen[p].found = "reading"
  /\ screen' = [screen EXCEPT ![p] = Hangs([@ EXCEPT !.found = NoSession])]
  /\ UNCHANGED <<screenOnly, watchers>>

\* 'close', from either side: what was attached is detached.
Drops(p) ==
  LET c == screen[p]
  IN  /\ c.socket \in {"open", "closing"}
      /\ screen' = [screen EXCEPT ![p].socket = "gone"]
      /\ watchers' = [s \in Sessions |-> IF s = c.attached THEN watchers[s] \ {p} ELSE watchers[s]]
      /\ UNCHANGED screenOnly

\* A connection that is gone, with no query of it under way, is forgotten.
Forgets(p) ==
  /\ screen[p].socket = "gone" /\ screen[p].found = NoSession
  /\ screen' = [screen EXCEPT ![p] = NoSocket]
  /\ UNCHANGED <<screenOnly, watchers>>

-----------------------------------------------------------------------------
Studio(t) ==
  \/ \E s \in Sessions : Hello(t, s)
  \/ Claims(t) \/ TurnedAway(t) \/ Selects(t) \/ Creates(t) \/ Capped(t) \/ Inserts(t)
  \/ Closes(t)

BrowserSource(p) ==
  \/ \E s \in Sessions : \E n \in 1..MaxLinks : Dials(p, s, n)
  \/ NoAttach(p) \/ Attach(p) \/ Reads(p) \/ Found(p) \/ LookupFails(p) \/ Drops(p) \/ Forgets(p)

Next ==
  \/ TimePasses
  \/ \E s \in Sessions : Start(s) \/ Rotate(s)
  \/ \E t \in Tabs : Studio(t)
  \/ \E p \in Screens : BrowserSource(p)

Spec == Init /\ [][Next]_vars

-----------------------------------------------------------------------------
(* Properties                                                              *)

\* Types.
TypeOK ==
  /\ now \in 0..MaxTime /\ skew \in -Tolerance..Tolerance
  /\ live \subseteq Started /\ row \in 0..made
  /\ \A s \in Sessions : link[s] \in 0..MaxLinks /\ watchers[s] \subseteq Screens
  /\ \A t \in Tabs : tab[t].at \in {"idle", "claiming", "selecting", "creating", "capping",
                                    "inserting", "running"}
  /\ \A p \in Screens : screen[p].socket \in {"none", "open", "closing", "gone"}

\* "Authorises opening exactly one relay session" (relay-jwt.ts:41, auth.ts:13-15): a token
\* that is presented again, while its session runs or after it has ended, opens nothing:
\* the marker outlives the token on every clock the relay tolerates.
OpensOnce == \A s \in Sessions : opened[s] <= 1

\* "The socket may have gone away while Postgres was answering" (server.ts:358): an actor
\* sends to no connection that is gone, and a session that is over is watched by nobody.
NobodyWatchesInVain ==
  \A s \in Sessions :
    /\ \A p \in watchers[s] : screen[p].socket \in {"open", "closing"} /\ screen[p].attached = s
    /\ watchers[s] # {} => s \in live

\* A link that was replaced before it was presented attaches nothing any more (index.ts:88-93,
\* server.ts:56-63), whatever becomes of the session and its other connections.
OldLinkAttachesNobody ==
  [][\A s \in Sessions : \A p \in watchers'[s] \ watchers[s] : screen[p].link >= screen[p].asked]_vars

=============================================================================
