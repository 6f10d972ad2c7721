---------------------------- MODULE AccessProofs ----------------------------
(***************************************************************************)
(* For any number of sessions, studio connections and browser sources, for *)
(* every lifetime of a token and every tolerance: a token opens one        *)
(* session, no actor sends to a connection that is gone, and a link that   *)
(* was replaced attaches nobody.                                           *)
(***************************************************************************)
EXTENDS Access, TLAPS

USE AccessAssumption, SessionNames

Steps == {"idle", "claiming", "selecting", "creating", "capping", "running"}

\* A tab whose key is not inserted yet is the only one that carries one.
Handshakes ==
  [at : Steps, sid : Sessions \cup {NoSession}]
    \cup [at : {"inserting"}, sid : Sessions \cup {NoSession}, key : Nat]

\* Types of what a token goes through.
TokenTypes ==
  /\ now \in Nat /\ skew \in -Tolerance..Tolerance /\ made \in Nat
  /\ expires \in [Sessions -> Int] /\ link \in [Sessions -> Nat]
  /\ used \in [Sessions -> Int] /\ opened \in [Sessions -> Nat]
  /\ tab \in [Tabs -> Handshakes]
  /\ \A t \in Tabs : tab[t].at # "idle" => tab[t].sid \in Sessions

\* The handshake of t has claimed the token of s and has not opened the session.
Past(t, s) == tab[t].sid = s /\ tab[t].at \in {"selecting", "creating", "capping", "inserting"}

\* The token of s has been claimed: a handshake is past the claim, or the session opened.
Spent(s) == opened[s] > 0 \/ \E t \in Tabs : Past(t, s)

\* A token ends when the web application's clock says so, which is not far from the relay's.
ExpiryInv == \A s \in Started : expires[s] <= now + Tolerance + Ttl

\* Time stands still for a claim, so that what was presented in time is claimed in time.
ClaimInv ==
  \A t \in Tabs : tab[t].at = "claiming" =>
    tab[t].sid \in Started /\ expires[tab[t].sid] > now - Tolerance

\* The marker of a token that was claimed lasts until no relay takes the token any more.
MarkerInv == \A s \in Sessions : Spent(s) => s \in Started /\ used[s] >= expires[s] + Tolerance

\* One handshake at a time is past the claim, and none once the session has opened.
SingleInv ==
  \A s \in Sessions :
    /\ opened[s] <= 1
    /\ \A t \in Tabs : Past(t, s) => opened[s] = 0 /\ \A u \in Tabs : Past(u, s) => u = t

TokenInv == TokenTypes /\ ExpiryInv /\ ClaimInv /\ MarkerInv /\ SingleInv

LEMMA TokenInit == Init => TokenInv
<1> SUFFICES ASSUME Init PROVE TokenInv
  OBVIOUS
<1>1. TokenTypes
  BY DEF Init, TokenTypes, Idle, Handshakes, Steps
<1>2. \A s \in Sessions : ~Spent(s) /\ s \notin Started
  BY DEF Init, Spent, Past, Idle, Started
<1>3. QED
  BY <1>1, <1>2 DEF Init, TokenInv, ExpiryInv, ClaimInv, MarkerInv, SingleInv, Spent, Past, Idle, Started

\* Steps that concern no token: the browser sources' and a new link.
LEMMA TokenStutter ==
  ASSUME TokenInv, UNCHANGED <<now, skew, expires, used, tab, made, opened>>,
         link' \in [Sessions -> Nat], \A s \in Sessions : link[s] > 0 <=> link'[s] > 0
  PROVE  TokenInv'
<1>1. TokenTypes'
  BY DEF TokenInv, TokenTypes
<1>2. Started' = Started
  BY DEF Started
<1>3. \A s \in Sessions : Spent(s)' <=> Spent(s)
  BY DEF Spent, Past
<1>4. QED
  BY <1>1, <1>2, <1>3 DEF TokenInv, ExpiryInv, ClaimInv, MarkerInv, SingleInv, Past

\* A handshake that is turned away, or goes on past its claim.
LEMMA TokenGoesOn ==
  ASSUME TokenInv, NEW t \in Tabs, NEW h \in Handshakes,
         UNCHANGED <<now, skew, expires, link, used, opened>>, made' \in Nat,
         tab' = [tab EXCEPT ![t] = h],
         \/ h.at = "idle"
         \/ /\ h.sid = tab[t].sid /\ h.at \in {"creating", "capping", "inserting"}
            /\ Past(t, tab[t].sid)
  PROVE  TokenInv'
<1>1. \A u \in Tabs, s \in Sessions : Past(u, s)' => Past(u, s)
  BY DEF TokenInv, TokenTypes, Past
<1>2. TokenTypes'
  BY DEF TokenInv, TokenTypes, Past
<1>3. Started' = Started
  BY DEF Started
<1>4. \A s \in Sessions : Spent(s)' => Spent(s)
  BY <1>1 DEF Spent
<1>5. ClaimInv'
  BY <1>3 DEF TokenInv, TokenTypes, ClaimInv
<1>6. QED
  BY <1>1, <1>2, <1>3, <1>4, <1>5 DEF TokenInv, ExpiryInv, MarkerInv, SingleInv

\* A handshake past its claim registers the session, or finds it registered.
LEMMA TokenRegisters ==
  ASSUME TokenInv, NEW t \in Tabs, NEW k, Past(t, tab[t].sid), Registers(t, k),
         UNCHANGED <<now, skew, expires, link, used, made>>
  PROVE  TokenInv'
<1>0. PICK s \in Sessions : s = tab[t].sid
  BY DEF TokenInv, TokenTypes, Past
<1>1. CASE s \in live
  <2>1. Idle \in Handshakes /\ Idle.at = "idle"
    BY DEF Idle, Handshakes, Steps
  <2>2. QED
    BY <1>0, <1>1, <2>1, TokenGoesOn DEF Registers, TokenInv, TokenTypes
<1>2. CASE s \notin live
  <2> DEFINE h == [at |-> "running", sid |-> s]
  <2>1. tab' = [tab EXCEPT ![t] = h] /\ opened' = [opened EXCEPT ![s] = @ + 1]
    BY <1>0, <1>2 DEF Registers
  <2>2. h \in Handshakes
    BY <1>0 DEF Handshakes, Steps
  <2>3. TokenTypes'
    BY <1>0, <2>1, <2>2 DEF TokenInv, TokenTypes
  <2>4. Started' = Started
    BY DEF Started
  <2>5. \A u \in Tabs, r \in Sessions : Past(u, r)' <=> Past(u, r) /\ u # t
    BY <2>1 DEF TokenInv, TokenTypes, Past
  <2>6. \A r \in Sessions : ~Past(t, r) \/ r = s
    BY <1>0 DEF Past
  <2>7. \A u \in Tabs : ~Past(u, s)'
    <3> SUFFICES ASSUME NEW u \in Tabs, Past(u, s)' PROVE FALSE
      OBVIOUS
    <3>1. Past(u, s) /\ u # t
      BY <1>0, <2>5
    <3>2. QED
      BY <1>0, <3>1 DEF TokenInv, SingleInv
  <2>8. opened'[s] = 1 /\ \A r \in Sessions : r # s => opened'[r] = opened[r]
    BY <1>0, <2>1 DEF TokenInv, SingleInv, TokenTypes
  <2>9. SingleInv'
    BY <2>5, <2>7, <2>8 DEF TokenInv, SingleInv
  <2>10. \A r \in Sessions : Spent(r)' => Spent(r)
    BY <1>0, <2>5, <2>8 DEF Spent
  <2>11. ClaimInv'
    BY <2>1, <2>4 DEF TokenInv, TokenTypes, ClaimInv
  <2>12. QED
    BY <2>3, <2>4, <2>9, <2>10, <2>11 DEF TokenInv, ExpiryInv, MarkerInv
<1>3. QED
  BY <1>1, <1>2

LEMMA TokenStep == TokenInv /\ [Next]_vars => TokenInv'
<1> SUFFICES ASSUME TokenInv, [Next]_vars PROVE TokenInv'
  OBVIOUS
<1> USE DEF Goes
<1>1. CASE TimePasses
  <2>1. TokenTypes'
    BY <1>1 DEF TimePasses, TokenInv, TokenTypes, startVars, studioVars
  <2>2. ExpiryInv'
    BY <1>1 DEF TimePasses, TokenInv, TokenTypes, ExpiryInv, Started, startVars
  <2>3. ClaimInv'
    BY <1>1 DEF TimePasses, ClaimInv, studioVars
  <2>4. \A s \in Sessions : Spent(s)' <=> Spent(s)
    BY <1>1 DEF TimePasses, Spent, Past, studioVars
  <2>5. QED
    BY <1>1, <2>1, <2>2, <2>3, <2>4
    DEF TimePasses, TokenInv, MarkerInv, SingleInv, Past, Started, startVars, studioVars
<1>2. ASSUME NEW s \in Sessions, Start(s) PROVE TokenInv'
  <2>1. ~Spent(s) /\ \A t \in Tabs : tab[t].at = "claiming" => tab[t].sid # s
    BY <1>2 DEF TokenInv, MarkerInv, ClaimInv, Start
  <2>2. /\ Exp \in Int /\ Exp <= now + Tolerance + Ttl
        /\ expires' = [expires EXCEPT ![s] = Exp] /\ link' = [link EXCEPT ![s] = @ + 1]
    BY <1>2 DEF Start, NewLink, Exp, TokenInv, TokenTypes
  <2>3. TokenTypes'
    BY <1>2, <2>2 DEF Start, TokenInv, TokenTypes, studioVars
  <2>4. Started' = Started \cup {s}
    BY <2>2 DEF Started, TokenInv, TokenTypes
  <2>5. \A r \in Sessions : r # s => expires'[r] = expires[r]
    BY <2>2 DEF TokenInv, TokenTypes
  <2>6. \A r \in Sessions : Spent(r)' <=> Spent(r)
    BY <1>2 DEF Start, Spent, Past, studioVars
  <2>7. ExpiryInv'
    BY <1>2, <2>2, <2>4, <2>5 DEF Start, TokenInv, TokenTypes, ExpiryInv, Started
  <2>8. ClaimInv' /\ MarkerInv'
    BY <1>2, <2>1, <2>4, <2>5, <2>6
    DEF Start, TokenInv, ClaimInv, MarkerInv, Started, studioVars
  <2>9. SingleInv'
    BY <1>2 DEF Start, TokenInv, SingleInv, Past, studioVars
  <2>10. QED
    BY <2>3, <2>7, <2>8, <2>9 DEF TokenInv
<1>3. ASSUME NEW s \in Sessions, Rotate(s) PROVE TokenInv'
  <2>1. link' = [link EXCEPT ![s] = @ + 1] /\ link[s] > 0
    BY <1>3 DEF Rotate, NewLink, Started
  <2>2. QED
    BY <1>3, <2>1, TokenStutter DEF Rotate, TokenInv, TokenTypes, studioVars
<1>4. ASSUME NEW t \in Tabs, NEW s \in Sessions, Hello(t, s) PROVE TokenInv'
  <2> DEFINE h == [at |-> "claiming", sid |-> s]
  <2>1. tab' = [tab EXCEPT ![t] = h] /\ h \in Handshakes
    BY <1>4 DEF Hello, Handshakes, Steps
  <2>2. TokenTypes'
    BY <1>4, <2>1 DEF Hello, TokenInv, TokenTypes, startVars
  <2>3. Started' = Started
    BY <1>4 DEF Hello, Started, startVars
  <2>4. \A u \in Tabs, r \in Sessions : Past(u, r)' => Past(u, r)
    BY <2>1 DEF Past, TokenInv, TokenTypes
  <2>5. \A r \in Sessions : Spent(r)' => Spent(r)
    BY <1>4, <2>4 DEF Hello, Spent
  <2>6. ClaimInv'
    BY <1>4, <2>1, <2>3 DEF Hello, TokenInv, TokenTypes, ClaimInv, startVars
  <2>7. QED
    BY <1>4, <2>2, <2>3, <2>4, <2>5, <2>6
    DEF Hello, TokenInv, ExpiryInv, MarkerInv, SingleInv, startVars
<1>5. ASSUME NEW t \in Tabs, Claims(t) PROVE TokenInv'
  <2> DEFINE s == tab[t].sid
  <2>0. s \in Sessions /\ s \in Started /\ expires[s] > now - Tolerance /\ tab[t].at = "claiming"
    BY <1>5 DEF Claims, TokenInv, TokenTypes, ClaimInv
  <2>1. CASE used[s] > now
    <3>1. Idle \in Handshakes /\ Idle.at = "idle"
      BY DEF Idle, Handshakes, Steps
    <3>2. QED
      BY <1>5, <2>1, <3>1, TokenGoesOn DEF Claims, TokenInv, TokenTypes, startVars
  <2>2. CASE ~(used[s] > now)
    <3> DEFINE h == [tab[t] EXCEPT !.at = "selecting"]
    <3>1. /\ tab' = [tab EXCEPT ![t] = h] /\ used' = [used EXCEPT ![s] = MarkerEnd]
          /\ UNCHANGED <<now, skew, expires, link, made, opened>>
      BY <1>5, <2>2 DEF Claims, startVars
    <3>2. h \in Handshakes /\ h.sid = s /\ h.at = "selecting"
      BY <2>0 DEF TokenInv, TokenTypes, Handshakes, Steps
    <3>3. MarkerEnd \in Int /\ MarkerEnd >= expires[s] + Tolerance
      BY <2>0 DEF MarkerEnd, TokenInv, TokenTypes, ExpiryInv
    <3>4. ~Spent(s)
      BY <2>0, <2>2 DEF TokenInv, TokenTypes, MarkerInv
    <3>5. TokenTypes'
      BY <2>0, <3>1, <3>2, <3>3 DEF TokenInv, TokenTypes
    <3>6. Started' = Started
      BY <3>1 DEF Started
    <3>7. \A u \in Tabs, r \in Sessions : Past(u, r)' => Past(u, r) \/ (u = t /\ r = s)
      BY <3>1, <3>2 DEF Past, TokenInv, TokenTypes
    <3>8. \A r \in Sessions : r # s => (Spent(r)' => Spent(r)) /\ used'[r] = used[r]
      BY <3>1, <3>7 DEF Spent, TokenInv, TokenTypes
    <3>9. used'[s] = MarkerEnd
      BY <2>0, <3>1 DEF TokenInv, TokenTypes
    <3>10. MarkerInv'
      BY <2>0, <3>1, <3>3, <3>6, <3>8, <3>9 DEF TokenInv, MarkerInv
    <3>11. SingleInv'
      BY <2>0, <3>1, <3>4, <3>7 DEF TokenInv, TokenTypes, SingleInv, Spent
    <3>12. ClaimInv'
      BY <3>1, <3>2, <3>6 DEF TokenInv, TokenTypes, ClaimInv
    <3>13. QED
      BY <3>1, <3>5, <3>6, <3>10, <3>11, <3>12 DEF TokenInv, ExpiryInv
  <2>3. QED
    BY <2>1, <2>2
<1>6. ASSUME NEW t \in Tabs, TurnedAway(t) \/ Closes(t) PROVE TokenInv'
  <2>1. Idle \in Handshakes /\ Idle.at = "idle"
    BY DEF Idle, Handshakes, Steps
  <2>2. QED
    BY <1>6, <2>1, TokenGoesOn DEF TurnedAway, Closes, TokenInv, TokenTypes, startVars
<1>7. ASSUME NEW t \in Tabs, Selects(t) PROVE TokenInv'
  <2> DEFINE at == IF row = 0 THEN "creating" ELSE "capping"
             h == [tab[t] EXCEPT !.at = at]
  <2>1. tab[t].at = "selecting" /\ tab[t] \in [at : Steps, sid : Sessions \cup {NoSession}]
    BY <1>7 DEF Selects, TokenInv, TokenTypes, Handshakes
  <2>2. h \in Handshakes /\ h.sid = tab[t].sid /\ h.at \in {"creating", "capping"}
    BY <2>1 DEF Handshakes, Steps
  <2>3. Past(t, tab[t].sid)
    BY <2>1 DEF Past
  <2>4. tab' = [tab EXCEPT ![t] = h]
    BY <1>7 DEF Selects
  <2>5. QED
    BY <1>7, <2>2, <2>3, <2>4, TokenGoesOn DEF Selects, TokenInv, TokenTypes, startVars
<1>8. ASSUME NEW t \in Tabs, Creates(t) PROVE TokenInv'
  <2> DEFINE h == [at |-> "inserting", sid |-> tab[t].sid, key |-> made + 1]
  <2>1. tab[t].at = "creating" /\ tab[t].sid \in Sessions /\ made \in Nat
    BY <1>8 DEF Creates, TokenInv, TokenTypes
  <2>2. h \in Handshakes /\ Past(t, tab[t].sid)
    BY <2>1 DEF Handshakes, Past
  <2>3. QED
    <3>1. /\ tab' = [tab EXCEPT ![t] = h] /\ made' \in Nat
          /\ UNCHANGED <<now, skew, expires, link, used, opened>>
      BY <1>8, <2>1 DEF Creates, startVars
    <3>2. h.sid = tab[t].sid /\ h.at = "inserting"
      OBVIOUS
    <3>3. QED
      BY <2>2, <3>1, <3>2, TokenGoesOn
<1>9. ASSUME NEW t \in Tabs, Capped(t) PROVE TokenInv'
  BY <1>9, TokenRegisters DEF Capped, Past, startVars
<1>10. ASSUME NEW t \in Tabs, Inserts(t) PROVE TokenInv'
  <2>1. Past(t, tab[t].sid)
    BY <1>10 DEF Inserts, Past
  <2>2. CASE Conflict
    <3>1. Idle \in Handshakes /\ Idle.at = "idle"
      BY DEF Idle, Handshakes, Steps
    <3>2. QED
      BY <1>10, <2>2, <3>1, TokenGoesOn DEF Inserts, TokenInv, TokenTypes, startVars
  <2>3. CASE ~Conflict
    BY <1>10, <2>1, <2>3, TokenRegisters DEF Inserts, startVars
  <2>4. QED
    BY <2>2, <2>3
<1>11. ASSUME NEW p \in Screens, BrowserSource(p) PROVE TokenInv'
  <2>1. UNCHANGED screenOnly
    BY <1>11 DEF BrowserSource, Dials, NoAttach, Attach, Reads, Found, LookupFails, Drops, Forgets
  <2>2. QED
    BY <2>1, TokenStutter DEF screenOnly, startVars, studioVars, TokenInv, TokenTypes
<1>12. CASE UNCHANGED vars
  BY <1>12, TokenStutter DEF vars, startVars, studioVars, TokenInv, TokenTypes
<1>13. QED
  <2>1. ASSUME NEW t \in Tabs, Studio(t) PROVE TokenInv'
    BY <2>1, <1>4, <1>5, <1>6, <1>7, <1>8, <1>9, <1>10 DEF Studio
  <2>2. QED
    BY <2>1, <1>1, <1>2, <1>3, <1>11, <1>12 DEF Next

LEMMA TokenAlways == Spec => []TokenInv
<1>1. QED
  BY TokenInit, TokenStep, PTL DEF Spec

\* A token opens one session, however often and however late it is presented, for every
\* lifetime of a token and every difference of the clocks that the relay tolerates
\* (auth.ts:96-100).
THEOREM AccessOpensOnce == Spec => []OpensOnce
<1>1. TokenInv => OpensOnce
  BY DEF TokenInv, SingleInv, OpensOnce
<1>2. QED
  BY <1>1, TokenAlways, PTL

-----------------------------------------------------------------------------
(* Who watches                                                             *)

Sockets == {"none", "open", "closing", "gone"}
Connections ==
  [socket : Sockets, sid : Sessions \cup {NoSession}, link : Nat,
   found : Sessions \cup {NoSession, "nobody", "reading"},
   attached : Sessions \cup {NoSession}, asked : Nat]

WatchTypes ==
  /\ live \subseteq Sessions
  /\ watchers \in [Sessions -> SUBSET Screens]
  /\ screen \in [Screens -> Connections]

\* A connection asks once: until it does it has found nothing, and until it has found its
\* session it is attached to none.
AskInv ==
  \A p \in Screens :
    LET c == screen[p]
    IN  /\ c.asked = 0 => c.found = NoSession /\ c.attached = NoSession
        /\ c.found # NoSession => c.attached = NoSession

\* The link of a connection is one that its session has had; what it asked with is no newer
\* than the session's link, and what it found was current after it had asked.
LinkInv ==
  \A p \in Screens :
    LET c == screen[p]
    IN  /\ c.socket \in {"open", "closing"} => c.sid \in Sessions /\ link[c.sid] > 0
        /\ c.found = "reading" => c.sid \in Sessions /\ c.asked <= link[c.sid]
        /\ c.found \in Sessions => c.asked <= c.link

WatchInv == WatchTypes /\ AskInv /\ LinkInv /\ NobodyWatchesInVain

LEMMA WatchInit == Init => WatchInv
<1> SUFFICES ASSUME Init PROVE WatchInv
  OBVIOUS
<1>1. NoSocket \in Connections
  BY DEF NoSocket, Connections, Sockets
<1>2. WatchTypes
  BY <1>1 DEF Init, WatchTypes
<1>3. \A p \in Screens : /\ screen[p].socket = "none" /\ screen[p].asked = 0
                         /\ screen[p].found = NoSession /\ screen[p].attached = NoSession
  BY DEF Init, NoSocket
<1>4. AskInv /\ LinkInv
  BY <1>3 DEF AskInv, LinkInv, NoSession
<1>5. NobodyWatchesInVain
  BY DEF Init, NobodyWatchesInVain
<1>6. QED
  BY <1>2, <1>4, <1>5 DEF WatchInv

\* Steps of the studio and the web application that end no session: links only grow, and
\* sessions are only added.
LEMMA WatchStutter ==
  ASSUME WatchInv, TokenInv, UNCHANGED <<screen, watchers>>,
         live \subseteq live', live' \subseteq Sessions,
         link' \in [Sessions -> Nat], \A s \in Sessions : link[s] <= link'[s]
  PROVE  WatchInv'
<1>1. WatchTypes' /\ AskInv'
  BY DEF WatchInv, WatchTypes, AskInv
<1>2. LinkInv'
  BY DEF WatchInv, WatchTypes, Connections, LinkInv, TokenInv, TokenTypes
<1>3. NobodyWatchesInVain'
  BY DEF WatchInv, NobodyWatchesInVain
<1>4. QED
  BY <1>1, <1>2, <1>3 DEF WatchInv

\* A step of the connection p alone, which becomes c.
Becomes(p, c) ==
  /\ UNCHANGED screenOnly /\ screen' = [screen EXCEPT ![p] = c]
  /\ watchers' \in [Sessions -> SUBSET Screens]
  /\ \A s \in Sessions : /\ watchers'[s] \ {p} = watchers[s] \ {p}
                         /\ p \in watchers'[s] =>
                              /\ c.socket \in {"open", "closing"} /\ c.attached = s
                              /\ s \in live
  /\ c.asked = 0 => c.found = NoSession /\ c.attached = NoSession
  /\ c.found # NoSession => c.attached = NoSession
  /\ c.socket \in {"open", "closing"} => c.sid \in Sessions /\ link[c.sid] > 0
  /\ c.found = "reading" => c.sid \in Sessions /\ c.asked <= link[c.sid]
  /\ c.found \in Sessions => c.asked <= c.link

LEMMA WatchStep ==
  ASSUME WatchInv, TokenInv, NEW p \in Screens, NEW c \in Connections, Becomes(p, c)
  PROVE  WatchInv'
<1> USE DEF Becomes
<1>0. live' = live /\ link' = link
  BY DEF screenOnly, startVars, studioVars
<1>1. screen'[p] = c /\ \A q \in Screens : q # p => screen'[q] = screen[q]
  BY DEF WatchInv, WatchTypes
<1>2. WatchTypes'
  BY <1>0 DEF WatchInv, WatchTypes
<1>3. AskInv'
  BY <1>1 DEF WatchInv, AskInv
<1>4. LinkInv'
  BY <1>0, <1>1 DEF WatchInv, LinkInv
<1>5. NobodyWatchesInVain'
  <2> SUFFICES ASSUME NEW s \in Sessions, NEW q \in watchers'[s]
               PROVE  /\ screen'[q].socket \in {"open", "closing"} /\ screen'[q].attached = s
                      /\ s \in live'
    BY DEF NobodyWatchesInVain
  <2>1. CASE q = p
    BY <1>0, <1>1, <2>1
  <2>2. CASE q # p
    <3>1. q \in watchers[s] /\ q \in Screens
      BY <2>2
    <3>2. QED
      BY <1>0, <1>1, <2>2, <3>1 DEF WatchInv, NobodyWatchesInVain
  <2>3. QED
    BY <2>1, <2>2
<1>6. QED
  BY <1>2, <1>3, <1>4, <1>5 DEF WatchInv

\* What an open connection is when the relay hangs up.
LEMMA HangsIs ==
  ASSUME NEW c \in Connections
  PROVE  /\ Hangs(c) \in Connections
         /\ Hangs(c).sid = c.sid /\ Hangs(c).link = c.link /\ Hangs(c).found = c.found
         /\ Hangs(c).attached = c.attached /\ Hangs(c).asked = c.asked
         /\ Hangs(c).socket \in {"open", "closing"} <=> c.socket \in {"open", "closing"}
  BY DEF Hangs, Connections, Sockets

LEMMA SourceStep ==
  ASSUME WatchInv, TokenInv, NEW p \in Screens, BrowserSource(p)
  PROVE  WatchInv'
<1> DEFINE o == screen[p]
<1>0. o \in Connections
  BY DEF WatchInv, WatchTypes
<1>1. ASSUME NEW s \in Sessions, NEW n \in 1..MaxLinks, Dials(p, s, n) PROVE WatchInv'
  <2> DEFINE c == [NoSocket EXCEPT !.socket = "open", !.sid = s, !.link = n]
  <2>1. /\ NoSocket \in Connections /\ NoSocket.found = NoSession
        /\ NoSocket.attached = NoSession
    BY DEF NoSocket, Connections, Sockets
  <2>2. c \in Connections /\ c.sid = s /\ c.found = NoSession /\ c.attached = NoSession
    <3> DEFINE c1 == [NoSocket EXCEPT !.socket = "open"]
               c2 == [c1 EXCEPT !.sid = s]
    <3>1. n \in Nat
      OBVIOUS
    <3>2. c1 \in Connections /\ c1.found = NoSession /\ c1.attached = NoSession
      BY <2>1 DEF Connections, Sockets
    <3>3. c2 \in Connections /\ c2.sid = s /\ c2.found = NoSession /\ c2.attached = NoSession
      BY <3>2 DEF Connections
    <3>4. c = [c2 EXCEPT !.link = n]
      OBVIOUS
    <3>5. QED
      BY <3>1, <3>3, <3>4 DEF Connections
  <2>3. \A r \in Sessions : p \notin watchers[r]
    BY <1>1 DEF Dials, WatchInv, NobodyWatchesInVain
  <2>4. link[s] > 0
    BY <1>1 DEF Dials, TokenInv, TokenTypes
  <2>5. /\ UNCHANGED screenOnly /\ UNCHANGED watchers /\ screen' = [screen EXCEPT ![p] = c]
    BY <1>1 DEF Dials
  <2>6. watchers' \in [Sessions -> SUBSET Screens]
    BY <2>5 DEF WatchInv, WatchTypes
  <2> HIDE DEF c
  <2>7. QED
    BY <2>2, <2>3, <2>4, <2>5, <2>6, WatchStep DEF Becomes, NoSession
<1>2. CASE NoAttach(p)
  <2>1. /\ UNCHANGED screenOnly /\ UNCHANGED watchers
        /\ screen' = [screen EXCEPT ![p] = Hangs(o)]
    BY <1>2 DEF NoAttach
  <2>2. watchers' \in [Sessions -> SUBSET Screens]
    BY <2>1 DEF WatchInv, WatchTypes
  <2>3. \A r \in Sessions : p \in watchers[r] =>
          o.socket \in {"open", "closing"} /\ o.attached = r /\ r \in live
    BY DEF WatchInv, NobodyWatchesInVain
  <2>4. /\ o.asked = 0 => o.found = NoSession /\ o.attached = NoSession
        /\ o.found # NoSession => o.attached = NoSession
        /\ o.socket \in {"open", "closing"} => o.sid \in Sessions /\ link[o.sid] > 0
        /\ o.found = "reading" => o.sid \in Sessions /\ o.asked <= link[o.sid]
        /\ o.found \in Sessions => o.asked <= o.link
    BY DEF WatchInv, AskInv, LinkInv
  <2> DEFINE c == Hangs(o)
  <2>5. /\ c \in Connections /\ c.sid = o.sid /\ c.link = o.link /\ c.found = o.found
        /\ c.attached = o.attached /\ c.asked = o.asked
        /\ c.socket \in {"open", "closing"} <=> o.socket \in {"open", "closing"}
    BY <1>0, HangsIs
  <2> HIDE DEF c, o
  <2>6. QED
    BY <2>1, <2>2, <2>3, <2>4, <2>5, WatchStep DEF Becomes, c
<1>3. CASE Attach(p)
  <2> DEFINE c == [o EXCEPT !.asked = link[o.sid], !.found = "reading"]
  <2>1. o.socket \in {"open", "closing"} /\ o.asked = 0 /\ o.attached = NoSession
    BY <1>3 DEF Attach, WatchInv, AskInv
  <2>2. o.sid \in Sessions /\ link[o.sid] > 0 /\ link[o.sid] \in Nat
    BY <2>1 DEF WatchInv, LinkInv, TokenInv, TokenTypes
  <2>3. c \in Connections
    BY <1>0, <2>2 DEF Connections
  <2>4. /\ UNCHANGED screenOnly /\ UNCHANGED watchers /\ screen' = [screen EXCEPT ![p] = c]
    BY <1>0, <1>3 DEF Attach, WatchInv, WatchTypes, Connections
  <2>5. \A r \in Sessions : p \notin watchers[r]
    BY <2>1 DEF WatchInv, NobodyWatchesInVain
  <2>6. /\ c.asked = link[o.sid] /\ c.found = "reading" /\ c.attached = NoSession
        /\ c.socket = o.socket /\ c.sid = o.sid
    BY <1>0, <2>1 DEF Connections
  <2>7. watchers' \in [Sessions -> SUBSET Screens]
    BY <2>4 DEF WatchInv, WatchTypes
  <2>8. /\ c.asked # 0 /\ c.sid \in Sessions /\ link[c.sid] > 0
        /\ c.asked <= link[c.sid] /\ "reading" \notin Sessions
    BY <2>2, <2>6
  <2> HIDE DEF c, o
  <2>9. QED
    BY <2>3, <2>4, <2>5, <2>6, <2>7, <2>8, WatchStep DEF Becomes
<1>4. CASE Reads(p)
  <2> DEFINE found == IF LooksUp(o.sid, o.link) THEN o.sid ELSE "nobody"
             c     == [o EXCEPT !.found = found]
  <2>1. /\ o.found = "reading" /\ o.attached = NoSession /\ o.asked # 0
        /\ o.sid \in Sessions /\ o.asked <= link[o.sid]
    BY <1>4 DEF Reads, WatchInv, AskInv, LinkInv, NoSession
  <2>2. c \in Connections
    BY <1>0, <2>1 DEF Connections
  <2>3. /\ UNCHANGED screenOnly /\ UNCHANGED watchers /\ screen' = [screen EXCEPT ![p] = c]
    BY <1>4 DEF Reads
  <2>4. \A r \in Sessions : p \notin watchers[r]
    BY <2>1 DEF WatchInv, NobodyWatchesInVain
  <2>5. /\ c.found = found /\ c.asked = o.asked /\ c.attached = o.attached
        /\ c.socket = o.socket /\ c.sid = o.sid /\ c.link = o.link
    BY <1>0 DEF Connections
  <2>6. found # "reading" /\ (found \in Sessions => o.link = link[o.sid])
    BY <2>1 DEF LooksUp
  <2>7. o.socket \in {"open", "closing"} => link[o.sid] > 0
    BY DEF WatchInv, LinkInv
  <2>8. watchers' \in [Sessions -> SUBSET Screens]
    BY <2>3 DEF WatchInv, WatchTypes
  <2> HIDE DEF c, o, found
  <2>9. QED
    BY <2>1, <2>2, <2>3, <2>4, <2>5, <2>6, <2>7, <2>8, WatchStep DEF Becomes
<1>5. CASE Found(p)
  <2> DEFINE c == [o EXCEPT !.found = NoSession]
             s == o.found
  <2>1. /\ s \in Sessions \cup {"nobody"} /\ s # NoSession /\ o.attached = NoSession
        /\ o.asked # 0
    BY <1>5 DEF Found, WatchInv, AskInv, NoSession
  <2>2. c \in Connections /\ c.found = NoSession /\ c.attached = o.attached /\ c.sid = o.sid
        /\ c.link = o.link /\ c.asked = o.asked /\ c.socket = o.socket
    BY <1>0 DEF Connections
  <2>3. o.socket \in {"open", "closing"} => o.sid \in Sessions /\ link[o.sid] > 0
    BY DEF WatchInv, LinkInv
  <2>4. \A r \in Sessions : p \notin watchers[r]
    BY <2>1 DEF WatchInv, NobodyWatchesInVain
  <2>5. UNCHANGED screenOnly
    BY <1>5 DEF Found
  <2>6. watchers \in [Sessions -> SUBSET Screens] /\ live \subseteq Sessions
    BY DEF WatchInv, WatchTypes
  <2>7. CASE s \notin live
    <3>1. UNCHANGED watchers /\ screen' = [screen EXCEPT ![p] = Hangs(c)]
      BY <1>5, <2>7 DEF Found
    <3> HIDE DEF c, o
    <3>2. QED
      BY <2>1, <2>2, <2>3, <2>4, <2>5, <2>6, <3>1, HangsIs, WatchStep DEF Becomes, NoSession
  <2>8. CASE s \in live /\ MayAttach(c)
    <3> DEFINE d == [c EXCEPT !.attached = s]
    <3>1. /\ screen' = [screen EXCEPT ![p] = d]
          /\ watchers' = [watchers EXCEPT ![s] = @ \cup {p}]
      BY <1>5, <2>8 DEF Found
    <3>2. s \in Sessions
      BY <2>6, <2>8
    <3>3. d \in Connections /\ d.found = NoSession /\ d.attached = s /\ d.sid = o.sid
          /\ d.link = o.link /\ d.asked = o.asked /\ d.socket = o.socket
      BY <2>2, <3>2 DEF Connections
    <3>4. d.socket \in {"open", "closing"}
      BY <2>2, <2>8, <3>3 DEF MayAttach
    <3>5. /\ watchers' \in [Sessions -> SUBSET Screens]
          /\ \A r \in Sessions : /\ watchers'[r] \ {p} = watchers[r] \ {p}
                                 /\ p \in watchers'[r] => r = s
      BY <2>4, <2>6, <3>1, <3>2
    <3>6. d.asked # 0 /\ s \in live
      BY <2>1, <2>8, <3>3
    <3>7. d.socket \in {"open", "closing"} => d.sid \in Sessions /\ link[d.sid] > 0
      BY <2>3, <3>3
    <3>8. NoSession # "reading" /\ NoSession \notin Sessions
      BY DEF NoSession
    <3>9. \A r \in Sessions : /\ watchers'[r] \ {p} = watchers[r] \ {p}
                             /\ p \in watchers'[r] =>
                                  /\ d.socket \in {"open", "closing"} /\ d.attached = r
                                  /\ r \in live
      <4> HIDE DEF d, s
      <4>1. QED
        BY <3>3, <3>4, <3>5, <3>6
    <3>10. /\ d.asked = 0 => d.found = NoSession /\ d.attached = NoSession
           /\ d.found # NoSession => d.attached = NoSession
           /\ d.found = "reading" => d.sid \in Sessions /\ d.asked <= link[d.sid]
           /\ d.found \in Sessions => d.asked <= d.link
      <4> HIDE DEF d, s
      <4>1. QED
        BY <3>3, <3>6, <3>8
    <3>11. d \in Connections /\ watchers' \in [Sessions -> SUBSET Screens]
      BY <3>3, <3>5
    <3> HIDE DEF d, s, c, o
    <3>12. Becomes(p, d)
      BY <2>5, <3>1, <3>7, <3>9, <3>10, <3>11 DEF Becomes
    <3>13. QED
      BY <3>11, <3>12, WatchStep
  <2>9. CASE s \in live /\ ~MayAttach(c)
    <3>1. UNCHANGED watchers /\ screen' = [screen EXCEPT ![p] = c]
      BY <1>5, <2>9 DEF Found
    <3> HIDE DEF c, o
    <3>2. QED
      BY <2>1, <2>2, <2>3, <2>4, <2>5, <2>6, <3>1, WatchStep DEF Becomes, NoSession
  <2>10. QED
    BY <2>7, <2>8, <2>9
<1>6. CASE LookupFails(p)
  <2> DEFINE c == [o EXCEPT !.found = NoSession]
  <2>1. /\ UNCHANGED screenOnly /\ UNCHANGED watchers
        /\ screen' = [screen EXCEPT ![p] = Hangs(c)] /\ o.found = "reading"
    BY <1>6 DEF LookupFails
  <2>2. c \in Connections /\ c.found = NoSession /\ c.attached = o.attached /\ c.sid = o.sid
        /\ c.link = o.link /\ c.asked = o.asked /\ c.socket = o.socket
    BY <1>0 DEF Connections
  <2>3. /\ o.asked = 0 => o.attached = NoSession
        /\ o.socket \in {"open", "closing"} => o.sid \in Sessions /\ link[o.sid] > 0
    BY DEF WatchInv, LinkInv, AskInv
  <2>4. \A r \in Sessions : p \in watchers[r] =>
          o.socket \in {"open", "closing"} /\ o.attached = r /\ r \in live
    BY DEF WatchInv, NobodyWatchesInVain
  <2>5. watchers' \in [Sessions -> SUBSET Screens]
    BY <2>1 DEF WatchInv, WatchTypes
  <2> DEFINE d == Hangs(c)
  <2> HIDE DEF c, o
  <2>6. /\ d \in Connections /\ d.found = NoSession /\ d.attached = o.attached /\ d.sid = o.sid
        /\ d.asked = o.asked
        /\ d.socket \in {"open", "closing"} <=> o.socket \in {"open", "closing"}
    BY <2>2, HangsIs
  <2>7. screen' = [screen EXCEPT ![p] = d]
    BY <2>1
  <2> HIDE DEF d
  <2>8. QED
    BY <2>1, <2>3, <2>4, <2>5, <2>6, <2>7, WatchStep DEF Becomes, NoSession
<1>7. CASE Drops(p)
  <2> DEFINE c == [o EXCEPT !.socket = "gone"]
  <2>1. /\ UNCHANGED screenOnly /\ screen' = [screen EXCEPT ![p] = c]
        /\ watchers' = [s \in Sessions |-> IF s = o.attached THEN watchers[s] \ {p} ELSE watchers[s]]
    BY <1>7 DEF Drops
  <2>2. c \in Connections /\ c.found = o.found /\ c.attached = o.attached /\ c.sid = o.sid
        /\ c.link = o.link /\ c.asked = o.asked /\ c.socket = "gone"
    BY <1>0 DEF Connections, Sockets
  <2>3. \A r \in Sessions : p \in watchers[r] => o.attached = r
    BY DEF WatchInv, NobodyWatchesInVain
  <2>4. /\ watchers' \in [Sessions -> SUBSET Screens]
        /\ \A r \in Sessions : watchers'[r] \ {p} = watchers[r] \ {p} /\ p \notin watchers'[r]
    BY <2>1, <2>3 DEF WatchInv, WatchTypes
  <2>5. /\ o.asked = 0 => o.found = NoSession /\ o.attached = NoSession
        /\ o.found # NoSession => o.attached = NoSession
        /\ o.found = "reading" => o.sid \in Sessions /\ o.asked <= link[o.sid]
        /\ o.found \in Sessions => o.asked <= o.link
    BY DEF WatchInv, AskInv, LinkInv
  <2> HIDE DEF c, o
  <2>6. QED
    BY <2>1, <2>2, <2>4, <2>5, WatchStep DEF Becomes
<1>8. CASE Forgets(p)
  <2>1. /\ UNCHANGED screenOnly /\ UNCHANGED watchers
        /\ screen' = [screen EXCEPT ![p] = NoSocket] /\ o.socket = "gone"
    BY <1>8 DEF Forgets
  <2>2. /\ NoSocket \in Connections /\ NoSocket.found = NoSession
        /\ NoSocket.attached = NoSession /\ NoSocket.socket = "none"
    BY DEF NoSocket, Connections, Sockets
  <2>3. \A r \in Sessions : p \notin watchers[r]
    BY <2>1 DEF WatchInv, NobodyWatchesInVain
  <2>4. watchers' \in [Sessions -> SUBSET Screens]
    BY <2>1 DEF WatchInv, WatchTypes
  <2>5. QED
    BY <2>1, <2>2, <2>3, <2>4, WatchStep DEF Becomes, NoSession
<1>9. QED
  BY <1>1, <1>2, <1>3, <1>4, <1>5, <1>6, <1>7, <1>8 DEF BrowserSource

\* performClose() ends the session of t: whoever watched it is hung up on.
LEMMA ClosesStep ==
  ASSUME WatchInv, TokenInv, NEW t \in Tabs, Closes(t)
  PROVE  WatchInv'
<1> DEFINE s == tab[t].sid
<1>1. PICK r \in Sessions : r = s
  BY DEF Closes, TokenInv, TokenTypes
<1>2. /\ live' = live \ {r} /\ watchers' = [watchers EXCEPT ![r] = {}] /\ link' = link
      /\ screen' = [p \in Screens |->
           IF p \in watchers[r] /\ screen[p].socket = "open"
           THEN [screen[p] EXCEPT !.socket = "closing"] ELSE screen[p]]
  BY <1>1 DEF Closes, WatchersCleared, startVars
<1>3. \A p \in Screens :
        /\ screen'[p] \in Connections
        /\ screen'[p].sid = screen[p].sid /\ screen'[p].link = screen[p].link
        /\ screen'[p].found = screen[p].found /\ screen'[p].attached = screen[p].attached
        /\ screen'[p].asked = screen[p].asked
        /\ screen'[p].socket \in {"open", "closing"} <=> screen[p].socket \in {"open", "closing"}
  BY <1>2 DEF WatchInv, WatchTypes, Connections, Sockets
<1>4. WatchTypes'
  BY <1>2, <1>3 DEF WatchInv, WatchTypes
<1>5. AskInv'
  BY <1>3 DEF WatchInv, AskInv
<1>6. LinkInv'
  BY <1>2, <1>3 DEF WatchInv, LinkInv
<1>7. NobodyWatchesInVain'
  <2> SUFFICES ASSUME NEW q \in Sessions, NEW p \in watchers'[q]
               PROVE  /\ screen'[p].socket \in {"open", "closing"} /\ screen'[p].attached = q
                      /\ q \in live'
    BY DEF NobodyWatchesInVain
  <2>1. q # r /\ p \in watchers[q] /\ p \in Screens
    BY <1>2 DEF WatchInv, WatchTypes
  <2>2. QED
    BY <1>2, <1>3, <2>1 DEF WatchInv, NobodyWatchesInVain
<1>8. QED
  BY <1>4, <1>5, <1>6, <1>7 DEF WatchInv

LEMMA WatchNext == WatchInv /\ TokenInv /\ [Next]_vars => WatchInv'
<1> SUFFICES ASSUME WatchInv, TokenInv, [Next]_vars PROVE WatchInv'
  OBVIOUS
<1>0. live \subseteq Sessions /\ link \in [Sessions -> Nat]
  BY DEF WatchInv, WatchTypes, TokenInv, TokenTypes
<1>1. CASE TimePasses
  BY <1>0, <1>1, WatchStutter DEF TimePasses, startVars, studioVars
<1>2. ASSUME NEW s \in Sessions, Start(s) \/ Rotate(s) PROVE WatchInv'
  <2>1. link' = [link EXCEPT ![s] = @ + 1] /\ UNCHANGED <<live, screen, watchers>>
    BY <1>2 DEF Start, Rotate, NewLink, studioVars
  <2>2. link' \in [Sessions -> Nat] /\ \A r \in Sessions : link[r] <= link'[r]
    BY <1>0, <2>1
  <2>3. QED
    BY <1>0, <2>1, <2>2, WatchStutter
<1>3. ASSUME NEW t \in Tabs, Studio(t) PROVE WatchInv'
  <2>1. CASE Closes(t)
    BY <2>1, ClosesStep
  <2>2. ASSUME NEW k, Registers(t, k), Past(t, tab[t].sid) PROVE live \subseteq live' /\ live' \subseteq Sessions
    BY <1>0, <2>2 DEF Registers, Past, TokenInv, TokenTypes
  <2>3. CASE Capped(t) \/ Inserts(t)
    <3>1. UNCHANGED <<screen, watchers, link>> /\ Past(t, tab[t].sid)
      BY <2>3 DEF Capped, Inserts, Past, startVars
    <3>2. live \subseteq live' /\ live' \subseteq Sessions
      BY <1>0, <2>2, <2>3, <3>1 DEF Capped, Inserts
    <3>3. QED
      BY <1>0, <3>1, <3>2, WatchStutter
  <2>4. CASE (\E s \in Sessions : Hello(t, s)) \/ Claims(t) \/ TurnedAway(t) \/ Selects(t) \/ Creates(t)
    <3>1. UNCHANGED <<live, screen, watchers, link>>
      BY <2>4 DEF Hello, Claims, TurnedAway, Selects, Creates, startVars
    <3>2. QED
      BY <1>0, <3>1, WatchStutter
  <2>5. QED
    BY <1>3, <2>1, <2>3, <2>4 DEF Studio
<1>4. ASSUME NEW p \in Screens, BrowserSource(p) PROVE WatchInv'
  BY <1>4, SourceStep
<1>5. CASE UNCHANGED vars
  BY <1>0, <1>5, WatchStutter DEF vars, startVars, studioVars
<1>6. QED
  BY <1>1, <1>2, <1>3, <1>4, <1>5 DEF Next

LEMMA WatchAlways == Spec => []WatchInv
<1>1. QED
  BY WatchInit, WatchNext, TokenAlways, PTL DEF Spec

\* An actor sends to no connection that is gone, and a session that is over is watched by
\* nobody, however many pages look up, drop and dial again (server.ts:358-376).
THEOREM AccessNobodyWatchesInVain == Spec => []NobodyWatchesInVain
<1>1. WatchInv => NobodyWatchesInVain
  BY DEF WatchInv
<1>2. QED
  BY <1>1, WatchAlways, PTL

\* A link that was replaced before it was presented attaches nobody, for any number of
\* links and of pages that present them (index.ts:88-93).
THEOREM AccessOldLinkAttachesNobody == Spec => OldLinkAttachesNobody
<1> DEFINE Fresh == \A s \in Sessions : \A p \in watchers'[s] \ watchers[s] : screen[p].link >= screen[p].asked
<1>1. ASSUME WatchInv, TokenInv, [Next]_vars PROVE Fresh \/ UNCHANGED vars
  <2> SUFFICES ASSUME Next, NEW s \in Sessions, NEW p \in watchers'[s] \ watchers[s]
               PROVE  screen[p].link >= screen[p].asked
    BY <1>1
  <2>1. watchers \in [Sessions -> SUBSET Screens] /\ watchers' \in [Sessions -> SUBSET Screens]
    BY <1>1, WatchNext DEF WatchInv, WatchTypes
  <2>2. ASSUME NEW t \in Tabs, Closes(t) PROVE FALSE
    BY <2>1, <2>2 DEF Closes, WatchersCleared
  <2>3. ASSUME NEW q \in Screens, Drops(q) PROVE FALSE
    BY <2>1, <2>3 DEF Drops
  <2>4. ASSUME NEW q \in Screens, Found(q) PROVE screen[p].link >= screen[p].asked
    <3> DEFINE found == screen[q].found
    <3>1. found \in live /\ p = q
      BY <2>1, <2>4 DEF Found
    <3>2. QED
      BY <1>1, <3>1 DEF WatchInv, WatchTypes, LinkInv, Connections
  <2>5. CASE UNCHANGED watchers
    BY <2>5
  <2>6. QED
    BY <2>2, <2>3, <2>4, <2>5
    DEF Next, TimePasses, Start, Rotate, Studio, Hello, Claims, TurnedAway, Selects, Creates, Capped,
        Inserts, BrowserSource, Dials, NoAttach, Attach, Reads, LookupFails, Forgets
<1>2. QED
  BY <1>1, WatchAlways, TokenAlways, PTL DEF Spec, OldLinkAttachesNobody
=============================================================================
