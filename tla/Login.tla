------------------------------- MODULE Login -------------------------------
(***************************************************************************)
(* The web sessions of one account: lib/auth/session.ts, the route         *)
(* handlers of app/api/auth and app/api/account/delete that open and close *)
(* them, the reset links of lib/auth/tokens.ts, and the glossaries         *)
(* (app/api/glossary) as an example of what a handler does with a session. *)
(*                                                                         *)
(* Every `await` of a handler is a step of its own: the requests of        *)
(* several tabs interleave in between.  A handler that throws answers 500, *)
(* and Next.js then drops the cookies it had set.                          *)
(*                                                                         *)
(* Time is counted in steps of ten days, and passes between requests.  A   *)
(* password is a number: the n-th of the account, and 0 for none.          *)
(***************************************************************************)
EXTENDS Integers, FiniteSets

CONSTANTS
  Tabs,           \* where requests come from: one at a time each
  Browser(_),     \* the browser, and its cookie jar, that a tab belongs to
  TTL,            \* SESSION_TTL_SECONDS, in units of SLIDE_AFTER_SECONDS
  MaxGlossaries,  \* MAX_GLOSSARIES_PER_USER
  MaxNow,         \* bound on time, for model checking only
  MaxIds,         \* bound on the sessions opened, for model checking only
  MaxPasswords,   \* bound on the passwords of the account, for model checking only
  MaxFaults       \* bound on the handlers that throw, for model checking only

ASSUME LoginAssumption ==
  /\ IsFiniteSet(Tabs)
  /\ TTL \in Nat \ {0} /\ MaxGlossaries \in Nat
  /\ MaxNow \in Nat /\ MaxIds \in Nat /\ MaxPasswords \in Nat \ {0} /\ MaxFaults \in Nat

VARIABLES
  now,
  user,        \* its row of users: password, deleted
  sessions,    \* auth_sessions: records of id, until, and (history) the password behind it
  glossaries,  \* how many it has
  links,       \* reset tokens in Redis: the browser each was asked for from
  cookie,      \* what each browser holds: id, until
  req,         \* what each tab waits for
  opened,      \* session ids so far
  passwords,   \* passwords so far
  faults,
  \* History, for the properties only:
  outlived     \* sessions that a change of password missed, and the reason is known

tables == <<user, sessions, glossaries>>
bounds == <<opened, passwords, faults>>
loginVars == <<now, tables, links, cookie, req, bounds, outlived>>

Browsers == {Browser(t) : t \in Tabs}
NoCookie == [id |-> 0, until |-> 0]
\* `set` is the cookie of the response, Keep when it sets none.
Keep == [id |-> -1, until |-> 0]
NoRequest == [op |-> "none", at |-> "idle", sid |-> 0, knows |-> 0, set |-> Keep]

\* What the panel asks with a session, and what anybody may ask.
SignedInOps == {"page", "addGlossary", "dropGlossary", "change", "delete"}
Ops == SignedInOps \cup {"login", "logout", "reset", "none"}
Steps == {"idle", "slide", "work", "verify", "insert", "erase", "update", "destroy",
          "revoke", "mint", "done"}

LoginInit ==
  /\ now = 0
  /\ user = [password |-> 1, deleted |-> FALSE]
  /\ sessions = {} /\ glossaries = 0 /\ links = {}
  /\ cookie = [b \in Browsers |-> NoCookie]
  /\ req = [t \in Tabs |-> NoRequest]
  /\ opened = 0 /\ passwords = 1 /\ faults = 0
  /\ outlived = {}

-----------------------------------------------------------------------------
(* Steps of a handler                                                      *)

Live(id) == {s \in sessions : s.id = id /\ s.until > now}
Ids == {s.id : s \in sessions}

\* Faulty variant: the old sessions are dropped before the password is replaced.
AfterSwapped(op, at) ==
  CASE at = "verify" -> IF op = "change" THEN "revoke" ELSE "erase"
    [] at = "revoke" -> IF op = "delete" THEN "destroy" ELSE "update"
    [] at = "update" -> IF op = "delete" THEN "revoke" ELSE "mint"
    [] at = "erase" -> "update"
    [] at = "destroy" -> IF op = "login" THEN "mint" ELSE "done"
    [] OTHER -> "done"

\* Which await follows.  login: destroy, mint.  change and reset: update, then
\* rotateAuthSession's revoke and mint.  delete: erase, update, revoke, destroy.
After(op, at) ==
  CASE at = "verify" -> IF op = "delete" THEN "erase" ELSE "update"
    [] at = "erase" -> "update"
    [] at = "update" -> "revoke"
    [] at = "revoke" -> IF op = "delete" THEN "destroy" ELSE "mint"
    [] at = "destroy" -> IF op = "login" THEN "mint" ELSE "done"
    [] OTHER -> "done"

\* The first await of a handler that needs a session, once it has one.
First(op) ==
  CASE op \in {"change", "delete"} -> "verify"
    [] op \in {"addGlossary", "dropGlossary"} -> "work"
    [] OTHER -> "done"

At(t, step) == req[t].at = step
Go(t, to) == req' = [req EXCEPT ![t].at = to]

\* Faulty variant: the renewal writes the row whether it is still there or not.
RenewedAgain(id) ==
  {s \in sessions : s.id # id} \cup {[id |-> id, until |-> now + TTL, password |-> user.password]}

\* UPDATE auth_sessions SET expires_at WHERE id
Renewed(id) == {IF s.id = id THEN [s EXCEPT !.until = now + TTL] ELSE s : s \in sessions}

\* slideIfStale(): ten days of the thirty are gone.
Stale(s) == s.until - now <= TTL - 1

-----------------------------------------------------------------------------
(* Reading a session                                                       *)

\* Faulty variant: whether the account is deleted is not asked.
LetInAnyway(id) == Live(id) # {}

LetIn(id) == Live(id) # {} /\ ~user.deleted

\* A request that needs a session: the middleware wants a cookie, and
\* readAuthSession() the row of it, not expired, of an account not deleted.
Ask(t, op) ==
  LET held == cookie[Browser(t)]
      s == CHOOSE s \in Live(held.id) : TRUE
  IN /\ At(t, "idle") /\ op \in SignedInOps
     /\ LetIn(held.id)
     /\ req' = [req EXCEPT ![t] = [op |-> op, sid |-> held.id, knows |-> 0, set |-> Keep,
                                   at |-> IF Stale(s) THEN "slide" ELSE First(op)]]
     /\ UNCHANGED <<now, tables, links, cookie, bounds, outlived>>

\* slideIfStale() renews the row; a server component cannot set the cookie.
Slide(t) ==
  /\ At(t, "slide")
  /\ sessions' = Renewed(req[t].sid)
  /\ req' = [req EXCEPT ![t].at = First(req[t].op),
                        ![t].set = IF req[t].op = "page" THEN Keep
                                   ELSE [id |-> req[t].sid, until |-> now + TTL]]
  /\ UNCHANGED <<now, user, glossaries, links, cookie, bounds, outlived>>

\* The response, with its cookie, reaches the browser.
Answer(t) ==
  LET b == Browser(t)
  IN /\ At(t, "done")
     /\ cookie' = [cookie EXCEPT ![b] = IF req[t].set = Keep THEN @ ELSE req[t].set]
     /\ req' = [req EXCEPT ![t] = NoRequest]
     /\ UNCHANGED <<now, tables, links, bounds, outlived>>

\* A call of the database throws, and the handler with it.
Fail(t) ==
  /\ ~At(t, "idle") /\ ~At(t, "done") /\ faults < MaxFaults
  /\ faults' = faults + 1
  /\ req' = [req EXCEPT ![t] = NoRequest]
  /\ outlived' = IF At(t, "revoke") THEN outlived \cup Ids ELSE outlived
  /\ UNCHANGED <<now, tables, links, cookie, opened, passwords>>

-----------------------------------------------------------------------------
(* Opening and closing sessions                                            *)

\* login/route.ts: the user's row is read and the password typed is the one in it.
Login(t) ==
  /\ At(t, "idle") /\ user.password # 0 /\ ~user.deleted /\ opened < MaxIds
  /\ req' = [req EXCEPT ![t] = [op |-> "login", at |-> "destroy", knows |-> user.password,
                                sid |-> cookie[Browser(t)].id, set |-> Keep]]
  /\ UNCHANGED <<now, tables, links, cookie, bounds, outlived>>

Logout(t) ==
  /\ At(t, "idle") /\ cookie[Browser(t)] # NoCookie
  /\ req' = [req EXCEPT ![t] = [NoRequest EXCEPT !.op = "logout", !.at = "destroy",
                                                 !.sid = cookie[Browser(t)].id]]
  /\ UNCHANGED <<now, tables, links, cookie, bounds, outlived>>

\* forgot/route.ts: a link, by mail, for an account that is there.
Forgot(t) ==
  /\ At(t, "idle") /\ ~user.deleted /\ passwords < MaxPasswords
  /\ links' = links \cup {Browser(t)}
  /\ UNCHANGED <<now, tables, cookie, req, bounds, outlived>>

\* A link is good for fifteen minutes.
LinkExpires(b) ==
  /\ b \in links /\ links' = links \ {b}
  /\ UNCHANGED <<now, tables, cookie, req, bounds, outlived>>

\* GETDEL
Taken(link) == links \ {link}

\* reset/route.ts: the link is taken, by whatever browser it is opened in, and
\* then the user's row is read.
Reset(t, link) ==
  /\ At(t, "idle") /\ link \in links
  /\ links' = Taken(link)
  /\ req' = IF link = Browser(t) THEN [req EXCEPT ![t] = [NoRequest EXCEPT !.op = "reset",
                                                                           !.at = "verify"]]
            ELSE req
  /\ UNCHANGED <<now, tables, cookie, bounds, outlived>>

\* The password asked for is the one stored; after a link, only that the account
\* is there.  The new one is hashed after this, before the next step.
Verify(t) ==
  LET reset == req[t].op = "reset"
      holds == IF reset THEN ~user.deleted ELSE user.password # 0
  IN /\ At(t, "verify")
     /\ \E typed \in BOOLEAN :
          Go(t, IF holds /\ (typed \/ reset) THEN After(req[t].op, "verify") ELSE "done")
     /\ UNCHANGED <<now, tables, links, cookie, bounds, outlived>>

\* UPDATE users: the new password, or the end of the account.
Update(t) ==
  /\ At(t, "update")
  /\ IF req[t].op = "delete"
     THEN /\ user' = [password |-> 0, deleted |-> TRUE]
          /\ Go(t, After("delete", "update")) /\ UNCHANGED passwords
     ELSE /\ passwords < MaxPasswords /\ passwords' = passwords + 1
          /\ user' = [user EXCEPT !.password = passwords + 1]
          /\ req' = [req EXCEPT ![t].at = After(req[t].op, "update"), ![t].knows = passwords + 1]
  /\ UNCHANGED <<now, sessions, glossaries, links, cookie, opened, faults, outlived>>

\* revokeOtherSessions(userId), which no caller tells a session to keep.
Revoked(t) == {}

Revoke(t) ==
  /\ At(t, "revoke") /\ sessions' = Revoked(t) /\ Go(t, After(req[t].op, "revoke"))
  /\ UNCHANGED <<now, user, glossaries, links, cookie, bounds, outlived>>

\* destroyAuthSession(): the row of the cookie this request came with.
Destroy(t) ==
  /\ At(t, "destroy")
  /\ sessions' = {s \in sessions : s.id # req[t].sid}
  /\ req' = [req EXCEPT ![t].at = After(req[t].op, "destroy"), ![t].set = NoCookie]
  /\ UNCHANGED <<now, user, glossaries, links, cookie, bounds, outlived>>

\* createAuthSession().  A password replaced since it was verified is not noticed.
Mint(t) ==
  LET new == [id |-> opened + 1, until |-> now + TTL]
      late == req[t].knows # user.password
  IN /\ At(t, "mint") /\ opened < MaxIds
     /\ opened' = opened + 1
     /\ sessions' = sessions \cup {[id |-> new.id, until |-> new.until, password |-> req[t].knows]}
     /\ req' = [req EXCEPT ![t].at = "done", ![t].set = new]
     /\ outlived' = IF late THEN outlived \cup {new.id} ELSE outlived
     /\ UNCHANGED <<now, user, glossaries, links, cookie, passwords, faults>>

-----------------------------------------------------------------------------
(* What a session is used for                                              *)

\* glossary/route.ts: POST counts, and inserts in a later call ...
Work(t) ==
  /\ At(t, "work")
  /\ \/ /\ req[t].op = "addGlossary"
        /\ Go(t, IF glossaries >= MaxGlossaries THEN "done" ELSE "insert")
        /\ UNCHANGED glossaries
     \/ /\ req[t].op = "dropGlossary"
        /\ glossaries' = IF glossaries > 0 THEN glossaries - 1 ELSE 0
        /\ Go(t, "done")
  /\ UNCHANGED <<now, user, sessions, links, cookie, bounds, outlived>>

\* ... without asking again whether there is room, or an account.
Insert(t) ==
  /\ At(t, "insert") /\ glossaries' = glossaries + 1 /\ Go(t, "done")
  /\ UNCHANGED <<now, user, sessions, links, cookie, bounds, outlived>>

\* account/delete/route.ts takes the glossaries before it closes the account.
Erase(t) ==
  /\ At(t, "erase") /\ glossaries' = 0 /\ Go(t, After("delete", "erase"))
  /\ UNCHANGED <<now, user, sessions, links, cookie, bounds, outlived>>

-----------------------------------------------------------------------------
\* Ten days pass; a browser forgets a cookie, as the database a row, that is due.
Tick ==
  /\ \A t \in Tabs : At(t, "idle") /\ now < MaxNow
  /\ now' = now + 1
  /\ cookie' = [b \in Browsers |-> IF cookie[b].until <= now + 1 THEN NoCookie ELSE cookie[b]]
  /\ links' = {}
  /\ UNCHANGED <<tables, req, bounds, outlived>>

LoginNext ==
  \/ Tick
  \/ \E b \in Browsers : LinkExpires(b)
  \/ \E t \in Tabs :
       \/ \E op \in SignedInOps : Ask(t, op)
       \/ Slide(t) \/ Answer(t) \/ Fail(t)
       \/ Login(t) \/ Logout(t) \/ Forgot(t) \/ \E link \in links : Reset(t, link)
       \/ Verify(t) \/ Update(t) \/ Revoke(t) \/ Destroy(t) \/ Mint(t)
       \/ Work(t) \/ Insert(t) \/ Erase(t)

LoginSpec == LoginInit /\ [][LoginNext]_loginVars

-----------------------------------------------------------------------------
(* Properties                                                              *)

\* Types.
LoginTypeOK ==
  /\ now \in 0..MaxNow
  /\ user \in [password : 0..MaxPasswords, deleted : BOOLEAN]
  /\ \A s \in sessions : /\ s.id \in 1..opened /\ s.until \in 0..(MaxNow + TTL)
                         /\ s.password \in 0..MaxPasswords
  /\ glossaries \in Nat
  /\ links \subseteq Browsers
  /\ cookie \in [Browsers -> [id : 0..opened, until : 0..(MaxNow + TTL)]]
  /\ \A t \in Tabs : /\ req[t].op \in Ops /\ req[t].at \in Steps /\ req[t].sid \in 0..opened
                     /\ req[t].knows \in 0..MaxPasswords
  /\ opened \in 0..MaxIds /\ passwords \in 1..MaxPasswords /\ faults \in 0..MaxFaults
  /\ outlived \subseteq 1..opened

\* "Every other session dies with the old password" (password/reset/route.ts:55,
\* session.ts:131): once a change, a reset or a deletion has dropped the
\* sessions, each one there is was opened with the password that is in force.
\* Two kinds are missed: a session whose opening was under way, with the old
\* password already verified, and all of them when the call that drops them fails.
OldSessionsDie ==
  \A s \in sessions :
    \/ s.password = user.password \/ s.id \in outlived
    \/ \E t \in Tabs : At(t, "revoke")

\* A session that was dropped, by a logout or by a change of password, is not
\* brought back by a request that read it before (session.ts:91, slideIfStale).
DeadStaysDead == [][\A id \in 1..opened : id \notin Ids => id \notin {s.id : s \in sessions'}]_loginVars

\* The requests that may still add a glossary.
Adding == {t \in Tabs : At(t, "insert") \/ (req[t].op = "addGlossary" /\ req[t].at \in {"slide", "work"})}

\* What a deleted account may yet gain is settled when it is closed: its glossaries and the
\* requests under way that may add one never get more together, whichever sessions are still
\* to be dropped, renewed or opened (account/delete/route.ts:61-66, session.ts:91).
ClosedAccountRests ==
  [][user.deleted => glossaries' + Cardinality(Adding') <= glossaries + Cardinality(Adding)]_loginVars
=============================================================================
