-------------------------- MODULE AdminSessionProofs --------------------------
(***************************************************************************)
(* Proofs about AdminSession, for any number of tabs and codes and any     *)
(* lifetimes of session and captcha.                                       *)
(*                                                                         *)
(* The inductive invariant is split into what it says of the browser and   *)
(* what it says of the request of one tab.                                 *)
(***************************************************************************)
EXTENDS AdminSession, TLAPS

BrowserInv ==
    /\ granted <= now
    /\ jar.session # NoCookie => jar.session.exp <= granted + SessionTTL
    /\ owner \in Tabs =>
          IF jar.captcha = NoCookie THEN now > 0
          ELSE tab[owner].code \in {NoCode, jar.captcha.code}

Shape(r) ==
    /\ r.at # "answered" => r.show = "none" /\ r.put = "nothing"
    /\ r.put = "session" => r.op = "submit" /\ r.session # NoCookie
    /\ r.put = "captcha" => r.op = "image"
    /\ r.op = "image" /\ r.at = "answered" =>
          r.put = "captcha" /\ r.show = "none" /\ r.captcha.code \in Codes
    /\ r.op = "admin" => r.go \in {"none", "login"} /\ r.put = "nothing"
    /\ r.op = "login" => r.go \in {"none", "admin"} /\ r.put = "nothing"
    /\ r.op \notin {"admin", "login"} => r.hops = 0

Spent(r) ==
    /\ r.hops <= 3
    /\ r.op = "admin" => r.hops <= 2
    /\ r.at = "sent" /\ r.hops >= 1 => jar.session \in {r.session, NoCookie}
    /\ r.at = "sent" /\ r.op = "login" /\ r.hops >= 2 => ~Verify(r.session)
    /\ r.at = "answered" /\ r.op = "login" /\ r.go = "admin" => r.hops <= 1
    /\ r.at = "answered" /\ r.op = "admin" /\ r.go = "login" /\ r.hops >= 1 =>
          ~Verify(jar.session)

Bounded(r) == r.session # NoCookie => r.session.exp <= granted + SessionTTL

Fits(r) ==
    r.op = "submit" /\ r.at = "sent" /\ r.fair =>
        IF r.captcha = NoCookie THEN now > 0 ELSE r.captcha.code = r.answer

RequestInv(r) == Shape(r) /\ Spent(r) /\ Bounded(r) /\ Fits(r)

LEMMA InvariantByTab ==
    /\ IInv <=> TypeOK /\ BrowserInv /\ \A t \in Tabs : RequestInv(req[t])
    /\ IInv' <=> TypeOK' /\ BrowserInv' /\ \A t \in Tabs : RequestInv(req[t])'
  <1>. USE DEF IInv, RequestShapes, SessionsExpire, CaptchaFits, RedirectsAreSpent,
               BrowserInv, RequestInv, Shape, Spent, Bounded, Fits, At
  <1>1. IInv <=> TypeOK /\ BrowserInv /\ \A t \in Tabs : RequestInv(req[t])
    OBVIOUS
  <1>2. IInv' <=> TypeOK' /\ BrowserInv' /\ \A t \in Tabs : RequestInv(req[t])'
    OBVIOUS
  <1>. QED
    BY <1>1, <1>2

-----------------------------------------------------------------------------
LEMMA Numbers ==
    /\ SessionTTL \in Nat /\ CaptchaTTL \in Nat /\ MaxNow \in Nat
    /\ SessionTTL > 0 /\ CaptchaTTL > 0
  BY SessionAssumption

LEMMA Nothing ==
    /\ NoCookie \in Cookie /\ NoCookie.exp = 0 /\ NoReq \in Request
    /\ NoReq.op = "none" /\ NoReq.at = "none" /\ NoReq.hops = 0
    /\ NoReq.show = "none" /\ NoReq.go = "none" /\ NoReq.put = "nothing"
    /\ NoReq.session = NoCookie /\ NoReq.captcha = NoCookie
  <1>1. NoCookie \in Cookie /\ NoCookie.exp = 0
    BY DEF NoCookie, Cookie
  <1>. QED
    BY <1>1 DEF NoReq, Request, Ops, Targets, TooMany

LEMMA NoReqIsFine == RequestInv(NoReq) /\ RequestInv(NoReq)'
  BY Nothing DEF RequestInv, Shape, Spent, Bounded, Fits, NoReq

(* A session that has expired stays so.                                    *)
LEMMA TimeOnlyKills ==
    ASSUME now \in Nat, now' \in Nat, now <= now', NEW c \in Cookie, ~Verify(c)
    PROVE  ~Verify(c)'
  BY DEF Verify, Cookie

(* A step of one tab: its request, and perhaps a grant.                    *)
LEMMA TabMoves ==
    ASSUME IInv, NEW t \in Tabs, NEW r \in Request,
           req' = [req EXCEPT ![t] = r],
           tab' \in [Tabs -> [page : Targets, code : Codes \cup {NoCode}]],
           \A u \in Tabs : tab'[u].code \in {tab[u].code, NoCode},
           UNCHANGED <<now, jar, owner>>,
           granted' \in Int, granted <= granted', granted' <= now,
           RequestInv(r)'
    PROVE  IInv'
  <1>1. TypeOK /\ BrowserInv /\ \A u \in Tabs : RequestInv(req[u])
    BY InvariantByTab
  <1>2. TypeOK'
    BY <1>1 DEF TypeOK
  <1>3. /\ req'[t] = r
        /\ \A u \in Tabs \ {t} : req'[u] = req[u]
    BY <1>1 DEF TypeOK
  <1>4. /\ now \in Nat /\ granted \in Int /\ jar.session \in Cookie
        /\ \A u \in Tabs : req[u].session \in Cookie
    <2>1. now \in Nat
      BY <1>1, Numbers DEF TypeOK
    <2>. QED
      BY <1>1, <2>1 DEF TypeOK, Request
  <1>5. BrowserInv'
    <2>1. jar.session # NoCookie => jar.session.exp <= granted' + SessionTTL
      BY <1>1, <1>4, Numbers DEF BrowserInv, Cookie
    <2>2. owner \in Tabs =>
            IF jar.captcha = NoCookie THEN now > 0
            ELSE tab'[owner].code \in {NoCode, jar.captcha.code}
      BY <1>1 DEF BrowserInv
    <2>. QED
      BY <2>1, <2>2 DEF BrowserInv
  <1>6. ASSUME NEW u \in Tabs \ {t} PROVE RequestInv(req[u])'
    <2>1. Bounded(req[u])'
      BY <1>1, <1>3, <1>4, Numbers DEF RequestInv, Bounded, Cookie
    <2>. QED
      BY <1>1, <1>3, <2>1 DEF RequestInv, Shape, Spent, Fits, Verify
  <1>7. RequestInv(req[t])'
    BY <1>3 DEF RequestInv, Shape, Spent, Bounded, Fits, Verify
  <1>. QED
    BY <1>2, <1>5, <1>6, <1>7, InvariantByTab

-----------------------------------------------------------------------------
(* The browser's steps.                                                    *)

LEMMA AskIsFresh ==
    ASSUME NEW op \in Ops, NEW cookies \in [session : Cookie, captcha : Cookie],
           NEW r, r = Ask(op, cookies)
    PROVE  /\ r \in Request /\ r.op = op /\ r.at = "sent" /\ r.hops = 0
           /\ r.show = "none" /\ r.go = "none" /\ r.put = "nothing" /\ ~r.fair
           /\ r.session = IF op \in {"admin", "login"} THEN cookies.session ELSE NoCookie
           /\ r.captcha = IF op = "submit" THEN cookies.captcha ELSE NoCookie
  BY Nothing DEF Ask, Request, NoReq

LEMMA SendStep ==
    ASSUME IInv, NEW t \in Tabs, NEW r \in Request, Send(t, r), RequestInv(r)
    PROVE  IInv'
  <1>1. TypeOK /\ BrowserInv
    BY InvariantByTab
  <1>2. /\ UNCHANGED <<now, jar, tab, granted, owner>>
        /\ req' = [req EXCEPT ![t] = r]
    BY DEF Send
  <1>3. /\ tab' \in [Tabs -> [page : Targets, code : Codes \cup {NoCode}]]
        /\ \A u \in Tabs : tab'[u].code \in {tab[u].code, NoCode}
        /\ granted' \in Int /\ granted <= granted' /\ granted' <= now
    BY <1>1, <1>2 DEF TypeOK, BrowserInv
  <1>4. RequestInv(r)'
    BY <1>2 DEF RequestInv, Shape, Spent, Bounded, Fits, Verify
  <1>. QED
    BY <1>2, <1>3, <1>4, TabMoves

LEMMA BrowseStep ==
    ASSUME IInv, NEW t \in Tabs, Browse(t)
    PROVE  IInv'
  <1>1. /\ TypeOK /\ BrowserInv /\ jar \in [session : Cookie, captcha : Cookie]
    BY InvariantByTab DEF TypeOK
  <1>2. ASSUME NEW op \in {"admin", "login", "logout", "image"}, Send(t, Ask(op, jar))
        PROVE  IInv'
    <2>1. PICK r : r = Ask(op, jar)
      OBVIOUS
    <2>2. op \in Ops
      BY DEF Ops
    <2>3. r \in Request /\ RequestInv(r)
      BY <1>1, <2>1, <2>2, AskIsFresh, Nothing
      DEF RequestInv, Shape, Spent, Bounded, Fits, BrowserInv
    <2>. QED
      BY <1>2, <2>1, <2>3, SendStep
  <1>3. ASSUME Submit(t) PROVE IInv'
    <2>1. PICK answer \in {tab[t].code, NoCode} :
             Send(t, [Ask("submit", jar) EXCEPT !.answer = answer,
                         !.fair = owner = t /\ answer = tab[t].code])
      BY <1>3 DEF Submit
    <2>2. PICK q : q = Ask("submit", jar)
      OBVIOUS
    <2>3. /\ q \in Request /\ q.op = "submit" /\ q.at = "sent" /\ q.hops = 0
          /\ q.show = "none" /\ q.put = "nothing"
          /\ q.session = NoCookie /\ q.captcha = jar.captcha
      <3>1. "submit" \in Ops
        BY DEF Ops
      <3>. QED
        BY <1>1, <2>2, <3>1, AskIsFresh
    <2>4. PICK r : r = [q EXCEPT !.answer = answer,
                                 !.fair = owner = t /\ answer = tab[t].code]
      OBVIOUS
    <2>5. answer \in Codes \cup {NoCode} /\ (owner = t /\ answer = tab[t].code) \in BOOLEAN
      BY <1>1 DEF TypeOK
    <2>6. /\ r \in Request /\ r.op = "submit" /\ r.at = "sent" /\ r.hops = 0
          /\ r.show = "none" /\ r.put = "nothing"
          /\ r.session = NoCookie /\ r.captcha = jar.captcha
          /\ r.answer = answer /\ (r.fair => owner = t /\ answer = tab[t].code)
      BY <2>3, <2>4, <2>5 DEF Request
    <2>7. tab[t].code # NoCode
      BY <1>3 DEF Submit
    <2>8. RequestInv(r)
      BY <1>1, <2>6, <2>7 DEF RequestInv, Shape, Spent, Bounded, Fits, BrowserInv
    <2>. QED
      BY <2>1, <2>2, <2>4, <2>6, <2>8, SendStep
  <1>4. ASSUME Lose(t) PROVE IInv'
    <2>1. /\ req' = [req EXCEPT ![t] = NoReq]
          /\ tab' = [tab EXCEPT ![t] = [page |-> "none", code |-> NoCode]]
          /\ UNCHANGED <<now, jar, granted, owner>>
      BY <1>4 DEF Lose
    <2>2. /\ tab' \in [Tabs -> [page : Targets, code : Codes \cup {NoCode}]]
          /\ \A u \in Tabs : tab'[u].code \in {tab[u].code, NoCode}
      BY <1>1, <2>1 DEF TypeOK, Targets
    <2>3. granted' \in Int /\ granted <= granted' /\ granted' <= now
      BY <1>1, <2>1 DEF TypeOK, BrowserInv
    <2>. QED
      BY <2>1, <2>2, <2>3, Nothing, NoReqIsFine, TabMoves
  <1>. QED
    BY <1>2, <1>3, <1>4 DEF Browse, Visit, ClickLogout, LoadImage

-----------------------------------------------------------------------------
(* The server's steps.                                                     *)

LEMMA ServeMoves ==
    ASSUME IInv, NEW t \in Tabs, NEW r \in Request, req' = [req EXCEPT ![t] = r],
           Unserved, granted' = granted, RequestInv(r)
    PROVE  IInv'
  <1>1. TypeOK /\ BrowserInv /\ UNCHANGED <<now, jar, tab, owner, granted>>
    BY InvariantByTab DEF Unserved
  <1>2. /\ tab' \in [Tabs -> [page : Targets, code : Codes \cup {NoCode}]]
        /\ \A u \in Tabs : tab'[u].code \in {tab[u].code, NoCode}
        /\ granted' \in Int /\ granted <= granted' /\ granted' <= now
    BY <1>1 DEF TypeOK, BrowserInv
  <1>3. RequestInv(r)'
    BY <1>1 DEF RequestInv, Shape, Spent, Bounded, Fits, Verify
  <1>. QED
    BY <1>1, <1>2, <1>3, TabMoves

LEMMA AnswerKeeps ==
    ASSUME TypeOK, NEW t \in Tabs, NEW a, a = Answer(t)
    PROVE  /\ a \in Request /\ a.op = req[t].op /\ a.at = "answered"
           /\ a.hops = req[t].hops /\ a.session = NoCookie /\ a.captcha = NoCookie
           /\ a.show = "none" /\ a.go = "none" /\ a.put = "nothing"
  BY Nothing DEF Answer, TypeOK, Request, NoReq

LEMMA RespondStep ==
    ASSUME IInv, NEW t \in Tabs, NEW show \in Targets, NEW go \in Targets,
           NEW put \in {"nothing", "clear session", "clear captcha"},
           Respond(t, show, go, put), Unserved, granted' = granted,
           req[t].op # "image",
           req[t].op = "admin" => go \in {"none", "login"} /\ put = "nothing",
           req[t].op = "login" => go \in {"none", "admin"} /\ put = "nothing",
           req[t].op = "login" /\ go = "admin" => req[t].hops <= 1,
           req[t].op = "admin" /\ go = "login" /\ req[t].hops >= 1 => ~Verify(jar.session)
    PROVE  IInv'
  <1>1. TypeOK /\ RequestInv(req[t])
    BY InvariantByTab
  <1>2. PICK a : a = Answer(t)
    OBVIOUS
  <1>3. PICK r : r = [a EXCEPT !.show = show, !.go = go, !.put = put]
    OBVIOUS
  <1>4. /\ r \in Request /\ r.op = req[t].op /\ r.at = "answered"
        /\ r.hops = req[t].hops /\ r.session = NoCookie
        /\ r.show = show /\ r.go = go /\ r.put = put
    <2>1. /\ a \in Request /\ a.op = req[t].op /\ a.at = "answered"
          /\ a.hops = req[t].hops /\ a.session = NoCookie
      BY <1>1, <1>2, AnswerKeeps
    <2>2. put \in {"nothing", "session", "captcha", "clear session", "clear captcha"}
      OBVIOUS
    <2>. QED
      BY <1>3, <2>1, <2>2 DEF Request
  <1>5. RequestInv(r)
    BY <1>1, <1>4 DEF RequestInv, Shape, Spent, Bounded, Fits
  <1>6. req' = [req EXCEPT ![t] = r]
    BY <1>2, <1>3 DEF Respond
  <1>. QED
    BY <1>4, <1>5, <1>6, ServeMoves

LEMMA PageStep ==
    ASSUME IInv, NEW t \in Tabs, AdminPage(t) \/ LoginPage(t) \/ Logout(t)
    PROVE  IInv'
  <1>1. /\ TypeOK /\ RequestInv(req[t]) /\ {"none", "admin", "login"} = Targets
        /\ ~Verify(NoCookie)
    <2>1. Targets = {"none", "admin", "login"} /\ ~Verify(NoCookie)
      BY DEF Targets, Verify
    <2>. QED
      BY <2>1, InvariantByTab
  <1>2. CASE AdminPage(t)
    BY <1>1, <1>2, RespondStep
    DEF AdminPage, At, AdminFromRequest, RequestInv, Spent
  <1>3. CASE LoginPage(t)
    <2>1. /\ req[t].op = "login" /\ req[t].at = "sent"
          /\ Unserved /\ granted' = granted
          /\ IF Verify(req[t].session) THEN Respond(t, "none", "admin", "nothing")
             ELSE Respond(t, "login", "none", "nothing")
      BY <1>3 DEF LoginPage, At, AdminFromRequest
    <2>2. CASE Verify(req[t].session)
      <3>1. req[t].hops \in 0..4
        BY <1>1 DEF TypeOK, Request, TooMany
      <3>2. ~(req[t].hops >= 2)
        BY <1>1, <2>1, <2>2 DEF RequestInv, Spent
      <3>3. req[t].hops <= 1
        BY <3>1, <3>2
      <3>. QED
        BY <1>1, <2>1, <2>2, <3>3, RespondStep
    <2>3. CASE ~Verify(req[t].session)
      BY <1>1, <2>1, <2>3, RespondStep
    <2>. QED
      BY <2>2, <2>3
  <1>4. CASE Logout(t)
    BY <1>1, <1>4, RespondStep DEF Logout, At
  <1>. QED
    BY <1>2, <1>3, <1>4

LEMMA RefuseLoginStep ==
    ASSUME IInv, NEW t \in Tabs, RefuseLogin(t), req[t].op = "submit",
           Unserved, granted' = granted
    PROVE  IInv'
  BY RespondStep DEF RefuseLogin, Targets

LEMMA CaptchaImageStep ==
    ASSUME IInv, NEW t \in Tabs, CaptchaImage(t)
    PROVE  IInv'
  <1>1. TypeOK /\ RequestInv(req[t]) /\ req[t].op = "image"
    BY InvariantByTab DEF CaptchaImage, At
  <1>2. PICK a : a = Answer(t)
    OBVIOUS
  <1>3. PICK code \in Codes :
           req' = [req EXCEPT ![t] =
                     [a EXCEPT !.put = "captcha",
                         !.captcha = [NoCookie EXCEPT !.code = code, !.exp = now + CaptchaTTL]]]
    BY <1>2 DEF CaptchaImage
  <1>4. PICK c : c = [NoCookie EXCEPT !.code = code, !.exp = now + CaptchaTTL]
    OBVIOUS
  <1>5. c \in Cookie /\ c.code = code
    <2>1. now + CaptchaTTL \in Nat
      BY <1>1, Numbers DEF TypeOK
    <2>. QED
      BY <1>4, <2>1 DEF Cookie, NoCookie
  <1>6. PICK r : r = [a EXCEPT !.put = "captcha", !.captcha = c]
    OBVIOUS
  <1>7. /\ a \in Request /\ a.op = "image" /\ a.at = "answered" /\ a.hops = req[t].hops
        /\ a.session = NoCookie /\ a.show = "none"
    BY <1>1, <1>2, AnswerKeeps
  <1>8. /\ r \in Request /\ r.op = "image" /\ r.at = "answered" /\ r.put = "captcha"
        /\ r.show = "none"
        /\ r.hops = req[t].hops /\ r.session = NoCookie /\ r.captcha = c
    BY <1>5, <1>6, <1>7 DEF Request
  <1>9. RequestInv(r)
    BY <1>1, <1>5, <1>8 DEF RequestInv, Shape, Spent, Bounded, Fits
  <1>. QED
    BY <1>3, <1>4, <1>6, <1>8, <1>9, ServeMoves DEF CaptchaImage

LEMMA CheckCaptchaStep ==
    ASSUME IInv, NEW t \in Tabs, CheckCaptcha(t)
    PROVE  IInv'
  <1>1. CASE RefuseLogin(t)
    BY <1>1, RefuseLoginStep DEF CheckCaptcha, At
  <1>2. CASE req' = [req EXCEPT ![t] = [NoReq EXCEPT !.op = "submit", !.at = "checked"]]
    <2>1. PICK r : r = [NoReq EXCEPT !.op = "submit", !.at = "checked"]
      OBVIOUS
    <2>2. /\ r \in Request /\ r.op = "submit" /\ r.at = "checked" /\ r.hops = 0
          /\ r.show = "none" /\ r.put = "nothing" /\ r.session = NoCookie
      BY <2>1, Nothing DEF Request, Ops
    <2>3. RequestInv(r)
      BY <2>2 DEF RequestInv, Shape, Spent, Bounded, Fits
    <2>. QED
      BY <1>2, <2>1, <2>2, <2>3, ServeMoves DEF CheckCaptcha
  <1>. QED
    BY <1>1, <1>2 DEF CheckCaptcha

LEMMA AuthenticateStep ==
    ASSUME IInv, NEW t \in Tabs, Authenticate(t)
    PROVE  IInv'
  <1>1. CASE RefuseLogin(t)
    BY <1>1, RefuseLoginStep DEF Authenticate, At
  <1>2. CASE req' = [req EXCEPT ![t].at = "known"]
    <2>1. TypeOK /\ RequestInv(req[t]) /\ req[t].at = "checked" /\ req[t].op = "submit"
      BY InvariantByTab DEF Authenticate, At
    <2>2. PICK q \in Request : q = req[t]
      BY <2>1 DEF TypeOK
    <2>3. PICK r : r = [q EXCEPT !.at = "known"]
      OBVIOUS
    <2>4. /\ r \in Request /\ r.op = "submit" /\ r.at = "known" /\ r.hops = q.hops
          /\ r.show = q.show /\ r.put = q.put /\ r.session = q.session
      BY <2>1, <2>2, <2>3 DEF Request
    <2>5. RequestInv(r)
      BY <2>1, <2>2, <2>4 DEF RequestInv, Shape, Spent, Bounded, Fits
    <2>6. req' = [req EXCEPT ![t] = r]
      BY <1>2, <2>2, <2>3
    <2>. QED
      BY <2>4, <2>5, <2>6, ServeMoves DEF Authenticate
  <1>. QED
    BY <1>1, <1>2 DEF Authenticate

LEMMA GrantStep ==
    ASSUME IInv, NEW t \in Tabs, Grant(t)
    PROVE  IInv'
  <1>1. /\ TypeOK /\ BrowserInv /\ RequestInv(req[t]) /\ req[t].op = "submit"
        /\ UNCHANGED <<now, jar, tab, owner>> /\ granted' = now
    BY InvariantByTab DEF Grant, At, Unserved
  <1>2. PICK a : a = Answer(t)
    OBVIOUS
  <1>3. PICK c : c = [NoCookie EXCEPT !.exp = now + SessionTTL]
    OBVIOUS
  <1>4. PICK r : r = [a EXCEPT !.go = "admin", !.put = "session", !.session = c]
    OBVIOUS
  <1>5. now \in Nat /\ granted \in Int
    BY <1>1, Numbers DEF TypeOK
  <1>6. c \in Cookie /\ c.exp = now + SessionTTL /\ c # NoCookie
    <2>1. now + SessionTTL \in Nat /\ now + SessionTTL # 0
      BY <1>5, Numbers
    <2>. QED
      BY <1>3, <2>1 DEF Cookie, NoCookie
  <1>7. /\ a \in Request /\ a.op = "submit" /\ a.at = "answered" /\ a.hops = req[t].hops
        /\ a.show = "none"
    BY <1>1, <1>2, AnswerKeeps
  <1>8. /\ r \in Request /\ r.op = "submit" /\ r.at = "answered" /\ r.put = "session"
        /\ r.hops = req[t].hops /\ r.session = c
    BY <1>4, <1>6, <1>7 DEF Request, Targets
  <1>9. RequestInv(r)'
    <2>1. Bounded(r)'
      BY <1>1, <1>5, <1>6, <1>8, Numbers DEF Bounded
    <2>. QED
      BY <1>1, <1>6, <1>8, <2>1 DEF RequestInv, Shape, Spent, Fits
  <1>10. req' = [req EXCEPT ![t] = r]
    BY <1>2, <1>3, <1>4 DEF Grant
  <1>11. /\ tab' \in [Tabs -> [page : Targets, code : Codes \cup {NoCode}]]
         /\ \A u \in Tabs : tab'[u].code \in {tab[u].code, NoCode}
         /\ granted' \in Int /\ granted <= granted' /\ granted' <= now
    BY <1>1, <1>5 DEF TypeOK, BrowserInv
  <1>. QED
    BY <1>1, <1>8, <1>9, <1>10, <1>11, TabMoves

LEMMA ServeStep ==
    ASSUME IInv, NEW t \in Tabs, Serve(t)
    PROVE  IInv'
  BY PageStep, CaptchaImageStep, CheckCaptchaStep, AuthenticateStep, GrantStep DEF Serve

-----------------------------------------------------------------------------
(* The clock.                                                              *)

LEMMA TickStep ==
    ASSUME IInv, Tick
    PROVE  IInv'
  <1>1. TypeOK /\ BrowserInv /\ \A t \in Tabs : RequestInv(req[t])
    BY InvariantByTab
  <1>2. /\ now \in 0..MaxNow /\ now' = now + 1 /\ now < MaxNow
        /\ UNCHANGED <<tab, req, granted, owner>>
        /\ jar'.session \in {jar.session, NoCookie}
        /\ jar'.captcha \in {jar.captcha, NoCookie}
        /\ jar' \in [session : Cookie, captcha : Cookie]
        /\ jar.session \in Cookie /\ jar.captcha \in Cookie
    <2>1. /\ jar.session \in Cookie /\ jar.captcha \in Cookie
          /\ now \in 0..MaxNow /\ now' = now + 1 /\ now < MaxNow
          /\ UNCHANGED <<tab, req, granted, owner>>
      BY <1>1 DEF TypeOK, Tick
    <2>2. PICK s \in {jar.session, NoCookie}, c \in {jar.captcha, NoCookie} :
             jar' = [session |-> s, captcha |-> c]
      BY DEF Tick
    <2>. QED
      BY <2>1, <2>2, Nothing
  <1>3. now \in Nat /\ now' \in Nat /\ now' > 0 /\ now <= now' /\ now' \in 0..MaxNow
        /\ granted \in Int
    BY <1>1, <1>2, Numbers DEF TypeOK
  <1>4. TypeOK'
    BY <1>1, <1>2, <1>3 DEF TypeOK
  <1>5. BrowserInv'
    <2>1. granted' <= now'
      BY <1>1, <1>2, <1>3 DEF BrowserInv
    <2>. QED
      BY <1>1, <1>2, <1>3, <2>1 DEF BrowserInv
  <1>6. ASSUME NEW t \in Tabs PROVE RequestInv(req[t])'
    <2>1. req[t].session \in Cookie
      BY <1>1 DEF TypeOK, Request
    <2>2. ~Verify(NoCookie)'
      BY DEF Verify
    <2>3. ~Verify(req[t].session) => ~Verify(req[t].session)'
      <3>1. PICK c \in Cookie : c = req[t].session /\ c = req'[t].session
        BY <1>2, <2>1
      <3>. QED
        BY <1>3, <3>1, TimeOnlyKills DEF Verify
    <2>4. ~Verify(jar.session) => ~Verify(jar.session)'
      <3>1. CASE jar'.session = NoCookie
        BY <3>1 DEF Verify
      <3>2. CASE jar'.session = jar.session
        <4>1. PICK c \in Cookie : c = jar.session /\ c = jar'.session
          BY <1>2, <3>2
        <4>. QED
          BY <1>3, <4>1, TimeOnlyKills DEF Verify
      <3>. QED
        BY <1>2, <3>1, <3>2
    <2>5. Spent(req[t])'
      BY <1>1, <1>2, <2>3, <2>4 DEF RequestInv, Spent
    <2>6. Fits(req[t])'
      BY <1>1, <1>2, <1>3 DEF RequestInv, Fits
    <2>. QED
      BY <1>1, <1>2, <2>5, <2>6 DEF RequestInv, Shape, Bounded
  <1>. QED
    BY <1>4, <1>5, <1>6, InvariantByTab

-----------------------------------------------------------------------------
(* A response arrives.                                                     *)

LEMMA ArriveSetsCookies ==
    ASSUME IInv, NEW t \in Tabs, Arrive(t)
    PROVE  /\ jar' \in [session : Cookie, captcha : Cookie]
           /\ owner' \in Tabs \cup {NoTab}
           /\ tab' \in [Tabs -> [page : Targets, code : Codes \cup {NoCode}]]
           /\ req[t].put = "nothing" => jar' = jar
           /\ req[t].put # "session" => jar'.session \in {jar.session, NoCookie}
           /\ BrowserInv'
  <1>1. /\ TypeOK /\ BrowserInv /\ Shape(req[t]) /\ Bounded(req[t])
        /\ req[t].at = "answered" /\ jar' = JarAfter(req[t])
        /\ UNCHANGED <<now, granted>>
    BY InvariantByTab DEF RequestInv, Arrive
  <1>2. PICK r \in Request : r = req[t]
    BY <1>1 DEF TypeOK
  <1>3. /\ now \in Nat /\ now + SessionTTL \in Nat /\ now + CaptchaTTL \in Nat
        /\ jar \in [session : Cookie, captcha : Cookie]
        /\ r.session \in Cookie /\ r.captcha \in Cookie
        /\ r.put \in {"nothing", "session", "captcha", "clear session", "clear captcha"}
    <2>1. now \in Nat
      BY <1>1, Numbers DEF TypeOK
    <2>2. now + SessionTTL \in Nat /\ now + CaptchaTTL \in Nat
      BY <2>1, Numbers
    <2>. QED
      BY <1>1, <2>1, <2>2 DEF TypeOK, Request
  <1>4. /\ tab' \in [Tabs -> [page : Targets, code : Codes \cup {NoCode}]]
        /\ \A u \in Tabs \ {t} : tab'[u] = tab[u]
        /\ r.op = "image" => tab'[t].code = r.captcha.code
        /\ r.op # "image" => tab'[t].code \in {tab[t].code, NoCode}
    <2>1. tab' = [tab EXCEPT ![t] =
                    CASE r.op = "image" -> [tab[t] EXCEPT !.code = r.captcha.code]
                      [] r.show # "none" -> [page |-> r.show, code |-> NoCode]
                      [] OTHER -> tab[t]]
      BY <1>2 DEF Arrive
    <2>2. /\ tab \in [Tabs -> [page : Targets, code : Codes \cup {NoCode}]]
          /\ r.show \in Targets /\ r.captcha.code \in Codes \cup {NoCode}
      BY <1>1, <1>3 DEF TypeOK, Request, Cookie
    <2>3. r.op = "image" => r.show = "none"
      BY <1>1, <1>2 DEF Shape
    <2>4. CASE r.op = "image"
      BY <2>1, <2>2, <2>3, <2>4
    <2>5. CASE r.op # "image" /\ r.show # "none"
      BY <2>1, <2>2, <2>5
    <2>6. CASE r.op # "image" /\ r.show = "none"
      BY <2>1, <2>2, <2>6
    <2>. QED
      BY <2>4, <2>5, <2>6
  <1>5. CASE r.put = "session"
    <2>1. /\ jar'.session = [r.session EXCEPT !.drop = now + SessionTTL]
          /\ jar'.captcha = NoCookie /\ owner' = NoTab
          /\ jar' = [session |-> [r.session EXCEPT !.drop = now + SessionTTL],
                     captcha |-> NoCookie]
      BY <1>1, <1>2, <1>5 DEF JarAfter, Arrive
    <2>2. /\ jar'.session \in Cookie /\ jar'.session.exp = r.session.exp
          /\ jar' \in [session : Cookie, captcha : Cookie]
      BY <1>3, <2>1, Nothing DEF Cookie
    <2>3. r.session.exp <= granted + SessionTTL
      BY <1>1, <1>2, <1>5 DEF Shape, Bounded
    <2>4. BrowserInv'
      BY <1>1, <2>1, <2>2, <2>3, SessionAssumption DEF BrowserInv
    <2>. QED
      BY <1>2, <1>4, <1>5, <2>1, <2>2, <2>4
  <1>6. CASE r.put = "captcha"
    <2>1. /\ jar'.session = jar.session
          /\ jar'.captcha = [r.captcha EXCEPT !.drop = now + CaptchaTTL]
          /\ jar' = [jar EXCEPT !.captcha = [r.captcha EXCEPT !.drop = now + CaptchaTTL]]
          /\ owner' = t
      BY <1>1, <1>2, <1>3, <1>6 DEF JarAfter, Arrive
    <2>2. /\ jar' \in [session : Cookie, captcha : Cookie]
          /\ jar'.captcha.code = r.captcha.code
      BY <1>3, <2>1 DEF Cookie
    <2>3. r.op = "image" /\ r.captcha.code \in Codes
      BY <1>1, <1>2, <1>6 DEF Shape
    <2>4. BrowserInv'
      <3>1. granted' <= now' /\ (jar'.session # NoCookie =>
                                   jar'.session.exp <= granted' + SessionTTL)
        BY <1>1, <2>1 DEF BrowserInv
      <3>2. tab'[owner'].code = jar'.captcha.code
        BY <1>4, <2>1, <2>2, <2>3
      <3>3. jar'.captcha # NoCookie
        BY <2>2, <2>3, SessionAssumption DEF NoCookie
      <3>. QED
        BY <3>1, <3>2, <3>3 DEF BrowserInv
    <2>. QED
      BY <1>2, <1>4, <1>6, <2>1, <2>2, <2>4
  <1>7. CASE r.put \in {"nothing", "clear session", "clear captcha"}
    <2>1. /\ r.put = "nothing" => jar' = jar /\ owner' = owner
          /\ r.put = "clear session" =>
                jar' = [jar EXCEPT !.session = NoCookie] /\ owner' = owner
          /\ r.put = "clear captcha" =>
                jar' = [jar EXCEPT !.captcha = NoCookie] /\ owner' = NoTab
      BY <1>1, <1>2 DEF JarAfter, Arrive
    <2>2. /\ jar' \in [session : Cookie, captcha : Cookie]
          /\ jar'.session \in {jar.session, NoCookie}
          /\ owner' = NoTab \/ (owner' = owner /\ jar'.captcha = jar.captcha)
      BY <1>3, <1>7, <2>1, Nothing
    <2>3. r.op # "image"
      BY <1>1, <1>2, <1>7 DEF Shape
    <2>4. \A u \in Tabs : tab'[u].code \in {tab[u].code, NoCode}
      BY <1>4, <2>3
    <2>5. owner' \in Tabs \cup {NoTab}
      BY <1>1, <2>2 DEF TypeOK
    <2>6. BrowserInv'
      <3>1. granted' <= now' /\ (jar'.session # NoCookie =>
                                   jar'.session.exp <= granted' + SessionTTL)
        BY <1>1, <2>2 DEF BrowserInv
      <3>2. owner' \in Tabs => owner' = owner /\ jar'.captcha = jar.captcha
        BY <2>2, SessionAssumption
      <3>3. owner' \in Tabs =>
               IF jar'.captcha = NoCookie THEN now' > 0
               ELSE tab'[owner'].code \in {NoCode, jar'.captcha.code}
        BY <1>1, <2>4, <3>2 DEF BrowserInv
      <3>. QED
        BY <3>1, <3>3 DEF BrowserInv
    <2>. QED
      BY <1>2, <1>4, <1>7, <2>1, <2>2, <2>5, <2>6
  <1>. QED
    BY <1>3, <1>5, <1>6, <1>7

LEMMA HopsReset ==
    ASSUME NEW q \in Request, NEW r, r = [q EXCEPT !.hops = 0]
    PROVE  /\ r \in Request /\ r.op = q.op /\ r.at = q.at /\ r.hops = 0
           /\ r.show = q.show /\ r.go = q.go /\ r.put = q.put
           /\ r.session = q.session /\ r.captcha = q.captcha
           /\ r.answer = q.answer /\ r.fair = q.fair
  <1>1. 0 \in 0..TooMany
    BY DEF TooMany
  <1>. QED
    BY <1>1 DEF Request

(* The request that follows, or follows a redirect.                        *)
LEMMA ArriveFollows ==
    ASSUME IInv, NEW t \in Tabs, Arrive(t)
    PROVE  /\ req' \in [Tabs -> Request]
           /\ \A u \in Tabs \ {t} :
                 IF jar'.session = jar.session THEN req'[u] = req[u]
                 ELSE req'[u] = [req[u] EXCEPT !.hops = 0]
           /\ req[t].go = "none" => req'[t] = NoReq
           /\ req[t].go # "none" =>
                 /\ req[t].go \in {"admin", "login"}
                 /\ req'[t].op = req[t].go /\ req'[t].at = "sent"
                 /\ req'[t].hops = IF jar'.session = jar.session THEN req[t].hops + 1 ELSE 0
                 /\ req'[t].show = "none" /\ req'[t].go = "none"
                 /\ req'[t].put = "nothing"
                 /\ req'[t].session = jar'.session
  <1>1. /\ TypeOK /\ Spent(req[t])
        /\ jar' \in [session : Cookie, captcha : Cookie]
    BY InvariantByTab, ArriveSetsCookies DEF RequestInv
  <1>2. req[t] \in Request /\ req[t].hops \in 0..3
    <2>1. req[t] \in Request /\ req[t].hops \in 0..4
      BY <1>1 DEF TypeOK, Request, TooMany
    <2>. QED
      BY <1>1, <2>1 DEF Spent
  <1>3. PICK next : next = IF req[t].go = "none" THEN NoReq
                ELSE [Ask(req[t].go, jar') EXCEPT
                         !.hops = IF req[t].hops = TooMany THEN TooMany ELSE req[t].hops + 1]
    OBVIOUS
  <1>4. req' = [u \in Tabs |->
                  LET q == IF u = t THEN next ELSE req[u] IN
                  IF jar'.session # jar.session THEN [q EXCEPT !.hops = 0] ELSE q]
    BY <1>3 DEF Arrive
  <1>5. \A q \in Request : [q EXCEPT !.hops = 0] \in Request
    BY HopsReset
  <1>6. CASE req[t].go = "none"
    <2>1. next = NoReq /\ next \in Request /\ [next EXCEPT !.hops = 0] = NoReq
      BY <1>3, <1>6, Nothing DEF NoReq
    <2>. QED
      BY <1>1, <1>4, <1>5, <1>6, <2>1 DEF TypeOK
  <1>7. CASE req[t].go # "none"
    <2>1. req[t].go \in {"admin", "login"} /\ req[t].go \in Ops
      BY <1>2, <1>7 DEF Request, Targets, Ops
    <2>2. PICK q : q = Ask(req[t].go, jar')
      OBVIOUS
    <2>3. /\ q \in Request /\ q.op = req[t].go /\ q.at = "sent"
          /\ q.show = "none" /\ q.go = "none" /\ q.put = "nothing"
          /\ q.session = jar'.session
      BY <1>1, <2>1, <2>2, AskIsFresh
    <2>4. next = [q EXCEPT !.hops = req[t].hops + 1] /\ req[t].hops + 1 \in 0..TooMany
      BY <1>2, <1>3, <1>7, <2>2 DEF TooMany
    <2>5. /\ next \in Request /\ next.op = req[t].go /\ next.at = "sent"
          /\ next.show = "none" /\ next.go = "none" /\ next.put = "nothing"
          /\ next.session = jar'.session /\ next.hops = req[t].hops + 1
      BY <2>3, <2>4 DEF Request
    <2>6. PICK n : n = [next EXCEPT !.hops = 0]
      OBVIOUS
    <2>7. /\ n \in Request /\ n.op = req[t].go /\ n.at = "sent"
          /\ n.show = "none" /\ n.go = "none" /\ n.put = "nothing"
          /\ n.session = jar'.session /\ n.hops = 0
      BY <1>5, <2>5, <2>6 DEF Request
    <2>8. req'[t] = IF jar'.session = jar.session THEN next ELSE n
      BY <1>4, <2>6
    <2>9. /\ req' \in [Tabs -> Request]
          /\ \A u \in Tabs \ {t} :
                IF jar'.session = jar.session THEN req'[u] = req[u]
                ELSE req'[u] = [req[u] EXCEPT !.hops = 0]
      BY <1>1, <1>4, <1>5, <2>5 DEF TypeOK
    <2>. QED
      BY <1>7, <2>1, <2>5, <2>7, <2>8, <2>9
  <1>. QED
    BY <1>6, <1>7

LEMMA ArriveStep ==
    ASSUME IInv, NEW t \in Tabs, Arrive(t)
    PROVE  IInv'
  <1>1. /\ TypeOK /\ \A u \in Tabs : RequestInv(req[u])
        /\ req[t].at = "answered" /\ UNCHANGED <<now, granted>>
    BY InvariantByTab DEF Arrive
  <1>2. TypeOK' /\ BrowserInv'
    BY <1>1, ArriveSetsCookies, ArriveFollows DEF TypeOK
  <1>3. ASSUME NEW u \in Tabs \ {t} PROVE RequestInv(req[u])'
    <2>1. CASE jar'.session = jar.session
      <3>1. req'[u] = req[u]
        BY <2>1, ArriveFollows
      <3>. QED
        BY <1>1, <2>1, <3>1 DEF RequestInv, Shape, Spent, Bounded, Fits, Verify
    <2>2. CASE jar'.session # jar.session
      <3>1. req'[u] = [req[u] EXCEPT !.hops = 0] /\ req[u] \in Request
        BY <1>1, <2>2, ArriveFollows DEF TypeOK
      <3>2. PICK q : q = req'[u]
        OBVIOUS
      <3>3. /\ q.op = req[u].op /\ q.at = req[u].at /\ q.hops = 0
            /\ q.show = req[u].show /\ q.go = req[u].go /\ q.put = req[u].put
            /\ q.session = req[u].session /\ q.captcha = req[u].captcha
            /\ q.answer = req[u].answer /\ q.fair = req[u].fair
        BY <3>1, <3>2, HopsReset
      <3>. QED
        BY <1>1, <3>2, <3>3 DEF RequestInv, Shape, Spent, Bounded, Fits
    <2>. QED
      BY <2>1, <2>2
  <1>4. RequestInv(req[t])'
    <2>1. CASE req[t].go = "none"
      BY <2>1, ArriveFollows, NoReqIsFine DEF RequestInv, Shape, Spent, Bounded, Fits, Verify
    <2>2. CASE req[t].go # "none"
      <3>1. /\ req[t].go \in {"admin", "login"}
            /\ req'[t].op = req[t].go /\ req'[t].at = "sent"
            /\ req'[t].hops = IF jar'.session = jar.session THEN req[t].hops + 1 ELSE 0
            /\ req'[t].show = "none" /\ req'[t].go = "none"
            /\ req'[t].put = "nothing" /\ req'[t].session = jar'.session
        BY <2>2, ArriveFollows
      <3>2. Shape(req[t])'
        BY <3>1 DEF Shape
      <3>3. Bounded(req[t])' /\ Fits(req[t])'
        BY <1>2, <3>1 DEF BrowserInv, Bounded, Fits
      <3>4. CASE jar'.session # jar.session
        BY <3>1, <3>2, <3>3, <3>4 DEF RequestInv, Spent
      <3>5. CASE jar'.session = jar.session
        <4>1. /\ req[t].op \in Ops /\ req[t].hops \in 0..4
              /\ Shape(req[t]) /\ Spent(req[t])
          BY <1>1 DEF TypeOK, Request, TooMany, RequestInv
        <4>2. /\ req[t].op = "admin" => req[t].go = "login"
              /\ req[t].op = "login" => req[t].go = "admin"
              /\ req[t].op \notin {"admin", "login"} => req[t].hops = 0
          BY <2>2, <4>1 DEF Shape
        <4>3. /\ req'[t].hops <= 3
              /\ req'[t].op = "admin" => req'[t].hops <= 2
          BY <1>1, <3>1, <3>5, <4>1, <4>2 DEF Spent
        <4>4. req'[t].op = "login" /\ req'[t].hops >= 2 => ~Verify(jar.session)
          BY <1>1, <3>1, <3>5, <4>1, <4>2 DEF Spent
        <4>5. Spent(req[t])'
          BY <1>1, <3>1, <3>5, <4>3, <4>4 DEF Spent, Verify
        <4>. QED
          BY <3>2, <3>3, <4>5 DEF RequestInv
      <3>. QED
        BY <3>4, <3>5
    <2>. QED
      BY <2>1, <2>2
  <1>. QED
    BY <1>2, <1>3, <1>4, InvariantByTab

-----------------------------------------------------------------------------
(* Along every behaviour.                                                  *)

LEMMA InitEstablishes == Init => IInv
  <1>. SUFFICES ASSUME Init PROVE IInv
    OBVIOUS
  <1>1. now = 0 /\ 0 \in 0..MaxNow /\ granted \in Int /\ granted <= 0
    BY Numbers DEF Init
  <1>2. TypeOK
    BY <1>1, Nothing DEF Init, TypeOK, Targets
  <1>3. BrowserInv
    BY <1>1, SessionAssumption DEF Init, BrowserInv
  <1>4. \A t \in Tabs : RequestInv(req[t])
    BY NoReqIsFine DEF Init
  <1>. QED
    BY <1>2, <1>3, <1>4, InvariantByTab

LEMMA StepPreserves == IInv /\ [Next]_vars => IInv'
  <1>. SUFFICES ASSUME IInv, [Next]_vars PROVE IInv'
    OBVIOUS
  <1>1. CASE Next
    BY <1>1, BrowseStep, ArriveStep, ServeStep, TickStep DEF Next
  <1>2. CASE UNCHANGED vars
    BY <1>2, InvariantByTab
    DEF vars, TypeOK, BrowserInv, RequestInv, Shape, Spent, Bounded, Fits, Verify
  <1>. QED
    BY <1>1, <1>2

(* The inductive invariant holds throughout: cookies and requests are what *)
(* the properties need of them, whatever the tabs do to one another.       *)
THEOREM Invariance == Spec => []IInv
  BY InitEstablishes, StepPreserves, PTL DEF Spec

-----------------------------------------------------------------------------
(* What a request can see and do in one step.                              *)

(* Only the server answers a request: a tab that sends one has none yet,   *)
(* and a request on its way is lost, or answered by its own handler.       *)
LEMMA SentRequestMoves ==
    ASSUME IInv, Next, NEW t \in Tabs, req[t].at = "sent"
    PROVE  \/ req'[t] = NoReq
           \/ req'[t].at = "sent" /\ req'[t].show = "none"
           \/ Serve(t)
  <1>1. /\ TypeOK /\ Shape(req[t]) /\ req[t].show = "none"
    BY InvariantByTab DEF RequestInv, Shape
  <1>2. req[t] # NoReq
    BY Nothing
  <1>3. ASSUME NEW u \in Tabs, Browse(u) PROVE req'[t] \in {NoReq, req[t]}
    BY <1>1, <1>2, <1>3
    DEF Browse, Visit, ClickLogout, LoadImage, Submit, Lose, Send, TypeOK
  <1>4. ASSUME NEW u \in Tabs, Arrive(u)
        PROVE  req'[t].at = "sent" /\ req'[t].show = "none"
    <2>1. u # t /\ t \in Tabs \ {u}
      BY <1>4 DEF Arrive
    <2>2. req[t] \in Request
      BY <1>1 DEF TypeOK
    <2>3. PICK q : q = [req[t] EXCEPT !.hops = 0]
      OBVIOUS
    <2>4. q.at = "sent" /\ q.show = "none"
      BY <1>1, <2>2, <2>3, HopsReset
    <2>5. req'[t] \in {req[t], q}
      BY <1>4, <2>1, <2>3, ArriveFollows
    <2>. QED
      BY <1>1, <2>4, <2>5
  <1>5. ASSUME NEW u \in Tabs \ {t}, Serve(u) PROVE req'[t] = req[t]
    BY <1>1, <1>5
    DEF Serve, AdminPage, LoginPage, CaptchaImage, Logout, CheckCaptcha, Authenticate,
        Grant, RefuseLogin, Respond, TypeOK
  <1>6. Tick => req'[t] = req[t]
    BY DEF Tick
  <1>. QED
    BY <1>1, <1>3, <1>4, <1>5, <1>6 DEF Next

(* A page of the back office is only shown within sessionTTL of a password *)
(* having been given: no session cookie outlives the last one.             *)
THEOREM SessionIsBounded == Spec => SessionEnds
  <1>1. ASSUME IInv, [Next]_vars, NEW t \in Tabs, At(t, "admin", "sent"),
               req'[t].show = "admin"
        PROVE  now <= granted + SessionTTL
    <2>1. /\ TypeOK /\ req[t].op = "admin" /\ req[t].at = "sent" /\ req[t].show = "none"
          /\ Bounded(req[t])
      BY <1>1, InvariantByTab DEF RequestInv, Shape, At
    <2>2. Next
      BY <1>1, <2>1 DEF vars
    <2>3. Serve(t)
      BY <1>1, <2>1, <2>2, SentRequestMoves, Nothing
    <2>4. AdminPage(t)
      BY <2>1, <2>3
      DEF Serve, LoginPage, CaptchaImage, Logout, CheckCaptcha, Authenticate, Grant, At
    <2>5. Verify(req[t].session)
      <3>1. SUFFICES ASSUME ~Verify(req[t].session) PROVE FALSE
        OBVIOUS
      <3>2. Respond(t, "none", "login", "nothing")
        BY <2>4, <3>1 DEF AdminPage, AdminFromRequest
      <3>3. PICK a : a = Answer(t)
        OBVIOUS
      <3>4. a \in Request
        BY <2>1, <3>3, AnswerKeeps
      <3>5. req'[t] = [a EXCEPT !.show = "none", !.go = "login", !.put = "nothing"]
        BY <2>1, <3>2, <3>3 DEF Respond, TypeOK
      <3>. QED
        BY <1>1, <3>4, <3>5 DEF Request
    <2>6. PICK c \in Cookie : c = req[t].session
      BY <2>1 DEF TypeOK, Request
    <2>7. c.exp <= granted + SessionTTL /\ now <= c.exp
      BY <2>1, <2>5, <2>6 DEF Bounded, Verify
    <2>. QED
      BY <2>1, <2>6, <2>7, Numbers DEF TypeOK, Cookie
  <1>2. IInv /\ [Next]_vars =>
          \A t \in Tabs :
             At(t, "admin", "sent") /\ req'[t].show = "admin" => now <= granted + SessionTTL
    BY <1>1
  <1>. QED
    BY <1>2, Invariance, PTL DEF Spec, SessionEnds

(* Once the browser's session is gone, only the answer to a log-in brings  *)
(* one back; that of any other request a tab still waits for does not.     *)
THEOREM OnlyLoginOpens == Spec => LogoutSticks
  <1>1. ASSUME IInv, [Next]_vars, jar.session = NoCookie, jar'.session # NoCookie
        PROVE  \E t \in Tabs : req[t].op = "submit" /\ req[t].at = "answered"
    <2>1. Next
      BY <1>1 DEF vars
    <2>2. ~Tick
      BY <1>1 DEF Tick
    <2>3. PICK t \in Tabs : Arrive(t)
      <3>1. \A t \in Tabs : Browse(t) => UNCHANGED jar
        BY DEF Browse, Visit, ClickLogout, LoadImage, Submit, Lose, Send
      <3>2. \A t \in Tabs : Serve(t) => UNCHANGED jar
        BY DEF Serve, AdminPage, LoginPage, CaptchaImage, Logout, CheckCaptcha,
               Authenticate, Grant, Unserved
      <3>. QED
        BY <1>1, <2>1, <2>2, <3>1, <3>2 DEF Next
    <2>4. req[t].put = "session" /\ req[t].at = "answered"
      BY <1>1, <2>3, ArriveSetsCookies DEF Arrive
    <2>. QED
      BY <1>1, <2>4, InvariantByTab DEF RequestInv, Shape
  <1>2. IInv /\ [Next]_vars =>
          (jar.session = NoCookie /\ jar'.session # NoCookie =>
             \E t \in Tabs : req[t].op = "submit" /\ req[t].at = "answered")
    BY <1>1
  <1>. QED
    BY <1>2, Invariance, PTL DEF Spec, LogoutSticks

(* The code of the image in view is accepted while the captcha lives: the  *)
(* cookie that went with the form is that image's, and still verifies.     *)
THEOREM CaptchaIsFair == Spec => RightAnswerAccepted
  <1>1. ASSUME IInv, [Next]_vars, NEW t \in Tabs, At(t, "submit", "sent"),
               req[t].fair, now <= req[t].captcha.exp,
               req'[t].at # "sent", req'[t] # NoReq
        PROVE  req'[t].at = "checked"
    <2>1. /\ TypeOK /\ req[t].op = "submit" /\ req[t].at = "sent" /\ Fits(req[t])
      BY <1>1, InvariantByTab DEF RequestInv, At
    <2>2. Next
      BY <1>1, <2>1 DEF vars
    <2>3. CheckCaptcha(t)
      BY <1>1, <2>1, <2>2, SentRequestMoves
      DEF Serve, AdminPage, LoginPage, CaptchaImage, Logout, Authenticate, Grant, At
    <2>4. now \in Nat /\ NoCookie.exp = 0
      BY <2>1, Numbers, Nothing DEF TypeOK
    <2>5. req[t].captcha # NoCookie
      BY <1>1, <2>1, <2>4 DEF Fits
    <2>6. Verify(req[t].captcha) /\ req[t].captcha.code = req[t].answer
      BY <1>1, <2>1, <2>5 DEF Fits, Verify
    <2>7. req' = [req EXCEPT ![t] = [NoReq EXCEPT !.op = "submit", !.at = "checked"]]
      BY <2>3, <2>6 DEF CheckCaptcha
    <2>8. [NoReq EXCEPT !.op = "submit", !.at = "checked"].at = "checked"
      BY DEF NoReq
    <2>. QED
      BY <2>1, <2>7, <2>8 DEF TypeOK
  <1>2. IInv /\ [Next]_vars =>
          \A t \in Tabs :
             LET r == req[t] IN
             At(t, "submit", "sent") /\ r.fair /\ now <= r.captcha.exp
                /\ req'[t].at # "sent" /\ req'[t] # NoReq =>
                    req'[t].at = "checked"
    BY <1>1
  <1>. QED
    BY <1>2, Invariance, PTL DEF Spec, RightAnswerAccepted

(* A visit ends in a page after at most three redirects, whatever expires  *)
(* or arrives on the way, unless another tab changes the session.          *)
THEOREM VisitEnds == Spec => []NoRedirectLoop
  <1>1. IInv => NoRedirectLoop
    <2>1. ASSUME IInv, NEW t \in Tabs PROVE req[t].hops < TooMany
      <3>1. TypeOK /\ req[t].hops <= 3
        BY <2>1, InvariantByTab DEF RequestInv, Spent
      <3>2. req[t].hops \in 0..4
        BY <3>1 DEF TypeOK, Request, TooMany
      <3>. QED
        BY <3>1, <3>2 DEF TooMany
    <2>. QED
      BY <2>1 DEF NoRedirectLoop
  <1>. QED
    BY <1>1, Invariance, PTL
==============================================================================
