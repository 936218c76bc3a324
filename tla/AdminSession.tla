----------------------------- MODULE AdminSession -----------------------------
(***************************************************************************)
(* Logging in to the back office: internal/handler/session.go, captcha.go  *)
(* and the login, captcha and logout handlers of admin.go.                 *)
(*                                                                         *)
(* The server keeps nothing.  A login is a signed session cookie with its  *)
(* own expiry, a captcha a signed cookie beside the image; both live in    *)
(* one browser, shared by its tabs.  A request carries the cookies of the  *)
(* moment it is sent, a response sets them the moment it arrives, so tabs  *)
(* overtake one another, and a cookie's MaxAge runs from its arrival while *)
(* the expiry signed in it runs from when it was made.                     *)
(*                                                                         *)
(* The signature is taken to do its work: a cookie is one the server made. *)
(* One administrator, one account; a wrong password, a closed account and  *)
(* a failing query are one and the same answer to a login, given any time. *)
(***************************************************************************)
EXTENDS Integers

CONSTANTS
    Tabs, NoTab, Codes, NoCode,
    SessionTTL, CaptchaTTL,   \* sessionTTL, captchaTTL
    MaxNow                    \* bound: the clock

ASSUME SessionAssumption ==
    /\ NoTab \notin Tabs /\ NoCode \notin Codes
    /\ {SessionTTL, CaptchaTTL, MaxNow} \subseteq Nat \ {0}

VARIABLES
    now,
    jar,       \* the browser's two cookies
    tab,       \* what each tab shows, and the code in its image
    req,       \* each tab's request, on its way, at the server or answered
    granted,   \* history: when the server last made a session cookie
    owner      \* history: the tab whose image the captcha cookie belongs to

vars == <<now, jar, tab, req, granted, owner>>

-----------------------------------------------------------------------------
Cookie == [code : Codes \cup {NoCode}, exp : Nat, drop : Nat]
NoCookie == [code |-> NoCode, exp |-> 0, drop |-> 0]

Ops == {"none", "admin", "login", "image", "submit", "logout"}
Targets == {"none", "admin", "login"}

(* at: on its way, at the server after a step of LoginSubmit, or answered.  *)
(* show or go: the page of the response, or where it redirects to.  put:    *)
(* what it does to the cookies.  fair (history): the answer is the code of  *)
(* the image the tab shows, and the captcha cookie sent is that image's.    *)
(* hops (history): the redirects it follows, since the browser's session    *)
(* last changed; counted up to TooMany.                                     *)
TooMany == 4

NoReq == [op |-> "none", at |-> "none", session |-> NoCookie, captcha |-> NoCookie,
          answer |-> NoCode, fair |-> FALSE,
          show |-> "none", go |-> "none", put |-> "nothing", hops |-> 0]

Request == [op : Ops, at : {"none", "sent", "checked", "known", "answered"},
            session : Cookie, captcha : Cookie,
            answer : Codes \cup {NoCode}, fair : BOOLEAN,
            show : Targets, go : Targets,
            put : {"nothing", "session", "captcha", "clear session", "clear captcha"},
            hops : 0..TooMany]

Init ==
    /\ now = 0
    /\ jar = [session |-> NoCookie, captcha |-> NoCookie]
    /\ tab = [t \in Tabs |-> [page |-> "none", code |-> NoCode]]
    /\ req = [t \in Tabs |-> NoReq]
    /\ granted = 0 - SessionTTL - 1
    /\ owner = NoTab

-----------------------------------------------------------------------------
(* The browser.                                                            *)

(* A request carries the cookies; those its handler reads are kept here.   *)
Ask(op, cookies) ==
    [NoReq EXCEPT !.op = op, !.at = "sent",
        !.session = IF op \in {"admin", "login"} THEN cookies.session ELSE NoCookie,
        !.captcha = IF op = "submit" THEN cookies.captcha ELSE NoCookie]

Send(t, r) ==
    /\ req[t] = NoReq
    /\ req' = [req EXCEPT ![t] = r]
    /\ UNCHANGED <<now, jar, tab, granted, owner>>

(* A page or a form behind RequireAdmin, or the login page.                *)
Visit(t) == \E op \in {"admin", "login"} : Send(t, Ask(op, jar))

ClickLogout(t) == tab[t].page = "admin" /\ Send(t, Ask("logout", jar))

(* The <img> of the login page, and its reload button.                     *)
LoadImage(t) == tab[t].page = "login" /\ Send(t, Ask("image", jar))

Submit(t) ==
    /\ tab[t].page = "login" /\ tab[t].code # NoCode
    /\ \E answer \in {tab[t].code, NoCode} :     \* read right, or not
        Send(t, [Ask("submit", jar) EXCEPT
                    !.answer = answer,
                    !.fair = owner = t /\ answer = tab[t].code])

(* The connection is lost, or the server restarts.                         *)
Lose(t) ==
    /\ req[t] # NoReq
    /\ req' = [req EXCEPT ![t] = NoReq]
    /\ tab' = [tab EXCEPT ![t] = [page |-> "none", code |-> NoCode]]
    /\ UNCHANGED <<now, jar, granted, owner>>

(* The response arrives: cookies first, then the page, the image or the    *)
(* redirect, which is followed at once.                                    *)
JarAfter(r) ==
    LET fromNow(c, ttl) == [c EXCEPT !.drop = now + ttl] IN
    CASE r.put = "session" ->
            [session |-> fromNow(r.session, SessionTTL), captcha |-> NoCookie]
      [] r.put = "captcha" ->
            [jar EXCEPT !.captcha = fromNow(r.captcha, CaptchaTTL)]
      [] r.put = "clear session" -> [jar EXCEPT !.session = NoCookie]
      [] r.put = "clear captcha" -> [jar EXCEPT !.captcha = NoCookie]
      [] OTHER -> jar

Arrive(t) ==
    LET r == req[t]
        changed == jar'.session # jar.session
        next == IF r.go = "none" THEN NoReq
                ELSE [Ask(r.go, jar') EXCEPT
                         !.hops = IF r.hops = TooMany THEN TooMany ELSE r.hops + 1]
    IN
    /\ r.at = "answered"
    /\ jar' = JarAfter(r)
    /\ tab' = [tab EXCEPT ![t] =
                  CASE r.op = "image" -> [@ EXCEPT !.code = r.captcha.code]
                    [] r.show # "none" -> [page |-> r.show, code |-> NoCode]
                    [] OTHER -> @]
    /\ req' = [u \in Tabs |->
                  LET q == IF u = t THEN next ELSE req[u] IN
                  IF changed THEN [q EXCEPT !.hops = 0] ELSE q]
    /\ owner' = CASE r.put = "captcha" -> t
                  [] r.put \in {"session", "clear captcha"} -> NoTab
                  [] OTHER -> owner
    /\ UNCHANGED <<now, granted>>

-----------------------------------------------------------------------------
(* The server.                                                             *)

At(t, op, at) == req[t].op = op /\ req[t].at = at

Answer(t) == [NoReq EXCEPT !.op = req[t].op, !.at = "answered", !.hops = req[t].hops]

Respond(t, show, go, put) ==
    req' = [req EXCEPT ![t] = [Answer(t) EXCEPT !.show = show, !.go = go, !.put = put]]

Unserved == UNCHANGED <<now, jar, tab, owner>>

SignedOnly(c) == c # NoCookie
VerifyStrict(c) == c # NoCookie /\ now < c.exp

(* verify of session.go and captcha.go, of a cookie the server made.       *)
Verify(c) == c # NoCookie /\ now <= c.exp

AdminFromCookieAlone(r) == SignedOnly(r.session)
AdminFromRequest(r) == Verify(r.session)

AdminPageRenewing(t) ==
    /\ At(t, "admin", "sent")
    /\ IF AdminFromRequest(req[t])
       THEN req' = [req EXCEPT ![t] =
                        [Answer(t) EXCEPT !.show = "admin", !.put = "session",
                                          !.session.exp = now + SessionTTL]]
       ELSE Respond(t, "none", "login", "nothing")
    /\ UNCHANGED granted /\ Unserved

(* requireAdmin, before every handler of the back office                   *)
AdminPage(t) ==
    /\ At(t, "admin", "sent")
    /\ IF AdminFromRequest(req[t])
       THEN Respond(t, "admin", "none", "nothing")
       ELSE Respond(t, "none", "login", "nothing")
    /\ UNCHANGED granted /\ Unserved

LoginPageCookieAlone(t) ==
    /\ At(t, "login", "sent")
    /\ IF AdminFromCookieAlone(req[t])
       THEN Respond(t, "none", "admin", "nothing")
       ELSE Respond(t, "login", "none", "nothing")
    /\ UNCHANGED granted /\ Unserved

LoginPage(t) ==
    /\ At(t, "login", "sent")
    /\ IF AdminFromRequest(req[t])
       THEN Respond(t, "none", "admin", "nothing")
       ELSE Respond(t, "login", "none", "nothing")
    /\ UNCHANGED granted /\ Unserved

CaptchaImage(t) ==
    /\ At(t, "image", "sent")
    /\ \E code \in Codes :
        req' = [req EXCEPT ![t] =
                   [Answer(t) EXCEPT !.put = "captcha",
                       !.captcha = [NoCookie EXCEPT !.code = code, !.exp = now + CaptchaTTL]]]
    /\ UNCHANGED granted /\ Unserved

RefuseLoginRepost(t) == Respond(t, "none", "submit", "clear captcha")
RefuseLogin(t) == Respond(t, "none", "login", "clear captcha")

(* LoginSubmit, up to the captcha                                          *)
CheckCaptcha(t) ==
    /\ At(t, "submit", "sent")
    /\ IF Verify(req[t].captcha) /\ req[t].captcha.code = req[t].answer
       THEN req' = [req EXCEPT ![t] = [NoReq EXCEPT !.op = "submit", !.at = "checked"]]
       ELSE RefuseLogin(t)
    /\ UNCHANGED granted /\ Unserved

(* ... the account and its password                                        *)
Authenticate(t) ==
    /\ At(t, "submit", "checked")
    /\ \/ req' = [req EXCEPT ![t].at = "known"]
       \/ RefuseLogin(t)
    /\ UNCHANGED granted /\ Unserved

(* ... and the session cookie, which goes out with the cleared captcha.    *)
Grant(t) ==
    /\ At(t, "submit", "known")
    /\ req' = [req EXCEPT ![t] =
                  [Answer(t) EXCEPT !.go = "admin", !.put = "session",
                       !.session = [NoCookie EXCEPT !.exp = now + SessionTTL]]]
    /\ granted' = now
    /\ Unserved

Logout(t) ==
    /\ At(t, "logout", "sent")
    /\ Respond(t, "none", "login", "clear session")
    /\ UNCHANGED granted /\ Unserved

-----------------------------------------------------------------------------
(* The browser drops a cookie when its MaxAge is over.                     *)
Tick ==
    LET kept(c) == IF now' <= c.drop THEN c ELSE NoCookie IN
    /\ now < MaxNow
    /\ now' = now + 1
    /\ jar' = [session |-> kept(jar.session), captcha |-> kept(jar.captcha)]
    /\ UNCHANGED <<tab, req, granted, owner>>

Serve(t) ==
    \/ AdminPage(t) \/ LoginPage(t) \/ CaptchaImage(t) \/ Logout(t)
    \/ CheckCaptcha(t) \/ Authenticate(t) \/ Grant(t)

Browse(t) == Visit(t) \/ ClickLogout(t) \/ LoadImage(t) \/ Submit(t) \/ Lose(t)

Next ==
    \/ \E t \in Tabs : Browse(t) \/ Arrive(t) \/ Serve(t)
    \/ Tick

Spec == Init /\ [][Next]_vars

-----------------------------------------------------------------------------
(* What an administrator may rely on.                                      *)

(* Every variable has its type.                                            *)
TypeOK ==
    /\ now \in 0..MaxNow
    /\ jar \in [session : Cookie, captcha : Cookie]
    /\ tab \in [Tabs -> [page : Targets, code : Codes \cup {NoCode}]]
    /\ req \in [Tabs -> Request]
    /\ granted \in Int
    /\ owner \in Tabs \cup {NoTab}

(* "expiry" (session.go): the back office is open for sessionTTL after a   *)
(* password was given, not from when the cookie came nor from when it was  *)
(* last used, so a closed account is out after sessionTTL at the latest.   *)
SessionEnds ==
    [][\A t \in Tabs :
         At(t, "admin", "sent") /\ req'[t].show = "admin" =>
             now <= granted + SessionTTL]_vars

(* A tab that logs out logs out the browser: whatever answers are still on *)
(* their way to its other tabs, only that of a login brings a session.     *)
LogoutSticks ==
    [][jar.session = NoCookie /\ jar'.session # NoCookie =>
         \E t \in Tabs : req[t].op = "submit" /\ req[t].at = "answered"]_vars

(* The code of the image in view, typed right, is accepted for captchaTTL  *)
(* after the image was made, if no other tab loaded an image or tried to   *)
(* log in since.                                                           *)
RightAnswerAccepted ==
    [][\A t \in Tabs :
         LET r == req[t] IN
         At(t, "submit", "sent") /\ r.fair /\ now <= r.captcha.exp
            /\ req'[t].at # "sent" /\ req'[t] # NoReq =>
                req'[t].at = "checked"]_vars

(* A visit ends in a page: /admin and /admin/login do not send the browser *)
(* back and forth, even while a cookie is expired for the server and not   *)
(* for the browser.  (Only another tab that logs in and out, over and      *)
(* over, can keep it going.)                                               *)
NoRedirectLoop == \A t \in Tabs : req[t].hops < TooMany

-----------------------------------------------------------------------------
(* The inductive invariant: why the above hold.                            *)

(* What a request can be, by how far it is: only an answered login brings  *)
(* a session, only an image a captcha, and redirects lead from one of the  *)
(* two pages to the other.                                                 *)
RequestShapes ==
    \A t \in Tabs :
        LET r == req[t] IN
        /\ r.at # "answered" => r.show = "none" /\ r.put = "nothing"
        /\ r.put = "session" => r.op = "submit" /\ r.session # NoCookie
        /\ r.put = "captcha" => r.op = "image"
        /\ r.op = "image" /\ r.at = "answered" =>
              r.put = "captcha" /\ r.show = "none" /\ r.captcha.code \in Codes
        /\ r.op = "admin" => r.go \in {"none", "login"} /\ r.put = "nothing"
        /\ r.op = "login" => r.go \in {"none", "admin"} /\ r.put = "nothing"
        /\ r.op \notin {"admin", "login"} => r.hops = 0

(* No session cookie, in the browser or on its way, outlives the password. *)
SessionsExpire ==
    /\ granted <= now
    /\ \A c \in {jar.session} \cup {req[t].session : t \in Tabs} :
          c # NoCookie => c.exp <= granted + SessionTTL

(* The captcha cookie fits the image of the tab it belongs to, unless the  *)
(* browser has dropped it, which takes time.                               *)
CaptchaFits ==
    /\ owner \in Tabs =>
          IF jar.captcha = NoCookie THEN now > 0
          ELSE tab[owner].code \in {NoCode, jar.captcha.code}
    /\ \A t \in Tabs :
          LET r == req[t] IN
          At(t, "submit", "sent") /\ r.fair =>
              IF r.captcha = NoCookie THEN now > 0 ELSE r.captcha.code = r.answer

(* A request that was redirected since the session last changed carries    *)
(* the session there is; an expired one does not come back to life, so     *)
(* /admin is reached at most twice and /admin/login three times.           *)
RedirectsAreSpent ==
    \A t \in Tabs :
        LET r == req[t] IN
        /\ r.hops <= 3
        /\ r.op = "admin" => r.hops <= 2
        /\ r.at = "sent" /\ r.hops >= 1 => jar.session \in {r.session, NoCookie}
        /\ r.at = "sent" /\ r.op = "login" /\ r.hops >= 2 => ~Verify(r.session)
        /\ r.at = "answered" /\ r.op = "login" /\ r.go = "admin" => r.hops <= 1
        /\ r.at = "answered" /\ r.op = "admin" /\ r.go = "login" /\ r.hops >= 1 =>
              ~Verify(jar.session)

IInv ==
    /\ TypeOK
    /\ RequestShapes
    /\ SessionsExpire
    /\ CaptchaFits
    /\ RedirectsAreSpent
==============================================================================
