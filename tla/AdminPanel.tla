------------------------------ MODULE AdminPanel ------------------------------
(***************************************************************************)
(* The back office as administrators see it: the pages and forms of        *)
(* internal/handler/admin.go about one license and its product, in several *)
(* browser tabs, beside machines and branches that come and go.            *)
(*                                                                         *)
(* A page is put together from one query after the other, outside any      *)
(* transaction, and is acted upon later.  A form is answered by a redirect *)
(* to a page whose URL says how it went, ?ok= or ?err=.                    *)
(*                                                                         *)
(* The transactions of internal/service/admin are single steps here, and   *)
(* purchase_count and max_activations are one number, that of purchases:   *)
(* BackOffice and LicenseActivation look into them.  A license that is     *)
(* deleted does not come back under its id.                                *)
(***************************************************************************)
EXTENDS Integers

CONSTANTS
    Tabs,
    MaxPurchases, MaxExtensions,   \* bounds
    Choices                        \* bound: the forms used together

ASSUME PanelAssumption ==
    /\ MaxPurchases \in Nat \ {0} /\ MaxExtensions \in Nat
    /\ Choices \subseteq
         SUBSET {"purchase", "extend", "quota", "delete", "toggle",
                 "ForceDeactivate", "ForceDeactivateBranch"}

VARIABLES
    live,      \* the license_customers row exists
    bought,    \* its purchases, and its running totals of them
    extended,  \* its subscription_extensions, and subscription_expires_at
    active,    \* its activation and its branch, when their status is ACTIVE
    aktif,     \* products.status_aktif
    tab,       \* the page each tab shows
    req,       \* each tab's request
    told,      \* history: the form each tab sent last, how it went, and
               \* (keeps) that nobody has undone it since
    forms      \* bound: the forms used in this behaviour

license == <<live, bought, extended, active>>
tables == <<license, aktif, forms>>
vars == <<tables, tab, req, told>>

-----------------------------------------------------------------------------
Pages == {"dashboard", "products", "detail"}
Releases == {"ForceDeactivate", "ForceDeactivateBranch"}
Forms == {"purchase", "extend", "quota", "delete", "toggle"} \cup Releases

(* The license has an activation and a branch, each with its own release.  *)
Units == {"activation", "branch"}
ReleaseOf(u) == IF u = "activation" THEN "ForceDeactivate" ELSE "ForceDeactivateBranch"

Flashes == {"none", "ok", "err"}

(* A page's URL, as far as it matters: the page, and the flash its query    *)
(* begins with.                                                             *)
Url == [page : Pages \cup {"none", "error"}, flash : Flashes]
At(page, flash) == [page |-> page, flash |-> flash]

(* What a page shows: the license's own columns, the lists below, and on    *)
(* the products page the status whose opposite the form carries.            *)
Header == [bought : Nat, extended : Nat]
View == [header : Header, rows : SUBSET Units, purchases : Nat,
         extensions : Nat, aktif : BOOLEAN]
NoView == [header |-> [bought |-> 0, extended |-> 0], rows |-> {},
           purchases |-> 0, extensions |-> 0, aktif |-> TRUE]

Tab == [url : Url, view : View]
Blank == [url |-> At("none", "none"), view |-> NoView]

(* from: the page a form is sent from, its Referer and redirect_to.  wish:  *)
(* the field "aktif" of a toggle.                                           *)
Steps == {"none", "sent", "header", "activations", "purchases", "branches", "answered"}
NoReq == [op |-> "none", at |-> "none", from |-> At("none", "none"),
          wish |-> TRUE, view |-> NoView]
Request == [op : Pages \cup Forms \cup {"none"}, at : Steps, from : Url,
            wish : BOOLEAN, view : View]

Report == [op : Forms \cup {"none"}, outcome : Flashes, alerted : BOOLEAN,
           wish : BOOLEAN, keeps : BOOLEAN]
NotTold == [op |-> "none", outcome |-> "none", alerted |-> FALSE,
            wish |-> TRUE, keeps |-> FALSE]

Init ==
    /\ live = TRUE /\ bought = 1 /\ extended = 0
    /\ active = {} /\ aktif = TRUE
    /\ tab = [t \in Tabs |-> Blank]
    /\ req = [t \in Tabs |-> NoReq]
    /\ told = [t \in Tabs |-> NotTold]
    /\ forms \in Choices

-----------------------------------------------------------------------------
(* The browser.                                                            *)

Get(url) == [NoReq EXCEPT !.op = url.page, !.at = "sent", !.from = url]

FormsOn(page) == forms \cap
    CASE page = "dashboard" -> {"purchase", "delete"}
      [] page = "products" -> {"toggle"}
      [] page = "detail" -> {"purchase", "extend", "quota", "delete"} \cup Releases
      [] OTHER -> {}

Open(t) ==
    /\ req[t] = NoReq
    /\ \E page \in {p \in Pages : FormsOn(p) # {}} :
        req' = [req EXCEPT ![t] = Get(At(page, "none"))]
    /\ told' = [told EXCEPT ![t] = NotTold]
    /\ UNCHANGED <<tables, tab>>

Reload(t) ==
    /\ req[t] = NoReq /\ tab[t].url.page \in Pages
    /\ req' = [req EXCEPT ![t] = Get(tab[t].url)]
    /\ UNCHANGED <<tables, tab, told>>

(* A button of the page in view, however old that page is.                 *)
Press(t) ==
    /\ req[t] = NoReq
    /\ \E op \in FormsOn(tab[t].url.page) :
        /\ \A u \in Units : op = ReleaseOf(u) => u \in tab[t].view.rows
        /\ req' = [req EXCEPT ![t] =
                      [NoReq EXCEPT !.op = op, !.at = "sent", !.from = tab[t].url,
                                    !.wish = ~tab[t].view.aktif]]
    /\ told' = [told EXCEPT ![t] = NotTold]
    /\ UNCHANGED <<tables, tab>>

Lose(t) ==
    /\ req[t] # NoReq
    /\ req' = [req EXCEPT ![t] = NoReq]
    /\ tab' = [tab EXCEPT ![t] = [Blank EXCEPT !.url.page = "error"]]
    /\ told' = [told EXCEPT ![t] = NotTold]
    /\ UNCHANGED tables

(* The response arrives: a page, or a redirect, followed at once.          *)
Arrive(t) ==
    /\ req[t].at = "answered"
    /\ IF req[t].op \in Forms
       THEN /\ req' = [req EXCEPT ![t] = Get(req[t].from)]
            /\ UNCHANGED tab
       ELSE /\ req' = [req EXCEPT ![t] = NoReq]
            /\ tab' = [tab EXCEPT ![t] = [url |-> req[t].from, view |-> req[t].view]]
    /\ UNCHANGED <<tables, told>>

-----------------------------------------------------------------------------
(* Pages.                                                                  *)

Asks(t, op, at) == req[t].op = op /\ req[t].at = at

Read(t, at, view) ==
    /\ req' = [req EXCEPT ![t] = [@ EXCEPT !.at = at, !.view = view]]
    /\ UNCHANGED <<tables, tab, told>>

(* http.Error: a bare message instead of the page.                         *)
ErrorPage(t) ==
    /\ req[t].op \in Pages /\ req[t].at \notin {"none", "answered"}
    /\ req' = [req EXCEPT ![t] = [NoReq EXCEPT !.op = req[t].op, !.at = "answered",
                                               !.from = At("error", "none")]]
    /\ UNCHANGED <<tables, tab, told>>

(* ListLicenses, ListProducts and ListCustomerDirectory, of which only     *)
(* forms and links are used here                                           *)
Dashboard(t) == Asks(t, "dashboard", "sent") /\ Read(t, "answered", NoView)

ProductsPage(t) ==
    /\ Asks(t, "products", "sent")
    /\ Read(t, "answered", [NoView EXCEPT !.aktif = aktif])

HeaderNow == [bought |-> bought, extended |-> extended]

(* LicenseDetail: GetLicense; without a row, ErrorPage                     *)
GetLicense(t) ==
    /\ Asks(t, "detail", "sent")
    /\ live
    /\ Read(t, "header", [NoView EXCEPT !.header = HeaderNow])

ListActivations(t) ==
    /\ Asks(t, "detail", "header")
    /\ Read(t, "activations", [req[t].view EXCEPT !.rows = active \cap {"activation"}])

ListPurchases(t) ==
    /\ Asks(t, "detail", "activations")
    /\ Read(t, "purchases", [req[t].view EXCEPT !.purchases = bought])

ListBranches(t) ==
    /\ Asks(t, "detail", "purchases")
    /\ Read(t, "branches", [req[t].view EXCEPT !.rows = @ \cup (active \cap {"branch"})])

ListSubscriptionExtensionsLateHeader(t) ==
    /\ Asks(t, "detail", "branches")
    /\ Read(t, "answered", [req[t].view EXCEPT !.extensions = extended, !.header = HeaderNow])

ListSubscriptionExtensions(t) ==
    /\ Asks(t, "detail", "branches")
    /\ Read(t, "answered", [req[t].view EXCEPT !.extensions = extended])

LicenseDetail(t) ==
    \/ GetLicense(t) \/ ListActivations(t) \/ ListPurchases(t)
    \/ ListBranches(t) \/ ListSubscriptionExtensions(t)

-----------------------------------------------------------------------------
(* Forms.                                                                  *)

(* "?ok=" or "?err=" put behind the Referer; a query that is there already *)
(* goes on being the one that is parsed.                                   *)
Appended(url, flash) == IF url.flash = "none" THEN At(url.page, flash) ELSE url

BackOfReferer(t, flash) == Appended(req[t].from, flash)

(* RecordPurchase goes back where it came from, DeleteLicense to /admin    *)
(* when there is no license page any more, ToggleProductStatus to /admin.  *)
BackToMissingPage(t, flash) == At("licenses", flash)
BackOfForm(t, flash) ==
    CASE req[t].op = "delete" /\ flash = "ok" -> At("dashboard", flash)
      [] req[t].op = "delete" -> At("detail", flash)
      [] req[t].op = "toggle" -> At("dashboard", flash)
      [] OTHER -> At(req[t].from.page, flash)

Back(t, flash) ==
    IF req[t].op \in Releases THEN BackOfReferer(t, flash) ELSE BackOfForm(t, flash)

Claim(t, outcome) ==
    [op |-> req[t].op, outcome |-> outcome, alerted |-> req[t].from.flash # "none",
     wish |-> req[t].wish, keeps |-> outcome = "ok"]

Redirect(t, outcome) ==
    /\ req' = [req EXCEPT ![t] =
                  [NoReq EXCEPT !.op = req[t].op, !.at = "answered",
                                !.from = Back(t, outcome)]]
    /\ UNCHANGED tab

Tell(t, outcome) == told' = [told EXCEPT ![t] = Claim(t, outcome)]

(* Refused, not found or failed; nothing is changed.                       *)
Refuse(t) ==
    /\ req[t].op \in Forms /\ req[t].at = "sent"
    /\ Redirect(t, "err")
    /\ Tell(t, "err")
    /\ UNCHANGED tables

(* A form that takes effect.  Its outcome is "err" when the commit did and *)
(* was reported as failed.                                                 *)

(* Without a license for the e-mail and product it creates a new one, of   *)
(* another id.                                                             *)
RecordPurchase(t, outcome) ==
    /\ Asks(t, "purchase", "sent")
    /\ bought < MaxPurchases
    /\ bought' = IF live THEN bought + 1 ELSE bought
    /\ Redirect(t, outcome)
    /\ Tell(t, outcome)
    /\ UNCHANGED <<live, extended, active, aktif, forms>>

ExtendSubscription(t, outcome) ==
    /\ Asks(t, "extend", "sent")
    /\ live /\ extended < MaxExtensions
    /\ extended' = extended + 1
    /\ Redirect(t, outcome)
    /\ Tell(t, outcome)
    /\ UNCHANGED <<live, bought, active, aktif, forms>>

(* max_branches itself is in BranchRegistration.                           *)
SetBranchQuota(t, outcome) ==
    /\ Asks(t, "quota", "sent")
    /\ live
    /\ Redirect(t, outcome)
    /\ Tell(t, outcome)
    /\ UNCHANGED tables

DeleteLicense(t, outcome) ==
    /\ Asks(t, "delete", "sent")
    /\ live
    /\ live' = FALSE
    /\ bought' = 0 /\ extended' = 0 /\ active' = {}
    /\ Redirect(t, outcome)
    /\ Tell(t, outcome)
    /\ UNCHANGED <<aktif, forms>>

Release(t, u, outcome) ==
    /\ Asks(t, ReleaseOf(u), "sent")
    /\ u \in active
    /\ active' = active \ {u}
    /\ Redirect(t, outcome)
    /\ Tell(t, outcome)
    /\ UNCHANGED <<live, bought, extended, aktif, forms>>

ForceDeactivate(t, outcome) == Release(t, "activation", outcome)
ForceDeactivateBranch(t, outcome) == Release(t, "branch", outcome)

FlippedStatus(wish) == ~aktif
NewStatus(wish) == wish

(* SetProductStatus, to what the button said.                              *)
ToggleProductStatus(t, outcome) ==
    /\ Asks(t, "toggle", "sent")
    /\ aktif' = NewStatus(req[t].wish)
    /\ Redirect(t, outcome)
    /\ told' = [u \in Tabs |->
                  IF u = t THEN Claim(t, outcome)
                  ELSE IF told[u].op = "toggle" /\ told[u].wish # req[t].wish
                       THEN [told[u] EXCEPT !.keeps = FALSE] ELSE told[u]]
    /\ UNCHANGED <<license, forms>>

Outcomes == {"ok", "err"}

Form(t) ==
    \E outcome \in Outcomes :
        \/ RecordPurchase(t, outcome) \/ ExtendSubscription(t, outcome)
        \/ SetBranchQuota(t, outcome) \/ DeleteLicense(t, outcome)
        \/ ToggleProductStatus(t, outcome)
        \/ ForceDeactivate(t, outcome) \/ ForceDeactivateBranch(t, outcome)

-----------------------------------------------------------------------------
(* Machines and branches: /activate, /register, /deactivate, /release      *)

Enter(u) ==
    /\ ReleaseOf(u) \in forms
    /\ live /\ aktif /\ u \notin active
    /\ active' = active \cup {u}
    /\ told' = [t \in Tabs |-> IF told[t].op = ReleaseOf(u)
                               THEN [told[t] EXCEPT !.keeps = FALSE] ELSE told[t]]
    /\ UNCHANGED <<live, bought, extended, aktif, forms, tab, req>>

Exit(u) ==
    /\ u \in active
    /\ active' = active \ {u}
    /\ UNCHANGED <<live, bought, extended, aktif, forms, tab, req, told>>

Browse(t) == Open(t) \/ Reload(t) \/ Press(t) \/ Lose(t) \/ Arrive(t)

Serve(t) ==
    \/ Dashboard(t) \/ ProductsPage(t) \/ LicenseDetail(t) \/ ErrorPage(t)
    \/ Form(t) \/ Refuse(t)

Next ==
    \/ \E t \in Tabs : Browse(t) \/ Serve(t)
    \/ \E u \in Units : Enter(u) \/ Exit(u)

Spec == Init /\ [][Next]_vars

-----------------------------------------------------------------------------
(* What an administrator may rely on.                                      *)

(* Every variable has its type.                                            *)
TypeOK ==
    /\ live \in BOOLEAN /\ bought \in 0..MaxPurchases /\ extended \in 0..MaxExtensions
    /\ active \in SUBSET Units /\ aktif \in BOOLEAN /\ forms \in Choices
    /\ tab \in [Tabs -> Tab]
    /\ req \in [Tabs -> Request]
    /\ told \in [Tabs -> Report]

(* The license page adds up while forms of other tabs are at work: every   *)
(* purchase and renewal its header counts is in the lists below.           *)
DetailAddsUp ==
    \A t \in Tabs :
        LET v == tab[t].view IN
        tab[t].url.page = "detail" /\ live =>
            v.header.bought <= v.purchases /\ v.header.extended <= v.extensions

Rests(t) == req[t] = NoReq /\ tab[t].url.page \in Pages /\ told[t].op # "none"

(* A form's alert tells how that form went, also after a reload; a release *)
(* is sure to only from a page without an alert of its own.                *)
FormFlashTellsOutcome ==
    \A t \in Tabs :
        Rests(t) /\ (told[t].op \notin Releases \/ ~told[t].alerted) =>
            tab[t].url.flash = told[t].outcome

(* What "berhasil" says is so until somebody undoes it, however old the    *)
(* page was that the button was on, and though another tab pressed the     *)
(* same button ("idempotent under a double-submit", ToggleProductStatus).  *)
SuccessIsTrue ==
    \A t \in Tabs :
        told[t].keeps =>
            CASE told[t].op = "toggle" -> aktif = told[t].wish
              [] told[t].op = "ForceDeactivate" -> "activation" \notin active
              [] told[t].op = "ForceDeactivateBranch" -> "branch" \notin active
              [] told[t].op = "delete" -> ~live
              [] OTHER -> TRUE

-----------------------------------------------------------------------------
(* What the code says of itself and does not do.                           *)

(* "Aktivasi berhasil dilepas" (ForceDeactivate), "Branch berhasil         *)
(* dilepas" (ForceDeactivateBranch): the alert of a release tells how that *)
(* release went.  It does not when the page had an alert before.           *)
ReleaseFlashTellsOutcome ==
    \A t \in Tabs :
        Rests(t) /\ told[t].op \in Releases => tab[t].url.flash = told[t].outcome

-----------------------------------------------------------------------------
(* The inductive invariant: why the safety properties hold.                *)

(* A form is sent from a page there is, and goes back to one; a page is    *)
(* answered with itself or with an error.                                  *)
RequestShapes ==
    \A t \in Tabs :
        LET r == req[t] IN
        /\ r.op = "none" => r = NoReq
        /\ r.op \in Forms => r.from.page \in Pages
        /\ r.op \in Pages => r.from.page \in {r.op, "error"}

(* What GetLicense read is at most what is there while the lists are read, *)
(* since only DeleteLicense takes purchases and renewals away.             *)
ReadingAddsUp ==
    \A t \in Tabs :
        LET v == req[t].view
            at == req[t].at
        IN
        req[t].op = "detail" /\ live =>
            /\ at \in {"header", "activations", "purchases", "branches"} =>
                  v.header.bought <= bought /\ v.header.extended <= extended
            /\ at \in {"purchases", "branches", "answered"} =>
                  v.header.bought <= v.purchases
            /\ at = "answered" => v.header.extended <= v.extensions

(* The URL a tab is on its way to, once its form was answered, carries the *)
(* outcome, through redirect and reload, unless the page turns out an error. *)
ReportsArrive ==
    \A t \in Tabs :
        /\ req[t] # NoReq /\ req[t].from.page # "error" /\ told[t].op # "none"
        /\ told[t].op \notin Releases \/ ~told[t].alerted
        => req[t].from.flash = told[t].outcome

IInv ==
    /\ TypeOK
    /\ RequestShapes
    /\ ReadingAddsUp
    /\ ReportsArrive
    /\ DetailAddsUp
    /\ FormFlashTellsOutcome
    /\ SuccessIsTrue
==============================================================================
