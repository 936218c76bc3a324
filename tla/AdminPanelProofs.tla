--------------------------- MODULE AdminPanelProofs ---------------------------
(***************************************************************************)
(* Proofs about AdminPanel, for any number of tabs, purchases, renewals    *)
(* and any choice of forms used together.                                  *)
(*                                                                         *)
(* The inductive invariant is split by tab: what holds of a tab's page,    *)
(* request and report, given the license and the product.                  *)
(***************************************************************************)
EXTENDS AdminPanel, TLAPS

ShapeInv(r) ==
    /\ r.op = "none" => r = NoReq
    /\ r.op \in Forms => r.from.page \in Pages
    /\ r.op \in Pages => r.from.page \in {r.op, "error"}

ReadingOf(op, at, v) ==
    op = "detail" /\ live =>
        /\ at \in {"header", "activations", "purchases", "branches"} =>
              v.header.bought <= bought /\ v.header.extended <= extended
        /\ at \in {"purchases", "branches", "answered"} => v.header.bought <= v.purchases
        /\ at = "answered" => v.header.extended <= v.extensions

ReadingInv(r) == ReadingOf(r.op, r.at, r.view)

PageInv(p) ==
    p.url.page = "detail" /\ live =>
        p.view.header.bought <= p.view.purchases /\ p.view.header.extended <= p.view.extensions

FlashInv(r, p, d) ==
    d.op # "none" /\ (d.op \notin Releases \/ ~d.alerted) =>
        /\ r # NoReq /\ r.from.page # "error" => r.from.flash = d.outcome
        /\ r = NoReq /\ p.url.page \in Pages => p.url.flash = d.outcome

SuccessInv(d) ==
    d.keeps =>
        CASE d.op = "toggle" -> aktif = d.wish
          [] d.op = "ForceDeactivate" -> "activation" \notin active
          [] d.op = "ForceDeactivateBranch" -> "branch" \notin active
          [] d.op = "delete" -> ~live
          [] OTHER -> TRUE

TabInv(r, p, d) ==
    ShapeInv(r) /\ ReadingInv(r) /\ PageInv(p) /\ FlashInv(r, p, d) /\ SuccessInv(d)

TablesOK ==
    /\ live \in BOOLEAN /\ bought \in 0..MaxPurchases /\ extended \in 0..MaxExtensions
    /\ active \in SUBSET Units /\ aktif \in BOOLEAN /\ forms \in Choices

TabOK(t) == TabInv(req[t], tab[t], told[t])

LEMMA InvariantByTab ==
    /\ IInv <=> TypeOK /\ \A t \in Tabs : TabOK(t)
    /\ IInv' <=> TypeOK' /\ \A t \in Tabs : TabOK(t)'
  <1>. USE DEF IInv, ReadingOf, RequestShapes, ReadingAddsUp, ReportsArrive, DetailAddsUp,
               FormFlashTellsOutcome, SuccessIsTrue, Rests, TabOK, TabInv,
               ShapeInv, ReadingInv, PageInv, FlashInv, SuccessInv
  <1>1. IInv <=> TypeOK /\ \A t \in Tabs : TabOK(t)
    OBVIOUS
  <1>2. IInv' <=> TypeOK' /\ \A t \in Tabs : TabOK(t)'
    OBVIOUS
  <1>. QED
    BY <1>1, <1>2

-----------------------------------------------------------------------------
(* Values.                                                                 *)

LEMMA BlankValues ==
    /\ NoView \in View /\ NoReq \in Request /\ NotTold \in Report /\ Blank \in Tab
    /\ NoReq.op = "none" /\ NoReq.at = "none"
    /\ NoReq.view = NoView /\ NotTold.op = "none" /\ NotTold.keeps = FALSE
    /\ Blank.url.page = "none" /\ Blank.view = NoView
    /\ NoView.header.bought = 0 /\ NoView.header.extended = 0
    /\ NoView.purchases = 0 /\ NoView.extensions = 0
  <1>1. NoView \in View
    BY DEF NoView, View, Header
  <1>2. At("none", "none") \in Url
    BY DEF At, Url, Flashes
  <1>3. NoReq \in Request /\ NoReq.op = "none" /\ NoReq.at = "none" /\ NoReq.view = NoView
    BY <1>1, <1>2 DEF NoReq, Request, Steps
  <1>4. NotTold \in Report /\ NotTold.op = "none" /\ NotTold.keeps = FALSE
    BY DEF NotTold, Report, Flashes
  <1>5. Blank \in Tab /\ Blank.url.page = "none" /\ Blank.view = NoView
    BY <1>1, <1>2 DEF Blank, Tab, At
  <1>. QED
    BY <1>1, <1>3, <1>4, <1>5 DEF NoView

LEMMA PagesAndForms ==
    /\ "none" \notin Pages /\ "none" \notin Forms /\ "error" \notin Pages
    /\ Pages \cap Forms = {} /\ Releases \subseteq Forms
    /\ "detail" \in Pages /\ "dashboard" \in Pages
    /\ \A page : FormsOn(page) \subseteq Forms
    /\ \A page : FormsOn(page) # {} => page \in Pages
  BY DEF Pages, Forms, Releases, FormsOn

LEMMA GetIsFresh ==
    ASSUME NEW url \in Url, url.page \in Pages, NEW r, r = Get(url)
    PROVE  /\ r \in Request /\ r.op = url.page /\ r.at = "sent" /\ r.from = url
           /\ r # NoReq /\ ShapeInv(r) /\ ReadingInv(r)
  <1>1. r \in Request /\ r.op = url.page /\ r.at = "sent" /\ r.from = url
    BY BlankValues DEF Get, Request, Steps, NoReq
  <1>. QED
    BY <1>1, PagesAndForms, BlankValues DEF ShapeInv, ReadingInv, ReadingOf

-----------------------------------------------------------------------------
(* Steps.                                                                  *)

LEMMA TypeByParts ==
    /\ TypeOK <=> TablesOK /\ tab \in [Tabs -> Tab] /\ req \in [Tabs -> Request]
                  /\ told \in [Tabs -> Report]
    /\ TypeOK' <=> TablesOK' /\ tab' \in [Tabs -> Tab] /\ req' \in [Tabs -> Request]
                  /\ told' \in [Tabs -> Report]
  BY DEF TypeOK, TablesOK

(* While the license is there its purchases and renewals only grow, and a  *)
(* deleted one does not come back.                                         *)
Grows == live' => live /\ bought <= bought' /\ extended <= extended'

(* A tab that has no part in a step: what is true of it stays true, if its *)
(* report still is.                                                        *)
LEMMA OtherTab ==
    ASSUME IInv, NEW u \in Tabs, Grows, TablesOK',
           req'[u] = req[u], tab'[u] = tab[u],
           told'[u].op = told[u].op, told'[u].alerted = told[u].alerted,
           told'[u].outcome = told[u].outcome,
           SuccessInv(told[u])'
    PROVE  TabOK(u)'
  <1>1. TypeOK /\ TabOK(u)
    BY InvariantByTab
  <1>2. req[u].view.header.bought \in Nat /\ req[u].view.header.extended \in Nat
    BY <1>1 DEF TypeOK, Request, View, Header
  <1>3. bought \in Nat /\ extended \in Nat /\ bought' \in Nat /\ extended' \in Nat
    BY <1>1, PanelAssumption DEF TypeOK, TablesOK
  <1>4. ReadingInv(req[u])'
    BY <1>1, <1>2, <1>3 DEF Grows, ReadingInv, ReadingOf, TabOK, TabInv
  <1>5. ShapeInv(req[u])' /\ PageInv(tab[u])' /\ FlashInv(req[u], tab[u], told[u])'
    BY <1>1 DEF Grows, ShapeInv, PageInv, FlashInv, TabOK, TabInv
  <1>. QED
    BY <1>4, <1>5 DEF TabOK, TabInv

(* A step of one tab.                                                      *)
LEMMA TabMoves ==
    ASSUME IInv, NEW t \in Tabs, NEW r \in Request, NEW p \in Tab, NEW d \in Report,
           UNCHANGED tables,
           req' = [req EXCEPT ![t] = r] \/ (req' = req /\ r = req[t]),
           tab' = [tab EXCEPT ![t] = p] \/ (tab' = tab /\ p = tab[t]),
           told' = [told EXCEPT ![t] = d] \/ (told' = told /\ d = told[t]),
           TabInv(r, p, d)
    PROVE  IInv'
  <1>1. TypeOK /\ TablesOK /\ \A u \in Tabs : TabOK(u)
    BY InvariantByTab, TypeByParts
  <1>2. /\ req' \in [Tabs -> Request] /\ tab' \in [Tabs -> Tab] /\ told' \in [Tabs -> Report]
        /\ req'[t] = r /\ tab'[t] = p /\ told'[t] = d
        /\ \A u \in Tabs \ {t} : req'[u] = req[u] /\ tab'[u] = tab[u] /\ told'[u] = told[u]
    BY <1>1, TypeByParts
  <1>3. TablesOK' /\ Grows
    <2>1. bought \in Nat /\ extended \in Nat
      BY <1>1, PanelAssumption DEF TablesOK
    <2>. QED
      BY <1>1, <2>1 DEF TablesOK, Grows, tables, license
  <1>4. ASSUME NEW u \in Tabs \ {t} PROVE TabOK(u)'
    <2>1. SuccessInv(told[u])'
      BY <1>1, <1>2 DEF TabOK, TabInv, SuccessInv, tables, license
    <2>. QED
      BY <1>2, <1>3, <2>1, OtherTab
  <1>5. TabOK(t)'
    BY <1>2 DEF TabOK, TabInv, ShapeInv, ReadingInv, ReadingOf, PageInv, FlashInv, SuccessInv,
                tables, license
  <1>6. TypeOK'
    BY <1>2, <1>3, TypeByParts
  <1>. QED
    BY <1>4, <1>5, <1>6, InvariantByTab

-----------------------------------------------------------------------------
(* The browser.                                                            *)

LEMMA NothingToldYet == ASSUME NEW r, NEW p PROVE FlashInv(r, p, NotTold) /\ SuccessInv(NotTold)
  BY BlankValues DEF FlashInv, SuccessInv

LEMMA OpenStep ==
    ASSUME IInv, NEW t \in Tabs, Open(t)
    PROVE  IInv'
  <1>1. TypeOK /\ TabOK(t) /\ tab[t] \in Tab
    BY InvariantByTab, TypeByParts
  <1>2. PICK page \in Pages : req' = [req EXCEPT ![t] = Get(At(page, "none"))]
    BY DEF Open
  <1>3. At(page, "none") \in Url /\ At(page, "none").page = page
    BY DEF At, Url, Flashes
  <1>4. PICK r : r = Get(At(page, "none"))
    OBVIOUS
  <1>5. r \in Request /\ ShapeInv(r) /\ ReadingInv(r)
    BY <1>3, <1>4, GetIsFresh
  <1>6. TabInv(r, tab[t], NotTold)
    BY <1>1, <1>5, NothingToldYet DEF TabOK, TabInv
  <1>. QED
    BY <1>1, <1>2, <1>4, <1>5, <1>6, BlankValues, TabMoves DEF Open

LEMMA ReloadStep ==
    ASSUME IInv, NEW t \in Tabs, Reload(t)
    PROVE  IInv'
  <1>1. TypeOK /\ TabOK(t) /\ tab[t] \in Tab /\ told[t] \in Report
    BY InvariantByTab, TypeByParts
  <1>2. tab[t].url \in Url /\ tab[t].url.page \in Pages /\ req[t] = NoReq
    BY <1>1 DEF Reload, Tab
  <1>3. PICK r : r = Get(tab[t].url)
    OBVIOUS
  <1>4. r \in Request /\ ShapeInv(r) /\ ReadingInv(r) /\ r.from = tab[t].url /\ r # NoReq
    BY <1>2, <1>3, GetIsFresh
  <1>5. TabInv(r, tab[t], told[t])
    BY <1>1, <1>2, <1>4 DEF TabOK, TabInv, FlashInv
  <1>. QED
    BY <1>1, <1>3, <1>4, <1>5, TabMoves DEF Reload

LEMMA PressStep ==
    ASSUME IInv, NEW t \in Tabs, Press(t)
    PROVE  IInv'
  <1>1. TypeOK /\ TabOK(t) /\ tab[t] \in Tab
    BY InvariantByTab, TypeByParts
  <1>2. PICK op \in FormsOn(tab[t].url.page) :
           req' = [req EXCEPT ![t] =
                     [NoReq EXCEPT !.op = op, !.at = "sent", !.from = tab[t].url,
                                   !.wish = ~tab[t].view.aktif]]
    BY DEF Press
  <1>3. op \in Forms /\ tab[t].url.page \in Pages
    BY <1>2, PagesAndForms
  <1>4. tab[t].url \in Url /\ (~tab[t].view.aktif) \in BOOLEAN
    BY <1>1 DEF Tab
  <1>5. PICK r : r = [NoReq EXCEPT !.op = op, !.at = "sent", !.from = tab[t].url,
                                   !.wish = ~tab[t].view.aktif]
    OBVIOUS
  <1>6. r \in Request /\ r.op = op /\ r.at = "sent" /\ r.from = tab[t].url
    BY <1>3, <1>4, <1>5, BlankValues DEF Request, Steps
  <1>7. TabInv(r, tab[t], NotTold)
    BY <1>1, <1>3, <1>6, NothingToldYet, PagesAndForms
    DEF TabOK, TabInv, ShapeInv, ReadingInv, ReadingOf
  <1>. QED
    BY <1>1, <1>2, <1>5, <1>6, <1>7, BlankValues, TabMoves DEF Press

LEMMA LoseStep ==
    ASSUME IInv, NEW t \in Tabs, Lose(t)
    PROVE  IInv'
  <1>1. PICK p : p = [Blank EXCEPT !.url.page = "error"]
    OBVIOUS
  <1>2. p \in Tab /\ p.url.page = "error"
    BY <1>1, BlankValues DEF Tab, Url
  <1>3. TabInv(NoReq, p, NotTold)
    BY <1>2, NothingToldYet, BlankValues, PagesAndForms
    DEF TabInv, ShapeInv, ReadingInv, ReadingOf, PageInv
  <1>. QED
    BY <1>1, <1>2, <1>3, BlankValues, TabMoves DEF Lose

LEMMA ArriveStep ==
    ASSUME IInv, NEW t \in Tabs, Arrive(t)
    PROVE  IInv'
  <1>1. /\ TypeOK /\ TabOK(t) /\ tab[t] \in Tab /\ told[t] \in Report /\ req[t] \in Request
        /\ req[t].at = "answered" /\ req[t] # NoReq
    BY InvariantByTab, TypeByParts, BlankValues DEF Arrive
  <1>2. /\ req[t].from \in Url /\ req[t].view \in View
        /\ req[t].op \in Pages \cup Forms \cup {"none"}
    BY <1>1 DEF Request
  <1>3. CASE req[t].op \in Forms
    <2>1. req[t].from.page \in Pages
      BY <1>1, <1>3 DEF TabOK, TabInv, ShapeInv
    <2>2. PICK r : r = Get(req[t].from)
      OBVIOUS
    <2>3. r \in Request /\ ShapeInv(r) /\ ReadingInv(r) /\ r.from = req[t].from /\ r # NoReq
      BY <1>2, <2>1, <2>2, GetIsFresh
    <2>4. TabInv(r, tab[t], told[t])
      BY <1>1, <2>1, <2>3 DEF TabOK, TabInv, FlashInv
    <2>. QED
      BY <1>1, <1>3, <2>2, <2>3, <2>4, TabMoves DEF Arrive
  <1>4. CASE req[t].op \notin Forms
    <2>1. req[t].op \in Pages /\ req[t].from.page \in {req[t].op, "error"}
      BY <1>1, <1>2, <1>4 DEF TabOK, TabInv, ShapeInv
    <2>2. PICK p : p = [url |-> req[t].from, view |-> req[t].view]
      OBVIOUS
    <2>3. p \in Tab /\ p.url = req[t].from /\ p.view = req[t].view
      BY <1>2, <2>2 DEF Tab
    <2>4. PageInv(p)
      BY <1>1, <2>1, <2>3 DEF TabOK, TabInv, ReadingInv, ReadingOf, PageInv
    <2>5. FlashInv(NoReq, p, told[t])
      BY <1>1, <2>3, PagesAndForms DEF TabOK, TabInv, FlashInv
    <2>6. TabInv(NoReq, p, told[t])
      BY <1>1, <2>4, <2>5, BlankValues, PagesAndForms
      DEF TabOK, TabInv, ShapeInv, ReadingInv, ReadingOf
    <2>. QED
      BY <1>1, <1>4, <2>2, <2>3, <2>6, BlankValues, TabMoves DEF Arrive
  <1>. QED
    BY <1>3, <1>4

-----------------------------------------------------------------------------
(* Pages.                                                                  *)

LEMMA ReadStep ==
    ASSUME IInv, NEW t \in Tabs, NEW at \in Steps \ {"none"}, NEW view \in View,
           Read(t, at, view), req[t].op \in Pages, ReadingOf(req[t].op, at, view)
    PROVE  IInv'
  <1>1. TypeOK /\ TabOK(t) /\ tab[t] \in Tab /\ told[t] \in Report /\ req[t] \in Request
    BY InvariantByTab, TypeByParts
  <1>2. PICK q \in Request : q = req[t]
    BY <1>1
  <1>3. PICK r : r = [q EXCEPT !.at = at, !.view = view]
    OBVIOUS
  <1>4. /\ r \in Request /\ r.op = q.op /\ r.at = at /\ r.from = q.from /\ r.view = view
    BY <1>2, <1>3 DEF Request
  <1>5. r # NoReq /\ q # NoReq
    BY <1>2, <1>4, BlankValues, PagesAndForms
  <1>6. ShapeInv(r) /\ ReadingInv(r)
    BY <1>1, <1>2, <1>4, PagesAndForms DEF TabOK, TabInv, ShapeInv, ReadingInv
  <1>7. TabInv(r, tab[t], told[t])
    BY <1>1, <1>2, <1>4, <1>5, <1>6 DEF TabOK, TabInv, FlashInv
  <1>8. req' = [req EXCEPT ![t] = r]
    BY <1>2, <1>3 DEF Read
  <1>. QED
    BY <1>1, <1>4, <1>7, <1>8, TabMoves DEF Read

LEMMA PageStep ==
    ASSUME IInv, NEW t \in Tabs, Dashboard(t) \/ ProductsPage(t) \/ LicenseDetail(t)
    PROVE  IInv'
  <1>1. TypeOK /\ TabOK(t) /\ req[t] \in Request /\ TablesOK
    BY InvariantByTab, TypeByParts
  <1>2. /\ {"header", "activations", "purchases", "branches", "answered"} \subseteq Steps \ {"none"}
        /\ {"dashboard", "products", "detail"} = Pages /\ NoView \in View
    BY BlankValues DEF Steps, Pages
  <1>3. /\ bought \in Nat /\ extended \in Nat /\ aktif \in BOOLEAN
        /\ {"activation"} \subseteq Units /\ {"branch"} \subseteq Units
    BY <1>1, PanelAssumption DEF TablesOK, Units
  <1>4. PICK v \in View : v = req[t].view
    BY <1>1 DEF Request
  <1>5. v.header \in Header /\ v.rows \in SUBSET Units
    BY <1>4 DEF View
  <1>6. CASE Dashboard(t)
    BY <1>2, <1>6, ReadStep DEF Dashboard, Asks, ReadingOf
  <1>7. CASE ProductsPage(t)
    <2>1. PICK w : w = [NoView EXCEPT !.aktif = aktif]
      OBVIOUS
    <2>2. w \in View
      BY <1>2, <1>3, <2>1 DEF View
    <2>. QED
      BY <1>2, <1>7, <2>1, <2>2, ReadStep DEF ProductsPage, Asks, ReadingOf
  <1>8. CASE GetLicense(t)
    <2>1. PICK w : w = [NoView EXCEPT !.header = HeaderNow]
      OBVIOUS
    <2>2. w \in View /\ w.header.bought = bought /\ w.header.extended = extended
      BY <1>2, <1>3, <2>1 DEF View, Header, HeaderNow
    <2>3. ReadingOf("detail", "header", w)
      BY <1>3, <2>2 DEF ReadingOf
    <2>. QED
      BY <1>2, <1>8, <2>1, <2>2, <2>3, ReadStep DEF GetLicense, Asks
  <1>9. CASE ListActivations(t)
    <2>1. PICK w : w = [v EXCEPT !.rows = active \cap {"activation"}]
      OBVIOUS
    <2>2. w \in View /\ w.header = v.header
      BY <1>3, <2>1 DEF View
    <2>3. ReadingOf("detail", "activations", w)
      BY <1>1, <1>4, <1>9, <2>2
      DEF ListActivations, Asks, TabOK, TabInv, ReadingInv, ReadingOf
    <2>. QED
      BY <1>2, <1>4, <1>9, <2>1, <2>2, <2>3, ReadStep DEF ListActivations, Asks
  <1>10. CASE ListPurchases(t)
    <2>1. PICK w : w = [v EXCEPT !.purchases = bought]
      OBVIOUS
    <2>2. w \in View /\ w.header = v.header /\ w.purchases = bought
      BY <1>3, <2>1 DEF View
    <2>3. ReadingOf("detail", "purchases", w)
      BY <1>1, <1>4, <1>10, <2>2
      DEF ListPurchases, Asks, TabOK, TabInv, ReadingInv, ReadingOf
    <2>. QED
      BY <1>2, <1>4, <1>10, <2>1, <2>2, <2>3, ReadStep DEF ListPurchases, Asks
  <1>11. CASE ListBranches(t)
    <2>1. PICK w : w = [v EXCEPT !.rows = @ \cup (active \cap {"branch"})]
      OBVIOUS
    <2>2. w \in View /\ w.header = v.header /\ w.purchases = v.purchases
      BY <1>3, <1>5, <2>1 DEF View
    <2>3. ReadingOf("detail", "branches", w)
      BY <1>1, <1>4, <1>11, <2>2
      DEF ListBranches, Asks, TabOK, TabInv, ReadingInv, ReadingOf
    <2>. QED
      BY <1>2, <1>4, <1>11, <2>1, <2>2, <2>3, ReadStep DEF ListBranches, Asks
  <1>12. CASE ListSubscriptionExtensions(t)
    <2>1. PICK w : w = [v EXCEPT !.extensions = extended]
      OBVIOUS
    <2>2. /\ w \in View /\ w.header = v.header /\ w.purchases = v.purchases
          /\ w.extensions = extended
      BY <1>3, <2>1 DEF View
    <2>3. ReadingOf("detail", "answered", w)
      BY <1>1, <1>4, <1>12, <2>2
      DEF ListSubscriptionExtensions, Asks, TabOK, TabInv, ReadingInv, ReadingOf
    <2>. QED
      BY <1>2, <1>4, <1>12, <2>1, <2>2, <2>3, ReadStep DEF ListSubscriptionExtensions, Asks
  <1>. QED
    BY <1>6, <1>7, <1>8, <1>9, <1>10, <1>11, <1>12 DEF LicenseDetail

LEMMA ErrorPageStep ==
    ASSUME IInv, NEW t \in Tabs, ErrorPage(t)
    PROVE  IInv'
  <1>1. /\ TypeOK /\ TabOK(t) /\ tab[t] \in Tab /\ told[t] \in Report
        /\ req[t].op \in Pages /\ req[t] # NoReq
    BY InvariantByTab, TypeByParts, BlankValues DEF ErrorPage
  <1>2. At("error", "none") \in Url /\ At("error", "none").page = "error"
    BY DEF At, Url, Flashes
  <1>3. PICK r : r = [NoReq EXCEPT !.op = req[t].op, !.at = "answered",
                                   !.from = At("error", "none")]
    OBVIOUS
  <1>4. /\ r \in Request /\ r.op = req[t].op /\ r.at = "answered"
        /\ r.from.page = "error" /\ r.view = NoView
    BY <1>1, <1>2, <1>3, BlankValues DEF Request, Steps
  <1>5. r # NoReq /\ ShapeInv(r) /\ ReadingInv(r)
    BY <1>1, <1>4, BlankValues, PagesAndForms DEF ShapeInv, ReadingInv, ReadingOf
  <1>6. TabInv(r, tab[t], told[t])
    BY <1>1, <1>4, <1>5 DEF TabOK, TabInv, FlashInv
  <1>. QED
    BY <1>1, <1>3, <1>4, <1>6, TabMoves DEF ErrorPage

-----------------------------------------------------------------------------
(* Forms.                                                                  *)

(* The answer of a form: back to a page, with the outcome in the URL unless *)
(* a release was sent from a page with an alert.                           *)
LEMMA AnsweredForm ==
    ASSUME IInv, NEW t \in Tabs, NEW outcome \in Outcomes, req[t].op \in Forms
    PROVE  \E r \in Request, d \in Report :
              /\ r = [NoReq EXCEPT !.op = req[t].op, !.at = "answered",
                                   !.from = Back(t, outcome)]
              /\ d = Claim(t, outcome)
              /\ outcome = "err" => ~d.keeps
              /\ ShapeInv(r) /\ r.op # "detail" /\ FlashInv(r, tab[t], d)
  <1>r. PICK r : r = [NoReq EXCEPT !.op = req[t].op, !.at = "answered",
                                   !.from = Back(t, outcome)]
    OBVIOUS
  <1>d. PICK d : d = Claim(t, outcome)
    OBVIOUS
  <1>1. TypeOK /\ TabOK(t) /\ req[t] \in Request
    BY InvariantByTab, TypeByParts
  <1>2. /\ req[t].from \in Url /\ req[t].from.page \in Pages /\ req[t].wish \in BOOLEAN
        /\ outcome \in Flashes
    BY <1>1 DEF Request, TabOK, TabInv, ShapeInv, Flashes, Outcomes
  <1>3. PICK url : url = Back(t, outcome)
    OBVIOUS
  <1>4. /\ url \in Url /\ url.page \in Pages
        /\ req[t].op \in Releases \/ url.flash = outcome
        /\ req[t].from.flash # "none" \/ url.flash = outcome
    <2>1. \A page \in Pages : At(page, outcome) \in Url /\ At(page, outcome).page = page
                              /\ At(page, outcome).flash = outcome
      BY <1>2 DEF At, Url
    <2>2. CASE req[t].op \in Releases
      BY <1>2, <1>3, <2>1, <2>2 DEF Back, BackOfReferer, Appended
    <2>3. CASE req[t].op \notin Releases
      BY <1>2, <1>3, <2>1, <2>3, PagesAndForms DEF Back, BackOfForm
    <2>. QED
      BY <2>2, <2>3
  <1>5. /\ r \in Request /\ r.op = req[t].op /\ r.from = url
    BY <1>r, <1>3, <1>4, BlankValues DEF Request, Steps
  <1>6. /\ d \in Report /\ d.op = req[t].op /\ d.wish = req[t].wish
        /\ d.keeps = (outcome = "ok") /\ d.outcome = outcome
        /\ d.alerted = (req[t].from.flash # "none")
    BY <1>d, <1>2 DEF Claim, Report
  <1>7. r # NoReq /\ r.op # "detail" /\ ShapeInv(r)
    BY <1>4, <1>5, BlankValues, PagesAndForms DEF ShapeInv
  <1>8. FlashInv(r, tab[t], d)
    BY <1>4, <1>5, <1>6, <1>7 DEF FlashInv
  <1>. QED
    BY <1>r, <1>d, <1>5, <1>6, <1>7, <1>8

LEMMA RefuseStep ==
    ASSUME IInv, NEW t \in Tabs, Refuse(t)
    PROVE  IInv'
  <1>1. /\ TypeOK /\ TabOK(t) /\ tab[t] \in Tab /\ req[t].op \in Forms
        /\ "err" \in Outcomes
    BY InvariantByTab, TypeByParts DEF Refuse, Outcomes
  <1>2. PICK r \in Request, d \in Report :
           /\ r = [NoReq EXCEPT !.op = req[t].op, !.at = "answered",
                                !.from = Back(t, "err")]
           /\ d = Claim(t, "err") /\ ~d.keeps
           /\ ShapeInv(r) /\ r.op # "detail" /\ FlashInv(r, tab[t], d)
    BY <1>1, AnsweredForm
  <1>3. TabInv(r, tab[t], d)
    BY <1>1, <1>2 DEF TabOK, TabInv, ReadingInv, ReadingOf, SuccessInv
  <1>. QED
    BY <1>1, <1>2, <1>3, TabMoves DEF Refuse, Redirect, Tell

(* A form that takes effect: the tables move on, and what the other tabs   *)
(* were told either stays true or is marked as undone.                     *)
LEMMA FormMoves ==
    ASSUME IInv, NEW t \in Tabs, NEW outcome \in Outcomes, req[t].op \in Forms,
           Redirect(t, outcome),
           told' \in [Tabs -> Report], told'[t] = Claim(t, outcome),
           TablesOK', Grows,
           \A u \in Tabs \ {t} :
              /\ told'[u].op = told[u].op /\ told'[u].alerted = told[u].alerted
              /\ told'[u].outcome = told[u].outcome
              /\ SuccessInv(told[u])',
           SuccessInv(told[t])'
    PROVE  IInv'
  <1>1. /\ TypeOK /\ TabOK(t)
    BY InvariantByTab
  <1>2. PICK r \in Request, d \in Report :
           /\ r = [NoReq EXCEPT !.op = req[t].op, !.at = "answered", !.from = Back(t, outcome)]
           /\ d = Claim(t, outcome)
           /\ ShapeInv(r) /\ r.op # "detail" /\ FlashInv(r, tab[t], d)
    BY AnsweredForm
  <1>5. /\ tab' = tab /\ req' \in [Tabs -> Request] /\ req'[t] = r
        /\ \A u \in Tabs \ {t} : req'[u] = req[u]
    BY <1>1, <1>2, TypeByParts DEF Redirect
  <1>6. TypeOK'
    BY <1>1, <1>5, TypeByParts
  <1>7. ASSUME NEW u \in Tabs \ {t} PROVE TabOK(u)'
    BY <1>5, OtherTab
  <1>8. TabOK(t)'
    <2>1. ShapeInv(req[t])' /\ ReadingInv(req[t])'
      BY <1>2, <1>5 DEF ShapeInv, ReadingInv, ReadingOf
    <2>2. PageInv(tab[t])'
      BY <1>1, <1>5 DEF TabOK, TabInv, PageInv, Grows
    <2>3. FlashInv(req[t], tab[t], told[t])'
      BY <1>2, <1>5 DEF FlashInv
    <2>. QED
      BY <2>1, <2>2, <2>3 DEF TabOK, TabInv
  <1>. QED
    BY <1>6, <1>7, <1>8, InvariantByTab

(* ... and tells only its own tab.                                         *)
LEMMA QuietFormMoves ==
    ASSUME IInv, NEW t \in Tabs, NEW outcome \in Outcomes, req[t].op \in Forms,
           Redirect(t, outcome), Tell(t, outcome),
           TablesOK', Grows,
           \A d : SuccessInv(d) => SuccessInv(d)',
           \A d : d.op = req[t].op /\ d.wish = req[t].wish => SuccessInv(d)'
    PROVE  IInv'
  <1>1. TypeOK /\ (\A u \in Tabs : TabOK(u)) /\ told \in [Tabs -> Report]
    BY InvariantByTab, TypeByParts
  <1>2. PICK r \in Request, d \in Report : d = Claim(t, outcome)
    BY AnsweredForm
  <1>3. d.op = req[t].op /\ d.wish = req[t].wish
    BY <1>2 DEF Claim
  <1>4. /\ told' = [told EXCEPT ![t] = d] /\ told' \in [Tabs -> Report] /\ told'[t] = d
        /\ \A u \in Tabs \ {t} : told'[u] = told[u]
    BY <1>1, <1>2 DEF Tell
  <1>5. SuccessInv(told[t])'
    BY <1>3, <1>4 DEF SuccessInv
  <1>6. ASSUME NEW u \in Tabs \ {t}
        PROVE  /\ told'[u].op = told[u].op /\ told'[u].alerted = told[u].alerted
               /\ told'[u].outcome = told[u].outcome /\ SuccessInv(told[u])'
    <2>1. SuccessInv(told[u])
      BY <1>1 DEF TabOK, TabInv
    <2>. QED
      BY <1>4, <2>1 DEF SuccessInv
  <1>. QED
    BY <1>2, <1>4, <1>5, <1>6, FormMoves

LEMMA FormStep ==
    ASSUME IInv, NEW t \in Tabs, Form(t)
    PROVE  IInv'
  <1>. PICK outcome \in Outcomes :
          \/ RecordPurchase(t, outcome) \/ ExtendSubscription(t, outcome)
          \/ SetBranchQuota(t, outcome) \/ DeleteLicense(t, outcome)
          \/ ToggleProductStatus(t, outcome)
          \/ ForceDeactivate(t, outcome) \/ ForceDeactivateBranch(t, outcome)
    BY DEF Form
  <1>1. TypeOK /\ TablesOK /\ (\A u \in Tabs : TabOK(u)) /\ req[t] \in Request
    BY InvariantByTab, TypeByParts
  <1>2. /\ bought \in Nat /\ extended \in Nat /\ MaxPurchases \in Nat /\ MaxExtensions \in Nat
        /\ 0 \in 0..MaxPurchases /\ 0 \in 0..MaxExtensions
    BY <1>1, PanelAssumption DEF TablesOK
  <1>3. CASE RecordPurchase(t, outcome)
    <2>1. /\ req[t].op = "purchase" /\ Redirect(t, outcome) /\ Tell(t, outcome)
          /\ UNCHANGED <<live, extended, active, aktif, forms>>
          /\ bought' \in {bought, bought + 1} /\ bought < MaxPurchases
      BY <1>3 DEF RecordPurchase, Asks
    <2>2. TablesOK' /\ Grows
      BY <1>1, <1>2, <2>1 DEF TablesOK, Grows
    <2>3. req[t].op \in Forms
      BY <2>1 DEF Forms
    <2>4. \A d : SuccessInv(d) => SuccessInv(d)'
      BY <2>1 DEF SuccessInv
    <2>5. \A d : d.op = req[t].op => SuccessInv(d)'
      BY <2>1 DEF SuccessInv
    <2>. QED
      BY <2>1, <2>2, <2>3, <2>4, <2>5, QuietFormMoves
  <1>4. CASE ExtendSubscription(t, outcome)
    <2>1. /\ req[t].op = "extend" /\ Redirect(t, outcome) /\ Tell(t, outcome)
          /\ UNCHANGED <<live, bought, active, aktif, forms>>
          /\ extended' = extended + 1 /\ extended < MaxExtensions
      BY <1>4 DEF ExtendSubscription, Asks
    <2>2. TablesOK' /\ Grows
      BY <1>1, <1>2, <2>1 DEF TablesOK, Grows
    <2>3. req[t].op \in Forms
      BY <2>1 DEF Forms
    <2>4. \A d : SuccessInv(d) => SuccessInv(d)'
      BY <2>1 DEF SuccessInv
    <2>5. \A d : d.op = req[t].op => SuccessInv(d)'
      BY <2>1 DEF SuccessInv
    <2>. QED
      BY <2>1, <2>2, <2>3, <2>4, <2>5, QuietFormMoves
  <1>5. CASE SetBranchQuota(t, outcome)
    <2>1. /\ req[t].op = "quota" /\ Redirect(t, outcome) /\ Tell(t, outcome)
          /\ UNCHANGED <<live, bought, extended, active, aktif, forms>>
      BY <1>5 DEF SetBranchQuota, Asks, tables, license
    <2>2. TablesOK' /\ Grows
      BY <1>1, <1>2, <2>1 DEF TablesOK, Grows
    <2>3. req[t].op \in Forms
      BY <2>1 DEF Forms
    <2>4. \A d : SuccessInv(d) => SuccessInv(d)'
      BY <2>1 DEF SuccessInv
    <2>5. \A d : d.op = req[t].op => SuccessInv(d)'
      BY <2>1 DEF SuccessInv
    <2>. QED
      BY <2>1, <2>2, <2>3, <2>4, <2>5, QuietFormMoves
  <1>6. CASE DeleteLicense(t, outcome)
    <2>1. /\ req[t].op = "delete" /\ Redirect(t, outcome) /\ Tell(t, outcome)
          /\ live' = FALSE /\ bought' = 0 /\ extended' = 0 /\ active' = {}
          /\ UNCHANGED <<aktif, forms>>
      BY <1>6 DEF DeleteLicense, Asks
    <2>2. TablesOK' /\ Grows
      BY <1>1, <1>2, <2>1 DEF TablesOK, Grows
    <2>3. req[t].op \in Forms
      BY <2>1 DEF Forms
    <2>4. \A d : SuccessInv(d) => SuccessInv(d)'
      BY <2>1 DEF SuccessInv
    <2>5. \A d : d.op = req[t].op => SuccessInv(d)'
      BY <2>1 DEF SuccessInv
    <2>. QED
      BY <2>1, <2>2, <2>3, <2>4, <2>5, QuietFormMoves
  <1>7. ASSUME NEW u \in Units, Release(t, u, outcome) PROVE IInv'
    <2>1. /\ req[t].op = ReleaseOf(u) /\ Redirect(t, outcome) /\ Tell(t, outcome)
          /\ active' = active \ {u}
          /\ UNCHANGED <<live, bought, extended, aktif, forms>>
      BY <1>7 DEF Release, Asks
    <2>2. TablesOK' /\ Grows
      BY <1>1, <1>2, <2>1 DEF TablesOK, Grows
    <2>3. req[t].op \in Forms
      BY <1>7, <2>1 DEF Units, ReleaseOf, Forms, Releases
    <2>4. \A d : SuccessInv(d) => SuccessInv(d)'
      BY <2>1 DEF SuccessInv
    <2>5. \A d : d.op = req[t].op => SuccessInv(d)'
      BY <1>7, <2>1 DEF SuccessInv, Units, ReleaseOf
    <2>. QED
      BY <2>1, <2>2, <2>3, <2>4, <2>5, QuietFormMoves
  <1>8. CASE ToggleProductStatus(t, outcome)
    <2>1. /\ req[t].op = "toggle" /\ Redirect(t, outcome) /\ aktif' = req[t].wish
          /\ UNCHANGED <<live, bought, extended, active, forms>>
          /\ req[t].wish \in BOOLEAN
      BY <1>1, <1>8 DEF ToggleProductStatus, NewStatus, Asks, license, Request
    <2>2. TablesOK' /\ Grows
      BY <1>1, <1>2, <2>1 DEF TablesOK, Grows
    <2>3. PICK r \in Request, d \in Report : d = Claim(t, outcome)
      BY <2>1, AnsweredForm DEF Forms
    <2>4. told' = [u \in Tabs |->
                     IF u = t THEN d
                     ELSE IF told[u].op = "toggle" /\ told[u].wish # req[t].wish
                          THEN [told[u] EXCEPT !.keeps = FALSE] ELSE told[u]]
      BY <1>8, <2>3 DEF ToggleProductStatus
    <2>5. ASSUME NEW u \in Tabs \ {t}
          PROVE  /\ told'[u] \in Report
                 /\ told'[u].op = told[u].op /\ told'[u].alerted = told[u].alerted
                 /\ told'[u].outcome = told[u].outcome /\ SuccessInv(told[u])'
      <3>1. PICK q \in Report : q = told[u]
        BY <1>1, TypeByParts
      <3>2. SuccessInv(q)
        BY <1>1, <3>1 DEF TabOK, TabInv
      <3>3. CASE q.op = "toggle" /\ q.wish # req[t].wish
        <4>1. PICK x : x = [q EXCEPT !.keeps = FALSE]
          OBVIOUS
        <4>2. /\ x \in Report /\ x.op = q.op /\ x.alerted = q.alerted
              /\ x.outcome = q.outcome /\ x.keeps = FALSE
          BY <4>1 DEF Report
        <4>3. told'[u] = x
          BY <2>4, <3>1, <3>3, <4>1
        <4>. QED
          BY <3>1, <4>2, <4>3 DEF SuccessInv
      <3>4. CASE ~(q.op = "toggle" /\ q.wish # req[t].wish)
        <4>1. told'[u] = q
          BY <2>4, <3>1, <3>4
        <4>. QED
          BY <2>1, <3>1, <3>2, <3>4, <4>1 DEF SuccessInv
      <3>. QED
        BY <3>3, <3>4
    <2>6. told' \in [Tabs -> Report] /\ told'[t] = d
      BY <2>4, <2>5
    <2>7. SuccessInv(told[t])'
      <3>1. d.op = "toggle" /\ d.wish = req[t].wish
        BY <2>1, <2>3 DEF Claim
      <3>. QED
        BY <2>1, <2>6, <3>1 DEF SuccessInv
    <2>8. req[t].op \in Forms
      BY <2>1 DEF Forms
    <2>. QED
      BY <2>1, <2>2, <2>3, <2>5, <2>6, <2>7, <2>8, FormMoves
  <1>. QED
    BY <1>3, <1>4, <1>5, <1>6, <1>7, <1>8
    DEF Form, ForceDeactivate, ForceDeactivateBranch, Units

-----------------------------------------------------------------------------
(* Machines and branches.                                                  *)

LEMMA EnterStep ==
    ASSUME IInv, NEW v \in Units, Enter(v)
    PROVE  IInv'
  <1>1. TypeOK /\ TablesOK /\ (\A u \in Tabs : TabOK(u))
    BY InvariantByTab, TypeByParts
  <1>2. /\ UNCHANGED <<live, bought, extended, aktif, forms, tab, req>>
        /\ active' = active \cup {v}
    BY DEF Enter
  <1>3. TablesOK' /\ Grows
    BY <1>1, <1>2, PanelAssumption DEF TablesOK, Grows
  <1>4. ASSUME NEW u \in Tabs
        PROVE  /\ told'[u] \in Report
               /\ told'[u].op = told[u].op /\ told'[u].alerted = told[u].alerted
               /\ told'[u].outcome = told[u].outcome /\ SuccessInv(told[u])'
    <2>1. PICK q \in Report : q = told[u]
      BY <1>1, TypeByParts
    <2>2. SuccessInv(q)
      BY <1>1, <2>1 DEF TabOK, TabInv
    <2>3. CASE q.op = ReleaseOf(v)
      <3>1. PICK x : x = [q EXCEPT !.keeps = FALSE]
        OBVIOUS
      <3>2. /\ x \in Report /\ x.op = q.op /\ x.alerted = q.alerted
            /\ x.outcome = q.outcome /\ x.keeps = FALSE
        BY <3>1 DEF Report
      <3>3. told'[u] = x
        BY <2>1, <2>3, <3>1 DEF Enter
      <3>. QED
        BY <2>1, <3>2, <3>3 DEF SuccessInv
    <2>4. CASE q.op # ReleaseOf(v)
      <3>1. told'[u] = q
        BY <2>1, <2>4 DEF Enter
      <3>. QED
        BY <1>2, <2>1, <2>2, <2>4, <3>1 DEF SuccessInv, Units, ReleaseOf
    <2>. QED
      BY <2>3, <2>4
  <1>5. told' \in [Tabs -> Report]
    <2>1. DOMAIN told' = Tabs /\ told' = [u \in Tabs |-> told'[u]]
      BY DEF Enter
    <2>. QED
      BY <1>4, <2>1
  <1>6. TypeOK'
    BY <1>1, <1>2, <1>3, <1>5, TypeByParts
  <1>7. \A u \in Tabs : TabOK(u)'
    BY <1>2, <1>3, <1>4, OtherTab
  <1>. QED
    BY <1>6, <1>7, InvariantByTab

LEMMA ExitStep ==
    ASSUME IInv, NEW v \in Units, Exit(v)
    PROVE  IInv'
  <1>1. TypeOK /\ TablesOK /\ (\A u \in Tabs : TabOK(u))
    BY InvariantByTab, TypeByParts
  <1>2. /\ UNCHANGED <<live, bought, extended, aktif, forms, tab, req, told>>
        /\ active' = active \ {v}
    BY DEF Exit
  <1>3. TablesOK' /\ Grows
    BY <1>1, <1>2, PanelAssumption DEF TablesOK, Grows
  <1>4. TypeOK'
    BY <1>1, <1>2, <1>3, TypeByParts
  <1>5. ASSUME NEW u \in Tabs PROVE TabOK(u)'
    <2>1. SuccessInv(told[u])'
      BY <1>1, <1>2 DEF TabOK, TabInv, SuccessInv
    <2>. QED
      BY <1>2, <1>3, <2>1, OtherTab
  <1>. QED
    BY <1>4, <1>5, InvariantByTab

-----------------------------------------------------------------------------
(* Along every behaviour.                                                  *)

LEMMA InitEstablishes == Init => IInv
  <1>. SUFFICES ASSUME Init PROVE IInv
    OBVIOUS
  <1>1. TablesOK
    BY PanelAssumption DEF Init, TablesOK
  <1>2. TypeOK
    BY <1>1, BlankValues, TypeByParts DEF Init
  <1>3. TabInv(NoReq, Blank, NotTold)
    BY BlankValues, PagesAndForms, NothingToldYet
    DEF TabInv, ShapeInv, ReadingInv, ReadingOf, PageInv
  <1>. QED
    BY <1>2, <1>3, InvariantByTab DEF Init, TabOK

LEMMA StepPreserves == IInv /\ [Next]_vars => IInv'
  <1>. SUFFICES ASSUME IInv, [Next]_vars PROVE IInv'
    OBVIOUS
  <1>1. ASSUME NEW t \in Tabs, Browse(t) PROVE IInv'
    BY <1>1, OpenStep, ReloadStep, PressStep, LoseStep, ArriveStep DEF Browse
  <1>2. ASSUME NEW t \in Tabs, Serve(t) PROVE IInv'
    BY <1>2, PageStep, ErrorPageStep, FormStep, RefuseStep DEF Serve
  <1>3. CASE UNCHANGED vars
    BY <1>3, InvariantByTab
    DEF vars, tables, license, TypeOK, TabOK, TabInv, ShapeInv, ReadingInv, ReadingOf,
        PageInv, FlashInv, SuccessInv
  <1>. QED
    BY <1>1, <1>2, <1>3, EnterStep, ExitStep DEF Next

(* The inductive invariant holds throughout: pages, requests and reports   *)
(* of every tab are as the properties need them.                           *)
THEOREM Invariance == Spec => []IInv
  BY InitEstablishes, StepPreserves, PTL DEF Spec

(* Whatever other tabs do while a license page is read query by query, its *)
(* lists account for what its header says was bought and renewed.          *)
THEOREM LicensePageAddsUp == Spec => []DetailAddsUp
  <1>1. IInv => DetailAddsUp
    BY DEF IInv
  <1>. QED
    BY <1>1, Invariance, PTL

(* The alert a tab ends up with tells how its own form went, through       *)
(* redirect and reload; for a release, if it was sent from a page without. *)
THEOREM AlertsTellTheOutcome == Spec => []FormFlashTellsOutcome
  <1>1. IInv => FormFlashTellsOutcome
    BY DEF IInv
  <1>. QED
    BY <1>1, Invariance, PTL

(* What a form reported done is so until somebody undoes it, for buttons   *)
(* of old pages and buttons pressed twice too.                             *)
THEOREM ReportedIsDone == Spec => []SuccessIsTrue
  <1>1. IInv => SuccessIsTrue
    BY DEF IInv
  <1>. QED
    BY <1>1, Invariance, PTL
==============================================================================
