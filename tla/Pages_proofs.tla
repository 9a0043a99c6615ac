------------------------------ MODULE Pages_proofs ------------------------------
(***************************************************************************)
(* Proofs about Pages for any number of calls, loads and texts.            *)
(***************************************************************************)
EXTENDS Pages, TLAPS

(* What is used of the tables: a handler takes and gives statuses of its   *)
(* kind, and a button is offered where its handler accepts it.             *)
Fits(op, k) ==
  /\ op \in DOMAIN Handler
  /\ DOMAIN Handler[op] \subseteq StatusOf[k]
  /\ \A s \in DOMAIN Handler[op] : Handler[op][s] \in StatusOf[k] \cup {NoStatus}

Offers(p, op) ==
  \A row \in AnyStatus \cup {NoStatus} :
    <<row, op>> \in p.offers /\ op \in DOMAIN Handler =>
      row # NoStatus /\ row \in DOMAIN Handler[op]

Updated == {"ticket", "booking", "cmsPage", "banner", "config"}

OffersUpdate(p) ==
  \A row : <<row, "update">> \in p.offers => p.kind \in Updated /\ (row = NoStatus => p.kind = "config")

Kinds == {"ticket", "booking", "client", "subAdmin", "role", "cmsPage", "banner", "config",
          "transaction"}

PageFits(p) ==
  /\ p.kind \in Kinds
  /\ p.first \in {"all", "pending"}
  /\ p.removes => p.filter = "none" /\ p.search = "none"
  /\ OffersUpdate(p)
  /\ \A op \in DOMAIN Handler : Offers(p, op)

-----------------------------------------------------------------------------
LEMMA KindsOf ==
  /\ DOMAIN StatusOf = Kinds /\ DOMAIN Operations = Kinds
  /\ \A k \in Kinds : StatusOf[k] \subseteq AnyStatus /\ NoStatus \notin StatusOf[k]
<1>1. DOMAIN StatusOf = Kinds /\ DOMAIN Operations = Kinds
  BY DEF StatusOf, Operations, Kinds
<1>2. \A k \in Kinds : StatusOf[k] \subseteq AnyStatus
  BY <1>1 DEF AnyStatus
<1>3. /\ StatusOf["ticket"] = TicketStatus \cup {Unlisted} /\ StatusOf["booking"] = BookingStatus
      /\ StatusOf["client"] = CompanyStatus /\ StatusOf["subAdmin"] = UserStatus
      /\ StatusOf["role"] = RoleStatus /\ StatusOf["cmsPage"] = IsPublished
      /\ StatusOf["banner"] = IsActive /\ StatusOf["config"] = IsActive
      /\ StatusOf["transaction"] = WalletTransactionType
  BY DEF StatusOf
<1>4. \A k \in Kinds : NoStatus \notin StatusOf[k]
  BY <1>3
     DEF Kinds, NoStatus, TicketStatus, Unlisted, BookingStatus, CompanyStatus, UserStatus, RoleStatus,
         IsPublished, IsActive, WalletTransactionType
<1> QED
  BY <1>1, <1>2, <1>4

LEMMA HandlersFit ==
  \A k \in Kinds : \A op \in Operations[k] : op # "update" => Fits(op, k)
<1> USE DEF Fits, Handler, To, StatusOf, Unlisted
<1>1. Fits("reply", "ticket") /\ Fits("adminReply", "ticket")
  BY DEF replyToTicket, adminReplyToTicket, TicketStatus
<1>2. Fits("close", "ticket") /\ Fits("reopen", "ticket")
  BY DEF closeTicket, reopenTicket, TicketStatus
<1>3. Fits("cancel", "booking")
  BY DEF cancelBooking, BookingStatus
<1>4. Fits("approve", "client") /\ Fits("reject", "client")
  BY DEF approveClient, rejectClient, CompanyStatus
<1>5. Fits("suspend", "client") /\ Fits("activate", "client")
  BY DEF suspendClient, activateClient, CompanyStatus
<1>6. Fits("disable", "subAdmin")
  BY DEF disableSubAdmin, UserStatus
<1>7. Fits("deleteRole", "role")
  BY DEF deleteRole, RoleStatus
<1>8. Fits("deletePage", "cmsPage") /\ Fits("deleteBanner", "banner")
  BY DEF deletePage, deleteBanner, IsPublished, IsActive
<1>9. /\ Operations["ticket"] = {"reply", "adminReply", "close", "reopen", "update"}
      /\ Operations["booking"] = {"cancel", "update"}
      /\ Operations["client"] = {"approve", "reject", "suspend", "activate"}
      /\ Operations["subAdmin"] = {"disable"} /\ Operations["role"] = {"deleteRole"}
      /\ Operations["cmsPage"] = {"update", "deletePage"}
      /\ Operations["banner"] = {"update", "deleteBanner"}
      /\ Operations["config"] = {"update"} /\ Operations["transaction"] = {}
  BY DEF Operations
<1> HIDE DEF Fits
<1> QED
  BY <1>1, <1>2, <1>3, <1>4, <1>5, <1>6, <1>7, <1>8, <1>9 DEF Kinds

LEMMA PagesFit == \A p \in Pages : PageFits(p)
<1> USE DEF PageFits, Offers, OffersUpdate, Kinds, Updated, Page, Whole, Report, canCancel, NoStatus
<1>0. /\ Handler["reply"] = replyToTicket /\ Handler["close"] = closeTicket
      /\ Handler["adminReply"] = replyToTicket
      /\ Handler["reopen"] = reopenTicket /\ Handler["cancel"] = cancelBooking
      /\ Handler["approve"] = approveClient /\ Handler["reject"] = rejectClient
      /\ Handler["suspend"] = suspendClient /\ Handler["activate"] = activateClient
      /\ Handler["disable"] = disableSubAdmin /\ Handler["deleteRole"] = deleteRole
      /\ Handler["deletePage"] = deletePage /\ Handler["deleteBanner"] = deleteBanner
      /\ "update" \notin DOMAIN Handler
  BY DEF Handler, adminReplyToTicket
<1> DEFINE Empty(p) == p.offers = {}
<1>1. PageFits(ClientsList)
  BY <1>0 DEF ClientsList, approveClient, suspendClient, To, CompanyStatus
<1>2. PageFits(ClientDetail)
  BY <1>0 DEF ClientDetail, approveClient, rejectClient, suspendClient, activateClient, To, CompanyStatus
<1>3. PageFits(AllBookingsList)
  BY DEF AllBookingsList
<1>4. PageFits(AdminBookingDetail)
  BY <1>0 DEF AdminBookingDetail, BookingStatus
<1>5. PageFits(AdminSupportList) /\ PageFits(SupportList)
  BY DEF AdminSupportList, SupportList
<1>6. PageFits(TicketDetail) /\ PageFits(AdminTicketDetail)
  BY <1>0
     DEF TicketDetail, AdminTicketDetail, replyToTicket, closeTicket, reopenTicket, To, StatusOf,
         TicketStatus
<1>7. PageFits(BookingsList)
  BY <1>0 DEF BookingsList, cancelBooking, To
<1>8. PageFits(BookingDetail)
  BY <1>0 DEF BookingDetail, cancelBooking, To
<1>9. PageFits(AdminDashboard)
  BY <1>0 DEF AdminDashboard, approveClient, rejectClient, To, CompanyStatus
<1>10. PageFits(Dashboard) /\ PageFits(WalletDashboard)
  BY DEF Dashboard, WalletDashboard
<1>11. PageFits(RevenueReport) /\ PageFits(BookingsReport) /\ PageFits(CreditReport)
  BY DEF RevenueReport, BookingsReport, CreditReport
<1>12. PageFits(SubAdminsList) /\ PageFits(RolesList)
  BY <1>0 DEF SubAdminsList, RolesList, disableSubAdmin, deleteRole, To, UserStatus, RoleStatus
<1>13. PageFits(CmsPages) /\ PageFits(CmsBanners)
  BY <1>0 DEF CmsPages, CmsBanners, deletePage, deleteBanner, To, IsPublished, IsActive
<1>14. PageFits(ApiSettings)
  BY <1>0 DEF ApiSettings
<1> HIDE DEF PageFits
<1> QED
  BY <1>1, <1>2, <1>3, <1>4, <1>5, <1>6, <1>7, <1>8, <1>9, <1>10, <1>11, <1>12, <1>13, <1>14 DEF Pages

(* An update is offered what its DTO takes, with the three exceptions.     *)
LEMMA DtosFit ==
  \A k \in Kinds :
    /\ "update" \in Operations[k] <=> k \in Updated
    /\ k \in Updated =>
         /\ Dto[k] \subseteq StatusOf[k]
         /\ \A target \in Choices[k] :
              \/ target \in Dto[k]
              \/ k = "booking" /\ target = "refunded"
              \/ k \in {"banner", "config"} /\ target = Unfit
<1>1. /\ Operations["ticket"] = {"reply", "adminReply", "close", "reopen", "update"}
      /\ Operations["booking"] = {"cancel", "update"}
      /\ Operations["client"] = {"approve", "reject", "suspend", "activate"}
      /\ Operations["subAdmin"] = {"disable"} /\ Operations["role"] = {"deleteRole"}
      /\ Operations["cmsPage"] = {"update", "deletePage"}
      /\ Operations["banner"] = {"update", "deleteBanner"}
      /\ Operations["config"] = {"update"} /\ Operations["transaction"] = {}
  BY DEF Operations
<1>2. \A k \in Kinds : "update" \in Operations[k] <=> k \in Updated
  BY <1>1 DEF Kinds, Updated
<1>3. /\ Dto["ticket"] = StatusOf["ticket"] /\ Dto["booking"] = BookingStatus
      /\ Dto["cmsPage"] = IsPublished /\ Dto["banner"] = IsActive /\ Dto["config"] = IsActive
  BY DEF Dto, AdminUpdateTicketDto, UpdateBookingStatusDto, UpdatePageDto, UpdateBannerDto,
     UpdateApiConfigDto
<1>4. /\ StatusOf["ticket"] = TicketStatus \cup {Unlisted} /\ StatusOf["booking"] = BookingStatus
      /\ StatusOf["cmsPage"] = IsPublished /\ StatusOf["banner"] = IsActive
      /\ StatusOf["config"] = IsActive
  BY DEF StatusOf
<1>5. /\ Choices["ticket"] = TicketStatus
      /\ Choices["booking"] = {"pending", "confirmed", "cancelled", "completed", "refunded"}
      /\ Choices["cmsPage"] = IsPublished /\ Choices["banner"] = IsActive \cup {Unfit}
      /\ Choices["config"] = IsActive \cup {Unfit}
  BY DEF Choices
<1>6. \A k \in Updated : Dto[k] \subseteq StatusOf[k]
  BY <1>3, <1>4 DEF Updated
<1>7. \A target \in Choices["booking"] : target \in Dto["booking"] \/ target = "refunded"
  BY <1>3, <1>5 DEF BookingStatus
<1>8. \A k \in Updated : \A target \in Choices[k] :
        \/ target \in Dto[k]
        \/ k = "booking" /\ target = "refunded"
        \/ k \in {"banner", "config"} /\ target = Unfit
  BY <1>3, <1>4, <1>5, <1>7 DEF Updated
<1> QED
  BY <1>2, <1>6, <1>8

-----------------------------------------------------------------------------
(* A call is one its page's handlers have, and saves what its handler      *)
(* gives for the copy it read.                                             *)
CallInv ==
  \A c \in Calls :
    /\ call[c].state # "idle" => call[c].op \in Operations[page.kind]
    /\ call[c].state = "saving" =>
         call[c].op \in DOMAIN Handler \ OneWrite /\ call[c].copy \in DOMAIN Handler[call[c].op]

Typed == TypeOK /\ CallInv

LEMMA TypedInit == Init => Typed
<1> SUFFICES ASSUME Init PROVE Typed
  OBVIOUS
<1> USE PagesAssumption
<1>1. page \in Pages /\ page.kind \in Kinds /\ page.first \in {"all", "pending"}
  BY PagesFit DEF Init, PageFits
<1>2. NoQuery \in Query /\ FirstQuery \in Query
  BY <1>1 DEF NoQuery, FirstQuery, Query
<1>3. NoLoad \in Load /\ LoadOf(FirstQuery) \in Load
  BY <1>2 DEF NoLoad, LoadOf, Load
<1>4. load \in [1 .. MaxLoads -> Load] /\ query \in Query
  BY <1>2, <1>3 DEF Init
<1>5. Idle \in Call
  BY DEF Idle, Call, NoStatus
<1>6. CallInv
  BY DEF Init, CallInv, Idle
<1>7. NoAnswer \in Answer
  BY <1>2 DEF NoAnswer, Answer
<1>8. call \in [Calls -> Call]
  BY <1>5 DEF Init
<1>9. /\ issued \in 1 .. MaxLoads /\ rev \in Nat /\ asked \in Words /\ emitted \in SUBSET Words
      /\ status \in StatusOf[page.kind] \cup {NoStatus}
  BY DEF Init
<1> QED
  BY <1>1, <1>4, <1>6, <1>7, <1>8, <1>9 DEF Init, Typed, TypeOK

LEMMA QueryKeeps ==
  ASSUME NEW q \in Query
  PROVE  /\ \A tab \in {"all", "pending"} \cup Tabs :
              /\ [q EXCEPT !.tab = tab] \in Query
              /\ [q EXCEPT !.tab = tab, !.at = 0] \in Query
         /\ \A word \in Words :
              /\ [q EXCEPT !.word = word] \in Query
              /\ [q EXCEPT !.word = word, !.at = 0] \in Query
         /\ \A at \in 0 .. MaxPage : [q EXCEPT !.at = at] \in Query
         /\ [q EXCEPT !.at = 0] \in Query
<1>1. 0 \in 0 .. MaxPage
  BY PagesAssumption
<1>2. ASSUME NEW tab \in {"all", "pending"} \cup Tabs
      PROVE  [q EXCEPT !.tab = tab] \in Query /\ [q EXCEPT !.tab = tab, !.at = 0] \in Query
  BY <1>1 DEF Query
<1>3. ASSUME NEW word \in Words
      PROVE  [q EXCEPT !.word = word] \in Query /\ [q EXCEPT !.word = word, !.at = 0] \in Query
  BY <1>1 DEF Query
<1>4. ASSUME NEW at \in 0 .. MaxPage PROVE [q EXCEPT !.at = at] \in Query
  BY DEF Query
<1> QED
  BY <1>1, <1>2, <1>3, <1>4

(* What a step of the filters leaves.                                      *)
LEMMA LoadNowTyped ==
  ASSUME Typed, query' \in Query, LoadNow
  PROVE  /\ issued' \in 1 .. MaxLoads /\ load' \in [1 .. MaxLoads -> Load]
         /\ loading' \in BOOLEAN /\ asked' \in Words /\ shown' = shown
<1>1. LoadOf(query') \in Load
  BY PagesAssumption DEF LoadOf, NoLoad, Load, NoStatus, Query, NoQuery
<1>2. load' = [load EXCEPT ![issued + 1] = LoadOf(query')] /\ load \in [1 .. MaxLoads -> Load]
  BY DEF LoadNow, Typed, TypeOK
<1>3. load' \in [1 .. MaxLoads -> Load]
  BY <1>1, <1>2
<1>4. query'.word \in Words
  BY DEF Query
<1>5. issued' \in 1 .. MaxLoads
  BY PagesAssumption DEF LoadNow, Typed, TypeOK
<1> QED
  BY <1>3, <1>4, <1>5 DEF LoadNow

LEMMA FiltersTyped ==
  ASSUME Typed, Filters
  PROVE  /\ UNCHANGED <<page, supplierRef, open, server, shown, call>>
         /\ query' \in Query /\ filtering' \in BOOLEAN /\ typing' \in BOOLEAN
         /\ emitted' \in SUBSET Words
         /\ LoadNow \/ UNCHANGED <<asked, list>>
<1> USE PagesAssumption DEF Typed, TypeOK, list
<1>1. ASSUME NEW tab \in {"all"} \cup (Tabs \cap page.tabs), onTabChange(tab) \/ Filter(tab)
      PROVE  /\ UNCHANGED <<page, supplierRef, open, server, shown, call, typing, emitted>>
             /\ query' \in Query /\ filtering' \in BOOLEAN
             /\ LoadNow \/ UNCHANGED <<asked, list>>
  <2>1. CASE onTabChange(tab)
    BY <2>1, QueryKeeps DEF onTabChange, LoadNow
  <2>2. CASE Filter(tab)
    BY <2>2, QueryKeeps DEF Filter
  <2> QED
    BY <1>1, <2>1, <2>2
<1>2. ASSUME NEW at \in 0 .. MaxPage, onPage(at)
      PROVE  /\ UNCHANGED <<page, supplierRef, open, server, shown, call, filtering, typing, emitted>>
             /\ query' \in Query /\ LoadNow
  BY <1>2, QueryKeeps DEF onPage, LoadNow
<1>3. ASSUME NEW word \in Words, onSearch(word) \/ Type(word)
      PROVE  /\ UNCHANGED <<page, supplierRef, open, server, shown, call, filtering, emitted>>
             /\ query' \in Query /\ typing' \in BOOLEAN
             /\ LoadNow \/ UNCHANGED <<asked, list>>
  <2>1. CASE onSearch(word)
    BY <2>1, QueryKeeps DEF onSearch, LoadNow
  <2>2. CASE Type(word)
    BY <2>2, QueryKeeps DEF Type
  <2> QED
    BY <1>3, <2>1, <2>2
<1>4. ASSUME filterForm \/ loadReport
      PROVE  /\ UNCHANGED <<page, supplierRef, open, server, shown, call, typing, emitted>>
             /\ query' \in Query /\ filtering' \in BOOLEAN /\ LoadNow
  <2>1. CASE filterForm
    <3>1. query' \in Query
      BY <2>1, QueryKeeps DEF filterForm
    <3> QED
      BY <2>1, <3>1 DEF filterForm, LoadNow
  <2>2. CASE loadReport
    BY <2>2 DEF loadReport, LoadNow
  <2> QED
    BY <1>4, <2>1, <2>2
<1>5. ASSUME searchControl
      PROVE  /\ UNCHANGED <<page, supplierRef, open, server, shown, call, filtering>>
             /\ query' \in Query /\ typing' \in BOOLEAN /\ emitted' \in SUBSET Words
             /\ LoadNow \/ UNCHANGED <<asked, list>>
  <2>1. CASE emitted = {query.word}
    BY <1>5, <2>1 DEF searchControl
  <2>2. CASE emitted # {query.word}
    <3>1. query' \in Query /\ emitted' = {query.word}
      BY <1>5, <2>2, QueryKeeps DEF searchControl
    <3>2. query.word \in Words
      BY DEF Query
    <3> QED
      BY <1>5, <2>2, <3>1, <3>2 DEF searchControl, LoadNow
  <2> QED
    BY <2>1, <2>2
<1> QED
  BY <1>1, <1>2, <1>3, <1>4, <1>5 DEF Filters

(* What a step of a handler does: it writes, refuses, or reads.            *)
ServeWrites(c) ==
  /\ call[c].state \in {"sent", "saving"}
  /\ \E to \in StatusOf[page.kind] \cup {NoStatus} : Write(c, to)
ServeReads(c) ==
  /\ UNCHANGED server
  /\ call[c].state = "sent" /\ call[c].op \in DOMAIN Handler \ OneWrite
  /\ status \in DOMAIN Handler[call[c].op]
  /\ call' = [call EXCEPT ![c].state = "saving", ![c].copy = status]
ServeEnds(c) ==
  /\ UNCHANGED server
  /\ call[c].state \in {"sent", "saving", "saved"}
  /\ call' = [call EXCEPT ![c].state = "refused"]

LEMMA HandlerGives ==
  ASSUME Typed, NEW c \in Calls, call[c].state # "idle", call[c].op \in DOMAIN Handler,
         NEW s \in DOMAIN Handler[call[c].op]
  PROVE  Handler[call[c].op][s] \in StatusOf[page.kind] \cup {NoStatus}
<1>1. page.kind \in Kinds
  BY PagesFit DEF Typed, TypeOK, PageFits
<1>2. call[c].op \in Operations[page.kind] /\ call[c].op # "update"
  BY DEF Typed, CallInv, Handler
<1> QED
  BY <1>1, <1>2, HandlersFit DEF Fits

LEMMA ServeCases ==
  ASSUME Typed, NEW c \in Calls, Serve(c)
  PROVE  /\ UNCHANGED <<page, supplierRef, open, filters, list>>
         /\ ServeWrites(c) \/ ServeReads(c) \/ ServeEnds(c)
<1> USE DEF ServeWrites, ServeReads, ServeEnds
<1>1. CASE Read(c)
  <2>1. call[c].op # "update"
    BY <1>1 DEF Read, Handler
  <2> QED
    BY <1>1, <2>1 DEF Read, Refuse, Accepts
<1>2. CASE Save(c)
  <2>1. /\ UNCHANGED <<page, supplierRef, open, filters, list>> /\ call[c].state = "saving"
        /\ \/ Write(c, status)
           \/ Write(c, Handler[call[c].op][call[c].copy])
    BY <1>2 DEF Save
  <2>2. Handler[call[c].op][call[c].copy] \in StatusOf[page.kind] \cup {NoStatus}
    BY <2>1, HandlerGives DEF Typed, CallInv
  <2> QED
    BY <2>1, <2>2 DEF Typed, TypeOK
<1>3. CASE WriteAtOnce(c)
  <2>1. OneWrite \subseteq DOMAIN Handler
    BY DEF OneWrite, Handler
  <2>2. CASE Accepts(call[c].op, NoStatus)
    <3>1. call[c].op # "update"
      BY <1>3 DEF WriteAtOnce, OneWrite
    <3>2. status \in DOMAIN Handler[call[c].op]
      BY <2>2, <3>1 DEF Accepts
    <3>3. call[c].op \in DOMAIN Handler /\ call[c].state = "sent"
      BY <1>3, <2>1 DEF WriteAtOnce
    <3>4. Handler[call[c].op][status] \in StatusOf[page.kind] \cup {NoStatus}
      BY <3>2, <3>3, HandlerGives
    <3> QED
      BY <1>3, <2>2, <3>4 DEF WriteAtOnce
  <2>3. CASE ~Accepts(call[c].op, NoStatus)
    BY <1>3, <2>3 DEF WriteAtOnce, Refuse
  <2> QED
    BY <2>2, <2>3
<1>4. CASE CallFails(c)
  BY <1>4 DEF CallFails
<1>5. ASSUME NEW kind \in Updated, Update(c, kind)
      PROVE  /\ UNCHANGED <<page, supplierRef, open, filters, list>>
             /\ ServeWrites(c) \/ ServeReads(c) \/ ServeEnds(c)
  <2>1. CASE Accepts("update", call[c].target)
    <3>1. kind = page.kind /\ kind \in Kinds
      BY <1>5 DEF Update, Updated, Kinds
    <3>2. call[c].target \in StatusOf[page.kind]
      BY <2>1, <3>1, DtosFit DEF Accepts
    <3> QED
      BY <1>5, <2>1, <3>2 DEF Update
  <2>2. CASE ~Accepts("update", call[c].target)
    BY <1>5, <2>2 DEF Update, Refuse
  <2> QED
    BY <2>1, <2>2
<1>6. CASE adminUpdateTicket(c) \/ updateBookingStatus(c) \/ updatePage(c) \/ updateBanner(c)
           \/ updateConfig(c)
  BY <1>5, <1>6
     DEF adminUpdateTicket, updateBookingStatus, updatePage, updateBanner, updateConfig, Updated
<1> QED
  BY <1>1, <1>2, <1>3, <1>4, <1>6 DEF Serve

LEMMA PageFacts ==
  ASSUME Typed
  PROVE  /\ PageFits(page) /\ page.kind \in Kinds
         /\ StatusOf[page.kind] \subseteq AnyStatus /\ status \in AnyStatus \cup {NoStatus}
         /\ Operations[page.kind] \subseteq UNION {Operations[k] : k \in DOMAIN Operations}
<1>1. PageFits(page) /\ page.kind \in Kinds
  BY PagesFit DEF Typed, TypeOK, PageFits
<1> QED
  BY <1>1, KindsOf DEF Typed, TypeOK

LEMMA ReadByTyped ==
  ASSUME Typed, NEW n \in 1 .. MaxLoads, ReadBy(n)
  PROVE  load' \in [1 .. MaxLoads -> Load]
<1>1. load \in [1 .. MaxLoads -> Load] /\ rev \in Nat
  BY DEF Typed, TypeOK
<1>2. load[n].query \in Query
  BY <1>1 DEF Load
<1>3. load[n].query.word \in Words
  BY <1>2 DEF Query
<1>4. Taken(load[n].query) \in Query
  BY <1>2, <1>3, QueryKeeps, PagesAssumption DEF Taken
<1>5. PICK row \in {status, NoStatus} :
        load' = [load EXCEPT ![n].state = "read", ![n].row = row, ![n].rev = rev,
                             ![n].query = Taken(load[n].query)]
  BY DEF ReadBy
<1>6. row \in AnyStatus \cup {NoStatus}
  BY PageFacts
<1>7. \A m \in 1 .. MaxLoads : load'[m] \in Load
  BY <1>1, <1>4, <1>5, <1>6 DEF Load
<1> QED
  BY <1>1, <1>5, <1>7

LEMMA SendTyped ==
  ASSUME Typed, NEW c \in Calls, NEW op \in Operations[page.kind],
         NEW target \in AnyStatus \cup {NoStatus, Unfit, "refunded"}, Send(c, op, target),
         UNCHANGED <<page, supplierRef, open, server, filters, list>>
  PROVE  Typed'
<1>1. op \in UNION {Operations[k] : k \in DOMAIN Operations}
  BY PageFacts
<1>2. shown.rev \in Nat
  BY DEF Typed, TypeOK, Answer
<1>3. [Idle EXCEPT !.state = "sent", !.op = op, !.target = target, !.seen = shown.rev] \in Call
  BY <1>1, <1>2 DEF Idle, Call
<1>4. call' \in [Calls -> Call] /\ \A d \in Calls : d # c => call'[d] = call[d]
  BY <1>3 DEF Send, Typed, TypeOK
<1>5. call'[c].state = "sent" /\ call'[c].op = op /\ call'[c].target = target
  BY DEF Send, Typed, TypeOK, Idle
<1>6. CallInv'
  BY <1>4, <1>5 DEF Typed, CallInv
<1> QED
  BY <1>4, <1>6 DEF Typed, TypeOK, server, filters, list

LEMMA CallTyped ==
  ASSUME Typed, NEW c \in Calls, call[c].state # "idle", page' = page,
         NEW st \in {"saving", "saved", "answered", "refused"},
         call' \in [Calls -> Call],
         \A d \in Calls : d # c => call'[d] = call[d],
         call'[c].state = st /\ call'[c].op = call[c].op /\ call'[c].target = call[c].target,
         st = "saving" => call'[c].op \in DOMAIN Handler \ OneWrite
                          /\ call'[c].copy \in DOMAIN Handler[call'[c].op]
  PROVE  CallInv'
  BY DEF Typed, CallInv

LEMMA ClickCases ==
  ASSUME Typed, NEW k \in Clicks, Click(k)
  PROVE  /\ UNCHANGED <<page, supplierRef, open, server, filters, list>>
         /\ \E op \in Operations[page.kind], target \in AnyStatus \cup {NoStatus, Unfit, "refunded"} :
              /\ Offered(op) /\ Send(k, op, target)
              /\ op = "update" => target \in Choices[page.kind]
<1>1. PICK op \in Operations[page.kind] :
        /\ Offered(op)
        /\ IF op = "update"
           THEN \E target \in Choices[page.kind] \ {shown.row} : Send(k, op, target)
           ELSE Send(k, op, NoStatus)
  BY DEF Click
<1>2. CASE op # "update"
  BY <1>1, <1>2 DEF Click
<1>3. CASE op = "update"
  <2>1. PICK target \in Choices[page.kind] : Send(k, op, target)
    BY <1>1, <1>3
  <2>2. page.kind \in Updated
    BY <1>1, <1>3, PageFacts DEF Offered, PageFits, OffersUpdate
  <2>3. \A t \in Choices[page.kind] : t \in StatusOf[page.kind] \cup {Unfit, "refunded"}
    BY <2>2, PageFacts, DtosFit
  <2>4. target \in AnyStatus \cup {NoStatus, Unfit, "refunded"}
    BY <2>1, <2>3, PageFacts
  <2> QED
    BY <1>1, <1>3, <2>1, <2>4 DEF Click
<1> QED
  BY <1>2, <1>3

LEMMA ElsewhereCases ==
  ASSUME Typed, NEW o \in Others, Elsewhere(o)
  PROVE  /\ UNCHANGED <<page, supplierRef, open, server, filters, list>>
         /\ \E op \in Operations[page.kind], target \in AnyStatus \cup {NoStatus, Unfit, "refunded"} :
              Send(o, op, target)
<1>1. PICK op \in Operations[page.kind] :
        IF op = "update"
        THEN \E target \in Dto[page.kind] : Send(o, op, target)
        ELSE Send(o, op, NoStatus)
  BY DEF Elsewhere
<1>2. op = "update" => Dto[page.kind] \subseteq AnyStatus
  BY PageFacts, DtosFit
<1> QED
  BY <1>1, <1>2 DEF Elsewhere

(* What the calls of the page do when their answer arrives.                *)
LEMMA AnsweredCases ==
  ASSUME Typed, NEW k \in Clicks, Answered(k)
  PROVE  /\ UNCHANGED <<page, supplierRef, open, server, query, filtering, typing, emitted>> /\ LoadNow
         /\ call[k].state = "saved" /\ ~page.removes
         /\ call' = [call EXCEPT ![k].state = "answered", ![k].reload = issued']
  BY DEF Answered, LoadNow

(* A step of one call gives a call.                                        *)
LEMMA CallKeeps ==
  ASSUME call \in [Calls -> Call], NEW c \in Calls,
         NEW st \in {"saving", "saved", "answered", "refused"}, NEW n \in Nat,
         NEW s \in AnyStatus \cup {NoStatus},
         \/ call' = [call EXCEPT ![c].state = st]
         \/ call' = [call EXCEPT ![c].state = st, ![c].copy = s]
         \/ call' = [call EXCEPT ![c].state = st, ![c].rev = n]
         \/ call' = [call EXCEPT ![c].state = st, ![c].reload = n]
  PROVE  call' \in [Calls -> Call]
<1>1. \A d \in Calls : d # c => call'[d] = call[d]
  OBVIOUS
<1>2. call'[c] \in Call
  <2>1. call[c] \in Call
    OBVIOUS
  <2>2. CASE call' = [call EXCEPT ![c].state = st]
    BY <2>1, <2>2 DEF Call
  <2>3. CASE call' = [call EXCEPT ![c].state = st, ![c].copy = s]
    BY <2>1, <2>3 DEF Call
  <2>4. CASE call' = [call EXCEPT ![c].state = st, ![c].rev = n]
    BY <2>1, <2>4 DEF Call
  <2>5. CASE call' = [call EXCEPT ![c].state = st, ![c].reload = n]
    BY <2>1, <2>5 DEF Call
  <2> QED
    BY <2>2, <2>3, <2>4, <2>5
<1>3. \E f : call' = [d \in Calls |-> f[d]]
  <2>1. call' = [d \in Calls |-> call'[d]]
    OBVIOUS
  <2> QED
    BY <2>1
<1> QED
  BY <1>1, <1>2, <1>3

LEMMA TypedNext == Typed /\ [Next]_vars => Typed'
<1> SUFFICES ASSUME Typed, [Next]_vars PROVE Typed'
  OBVIOUS
<1>1. ASSUME NEW n \in 1 .. MaxLoads, ReadBy(n) \/ LoadAnswered(n) \/ LoadFails(n) PROVE Typed'
  <2>1. UNCHANGED <<page, supplierRef, server, filters, issued, call>>
    BY <1>1 DEF ReadBy, LoadAnswered, LoadFails
  <2>2. load' \in [1 .. MaxLoads -> Load]
    <3>1. CASE ReadBy(n)
      BY <3>1, ReadByTyped
    <3>2. NoLoad \in Load
      BY PagesAssumption DEF NoLoad, Load, NoQuery, Query
    <3>3. CASE LoadAnswered(n) \/ LoadFails(n)
      BY <3>2, <3>3 DEF LoadAnswered, LoadFails, Typed, TypeOK
    <3> QED
      BY <1>1, <3>1, <3>3
  <2>3. shown' \in Answer
    <3>1. load[n] \in Load /\ shown \in Answer
      BY DEF Typed, TypeOK
    <3>2. [n |-> n, query |-> load[n].query, row |-> load[n].row, rev |-> load[n].rev] \in Answer
      BY <3>1 DEF Load, Answer
    <3> QED
      BY <1>1, <3>1, <3>2 DEF ReadBy, LoadAnswered, LoadFails
  <2>4. open' \in BOOLEAN /\ loading' \in BOOLEAN
    BY <1>1 DEF ReadBy, LoadAnswered, LoadFails, Typed, TypeOK
  <2>5. CallInv'
    BY <2>1 DEF Typed, CallInv
  <2> QED
    BY <2>1, <2>2, <2>3, <2>4, <2>5 DEF Typed, TypeOK, server, filters
<1>2. CASE Filters
  <2>1. CallInv'
    BY <1>2, FiltersTyped DEF Typed, CallInv
  <2> QED
    BY <1>2, <2>1, FiltersTyped, LoadNowTyped DEF Typed, TypeOK, server, list
<1>3. ASSUME NEW k \in Clicks, Click(k) PROVE Typed'
  BY <1>3, ClickCases, SendTyped DEF Calls
<1>4. ASSUME NEW o \in Others, Elsewhere(o) PROVE Typed'
  BY <1>4, ElsewhereCases, SendTyped DEF Calls
<1>5. ASSUME NEW k \in Clicks, Answered(k) PROVE Typed'
  <2> USE DEF Calls
  <2>0. /\ UNCHANGED <<page, supplierRef, open, server, query, filtering, typing, emitted>> /\ LoadNow
        /\ call[k].state = "saved"
        /\ call' = [call EXCEPT ![k].state = "answered", ![k].reload = issued']
    BY <1>5, AnsweredCases
  <2>1. issued' \in Nat /\ query' \in Query
    BY <2>0, PagesAssumption DEF LoadNow, Typed, TypeOK
  <2>2. call' \in [Calls -> Call]
    BY <2>0, <2>1, CallKeeps DEF Typed, TypeOK
  <2>3. CallInv'
    BY <2>0, <2>2, CallTyped DEF Typed, TypeOK
  <2> QED
    BY <2>0, <2>1, <2>2, <2>3, LoadNowTyped DEF Typed, TypeOK, server
<1>6. ASSUME NEW k \in Clicks, RowRemoved(k) PROVE Typed'
  <2> USE DEF Calls
  <2>0. /\ UNCHANGED <<page, supplierRef, open, server, filters, issued, load, loading>>
        /\ call[k].state = "saved"
        /\ call' = [call EXCEPT ![k].state = "answered", ![k].reload = issued]
    BY <1>6 DEF RowRemoved
  <2>1. shown' \in Answer
    BY <1>6 DEF RowRemoved, Typed, TypeOK, Answer, Call
  <2>2. call' \in [Calls -> Call]
    <3>1. issued \in Nat
      BY PagesAssumption DEF Typed, TypeOK
    <3> QED
      BY <2>0, <3>1, CallKeeps DEF Typed, TypeOK
  <2>3. CallInv'
    BY <2>0, <2>2, CallTyped DEF Typed, TypeOK
  <2> QED
    BY <2>0, <2>1, <2>2, <2>3 DEF Typed, TypeOK, server, filters
<1>7. ASSUME NEW c \in Calls, Serve(c) PROVE Typed'
  <2>0. UNCHANGED <<page, supplierRef, open, filters, list>>
    BY <1>7, ServeCases
  <2>1. CASE ServeWrites(c)
    <3>1. PICK to \in StatusOf[page.kind] \cup {NoStatus} : Write(c, to)
      BY <2>1 DEF ServeWrites
    <3>2. status' \in StatusOf[page.kind] \cup {NoStatus} /\ rev' \in Nat
      BY <3>1 DEF Write, Typed, TypeOK
    <3>3. call' \in [Calls -> Call]
      BY <3>1, <3>2, CallKeeps DEF Write, Typed, TypeOK
    <3>4. CallInv'
      BY <2>0, <2>1, <3>1, <3>3, CallTyped DEF ServeWrites, Write, Typed, TypeOK
    <3> QED
      BY <2>0, <3>2, <3>3, <3>4 DEF Typed, TypeOK, filters, list
  <2>2. CASE ServeReads(c)
    <3>1. call' \in [Calls -> Call]
      BY <2>2, PageFacts, CallKeeps DEF ServeReads, Typed, TypeOK
    <3>2. CallInv'
      BY <2>0, <2>2, <3>1, CallTyped DEF ServeReads, Typed, TypeOK
    <3> QED
      BY <2>0, <2>2, <3>1, <3>2 DEF ServeReads, Typed, TypeOK, filters, list, server
  <2>3. CASE ServeEnds(c)
    <3>1. call' \in [Calls -> Call]
      BY <2>3, CallKeeps DEF ServeEnds, Typed, TypeOK
    <3>2. CallInv'
      BY <2>0, <2>3, <3>1, CallTyped DEF ServeEnds, Typed, TypeOK
    <3> QED
      BY <2>0, <2>3, <3>1, <3>2 DEF ServeEnds, Typed, TypeOK, filters, list, server
  <2> QED
    BY <1>7, <2>1, <2>2, <2>3, ServeCases
<1>8. CASE UNCHANGED vars
  BY <1>8 DEF vars, server, filters, list, Typed, TypeOK, CallInv
<1> QED
  BY <1>1, <1>2, <1>3, <1>4, <1>5, <1>6, <1>7, <1>8 DEF Next, Loads

LEMMA TypedLemma == Spec => []Typed
  BY TypedInit, TypedNext, PTL DEF Spec

(* Every variable keeps to its type: whatever calls overlap on whatever    *)
(* page, the status of a document is one its schema lists, or it is gone;  *)
(* that of a ticket may be any text, as an administrator's update stores   *)
(* what it is given.                                                       *)
THEOREM TypeCorrect == Spec => []TypeOK
  BY TypedLemma, PTL DEF Typed

-----------------------------------------------------------------------------
(* Revisions: whatever was read, or offered, is of a revision there was,   *)
(* and what was read at the present one is what there is, or is not listed.*)
RevInv ==
  /\ shown.rev <= rev /\ (shown.rev = rev => shown.row \in {status, NoStatus})
  /\ \A n \in 1 .. MaxLoads :
       load[n].state = "read" =>
         load[n].rev <= rev /\ (load[n].rev = rev => load[n].row \in {status, NoStatus})
  /\ \A c \in Calls : call[c].seen <= rev /\ call[c].rev <= rev

(* What OfferedIsAllowed says of a call, of the page, the document and what *)
(* is asked for.                                                            *)
Allowed(p, ref, s, op, target) ==
  \/ IF op = "update"
     THEN target \in Dto[p.kind] /\ (s = NoStatus => p.kind = "config")
     ELSE s \in DOMAIN Handler[op] /\ (op = "cancel" => ref)
  \/ op = "cancel" /\ ~ref
  \/ p.kind = "booking" /\ target = "refunded"
  \/ p.kind \in {"banner", "config"} /\ target = Unfit

AllowedInv ==
  \A k \in Clicks :
    call[k].state = "sent" /\ call[k].seen = rev =>
      Allowed(page, supplierRef, status, call[k].op, call[k].target)

AcceptInv == RevInv /\ AllowedInv

LEMMA Ranges ==
  ASSUME Typed
  PROVE  /\ rev \in Nat /\ shown.rev \in Nat /\ shown.row \in AnyStatus \cup {NoStatus}
         /\ shown.n \in Nat /\ issued \in 1 .. MaxLoads /\ issued \in Nat
         /\ \A n \in 1 .. MaxLoads : load[n].rev \in Nat
         /\ \A c \in Calls : call[c].rev \in Nat /\ call[c].seen \in Nat /\ call[c].reload \in Nat
  BY PagesAssumption DEF Typed, TypeOK, Answer, Load, Call

LEMMA CallSame ==
  ASSUME Typed, NEW c \in Calls, NEW st \in {"saving", "answered", "refused"}, NEW x,
         \/ call' = [call EXCEPT ![c].state = st]
         \/ call' = [call EXCEPT ![c].state = st, ![c].copy = x]
         \/ call' = [call EXCEPT ![c].state = st, ![c].reload = x]
  PROVE  \A d \in Calls : /\ call'[d].seen = call[d].seen /\ call'[d].rev = call[d].rev
                          /\ call'[d].state = "sent" => call'[d] = call[d]
<1>1. call \in [Calls -> Call]
  BY DEF Typed, TypeOK
<1>2. call[c] \in Call
  BY <1>1
<1>3. \A d \in Calls : d # c => call'[d] = call[d]
  BY <1>1
<1>4. call'[c].seen = call[c].seen /\ call'[c].rev = call[c].rev /\ call'[c].state = st
  BY <1>1, <1>2 DEF Call
<1> QED
  BY <1>3, <1>4

(* Neither the page nor its document changes for another.                 *)
PageKept == page' = page /\ supplierRef' = supplierRef

LEMMA PageStays == Typed /\ [Next]_vars => PageKept
<1> SUFFICES ASSUME Typed, [Next]_vars PROVE PageKept
  OBVIOUS
<1> USE DEF PageKept
<1>1. Loads => PageKept
  BY DEF Loads, ReadBy, LoadAnswered, LoadFails
<1>2. ASSUME NEW k \in Clicks, Click(k) \/ Answered(k) \/ RowRemoved(k) PROVE PageKept
  BY <1>2 DEF Click, Answered, RowRemoved
<1>3. ASSUME NEW o \in Others, Elsewhere(o) PROVE PageKept
  BY <1>3 DEF Elsewhere
<1>4. UNCHANGED vars => PageKept
  BY DEF vars
<1> QED
  BY <1>1, <1>2, <1>3, <1>4, FiltersTyped, ServeCases DEF Next

LEMMA AcceptNext == Typed /\ AcceptInv /\ [Next]_vars => AcceptInv'
<1> SUFFICES ASSUME Typed, AcceptInv, [Next]_vars PROVE AcceptInv'
  OBVIOUS
<1> USE DEF AcceptInv, RevInv, AllowedInv, Calls
<1>s. page' = page /\ supplierRef' = supplierRef
  BY PageStays DEF PageKept
<1>0. load \in [1 .. MaxLoads -> Load] /\ call \in [Calls -> Call]
  BY DEF Typed, TypeOK
(* A step that only loads, or that ends a call.                            *)
<1>a. ASSUME UNCHANGED server,
             shown'.rev = shown.rev /\ shown'.row \in {shown.row, NoStatus},
             \A n \in 1 .. MaxLoads : load'[n].state = "read" => load'[n] = load[n],
             \A c \in Calls : /\ call'[c].seen = call[c].seen /\ call'[c].rev = call[c].rev
                              /\ call'[c].state = "sent" => call'[c] = call[c]
      PROVE  AcceptInv'
  BY <1>a, <1>s, Ranges DEF server
<1>1. ASSUME NEW n \in 1 .. MaxLoads, ReadBy(n) PROVE AcceptInv'
  <2>1. UNCHANGED <<server, shown, call>>
    BY <1>1 DEF ReadBy
  <2>2. \A m \in 1 .. MaxLoads : m # n => load'[m] = load[m]
    BY <1>1, <1>0 DEF ReadBy
  <2>3. load'[n].rev = rev /\ load'[n].row \in {status, NoStatus}
    BY <1>1, <1>0 DEF ReadBy, Load
  <2> QED
    BY <1>s, <2>1, <2>2, <2>3, Ranges DEF server
<1>2. ASSUME NEW n \in 1 .. MaxLoads, LoadAnswered(n) PROVE AcceptInv'
  <2>1. UNCHANGED <<server, call>> /\ load[n].state = "read"
        /\ shown'.rev = load[n].rev /\ shown'.row = load[n].row
    BY <1>2 DEF LoadAnswered
  <2>2. \A m \in 1 .. MaxLoads : load'[m].state = "read" => load'[m] = load[m]
    BY <1>2, <1>0 DEF LoadAnswered, NoLoad
  <2> QED
    BY <1>s, <2>1, <2>2, Ranges DEF server
<1>3. ASSUME NEW n \in 1 .. MaxLoads, LoadFails(n) PROVE AcceptInv'
  <2>1. \A m \in 1 .. MaxLoads : load'[m].state = "read" => load'[m] = load[m]
    BY <1>3, <1>0 DEF LoadFails, NoLoad
  <2> QED
    BY <1>3, <1>a, <2>1 DEF LoadFails
<1>b. ASSUME LoadNow PROVE \A m \in 1 .. MaxLoads : load'[m].state = "read" => load'[m] = load[m]
  BY <1>b, <1>0, Ranges DEF LoadNow, LoadOf, NoLoad
<1>4. CASE Filters
  BY <1>4, <1>a, <1>b, FiltersTyped DEF list
<1>5. ASSUME NEW c \in Calls, NEW op \in Operations[page.kind], NEW target,
             c \in Clicks /\ shown.rev = rev => Allowed(page, supplierRef, status, op, target),
             Send(c, op, target), UNCHANGED <<server, list>>
      PROVE  AcceptInv'
  <2>1. \A d \in Calls : d # c => call'[d] = call[d]
    BY <1>5, <1>0 DEF Send
  <2>2. /\ call'[c].seen = shown.rev /\ call'[c].rev = 0
        /\ call'[c].op = op /\ call'[c].target = target
    BY <1>5, <1>0 DEF Send, Idle
  <2> QED
    BY <1>5, <1>s, <2>1, <2>2, Ranges DEF server, list
<1>6. ASSUME NEW k \in Clicks, Click(k) PROVE AcceptInv'
  <2>1. PICK op \in Operations[page.kind], target \in AnyStatus \cup {NoStatus, Unfit, "refunded"} :
          Offered(op) /\ Send(k, op, target) /\ (op = "update" => target \in Choices[page.kind])
    BY <1>6, ClickCases
  <2>2. UNCHANGED <<server, list>>
    BY <1>6, ClickCases
  <2>3. page.kind \in Kinds /\ PageFits(page) /\ <<shown.row, op>> \in page.offers
    BY <2>1, PageFacts DEF Offered
  <2>4. ASSUME shown.rev = rev PROVE Allowed(page, supplierRef, status, op, target)
    <3>1. shown.row \in {status, NoStatus}
      BY <2>4
    <3>2. CASE op = "update"
      <4>1. page.kind \in Updated /\ (shown.row = NoStatus => page.kind = "config")
        BY <2>3, <3>2 DEF PageFits, OffersUpdate
      <4>2. target \in Choices[page.kind]
        BY <2>1, <3>2
      <4>3. \/ target \in Dto[page.kind]
            \/ page.kind = "booking" /\ target = "refunded"
            \/ page.kind \in {"banner", "config"} /\ target = Unfit
        BY <2>3, <4>1, <4>2, DtosFit
      <4> QED
        BY <3>1, <3>2, <4>1, <4>3 DEF Allowed
    <3>3. CASE op # "update"
      <4>1. op \in DOMAIN Handler
        BY <2>3, <3>3, HandlersFit DEF Fits
      <4>2. shown.row # NoStatus /\ shown.row \in DOMAIN Handler[op]
        BY <2>3, <4>1, Ranges DEF PageFits, Offers
      <4> QED
        BY <3>1, <3>3, <4>2 DEF Allowed
    <3> QED
      BY <3>2, <3>3
  <2> QED
    BY <1>5, <2>1, <2>2, <2>4
<1>7. ASSUME NEW o \in Others, Elsewhere(o) PROVE AcceptInv'
  <2>1. PICK op \in Operations[page.kind], target \in AnyStatus \cup {NoStatus, Unfit, "refunded"} :
          Send(o, op, target)
    BY <1>7, ElsewhereCases
  <2>2. o \notin Clicks
    BY PagesAssumption
  <2>3. UNCHANGED <<server, list>>
    BY <1>7, ElsewhereCases
  <2> QED
    BY <1>5, <2>1, <2>2, <2>3
<1>8. ASSUME NEW k \in Clicks, Answered(k) PROVE AcceptInv'
  <2>1. \A c \in Calls : /\ call'[c].seen = call[c].seen /\ call'[c].rev = call[c].rev
                         /\ call'[c].state = "sent" => call'[c] = call[c]
    <3>1. call' = [call EXCEPT ![k].state = "answered", ![k].reload = issued']
      BY <1>8, AnsweredCases
    <3> QED
      BY <3>1, CallSame
  <2> QED
    BY <1>8, <1>a, <1>b, <2>1, AnsweredCases DEF LoadNow
<1>9. ASSUME NEW k \in Clicks, RowRemoved(k) PROVE AcceptInv'
  <2>1. UNCHANGED <<server, load>> /\ shown'.row = NoStatus /\ shown'.rev \in {shown.rev, call[k].rev}
    BY <1>9 DEF RowRemoved, Typed, TypeOK, Answer
  <2>2. \A c \in Calls : /\ call'[c].seen = call[c].seen /\ call'[c].rev = call[c].rev
                         /\ call'[c].state = "sent" => call'[c] = call[c]
    BY <1>9, <1>0 DEF RowRemoved, Call
  <2> QED
    BY <1>s, <2>1, <2>2, Ranges DEF server
<1>10. ASSUME NEW c \in Calls, Serve(c) PROVE AcceptInv'
  <2>0. UNCHANGED <<page, supplierRef, list>>
    BY <1>10, ServeCases
  <2>1. CASE ServeWrites(c)
    <3>1. PICK to : Write(c, to)
      BY <2>1 DEF ServeWrites
    <3>2. rev' \in Nat /\ rev <= rev' /\ (rev' = rev => status' = status)
      BY <3>1, Ranges DEF Write
    <3>3. \A d \in Calls : d # c => call'[d] = call[d]
      BY <3>1, <1>0 DEF Write
    <3>4. call'[c].rev = rev' /\ call'[c].seen = call[c].seen /\ call'[c].state = "saved"
      BY <3>1, <1>0 DEF Write, Call
    <3> QED
      BY <1>s, <2>0, <3>2, <3>3, <3>4, Ranges DEF list
  <2>2. CASE ServeReads(c) \/ ServeEnds(c)
    <3>1. \A d \in Calls : /\ call'[d].seen = call[d].seen /\ call'[d].rev = call[d].rev
                           /\ call'[d].state = "sent" => call'[d] = call[d]
      BY <2>2, CallSame DEF ServeReads, ServeEnds
    <3>2. UNCHANGED server
      BY <2>2 DEF ServeReads, ServeEnds
    <3> QED
      BY <1>a, <2>0, <3>1, <3>2 DEF list
  <2> QED
    BY <1>10, <2>1, <2>2, ServeCases
<1>11. CASE UNCHANGED vars
  BY <1>11, <1>a DEF vars, list
<1> QED
  BY <1>1, <1>2, <1>3, <1>4, <1>6, <1>7, <1>8, <1>9, <1>10, <1>11 DEF Next, Loads

LEMMA AcceptLemma == Spec => []AcceptInv
<1>1. Init => AcceptInv
  <2> SUFFICES ASSUME Init PROVE AcceptInv
    OBVIOUS
  <2>1. \A n \in 1 .. MaxLoads : load[n].state # "read"
    BY DEF Init, NoLoad, LoadOf
  <2>2. \A c \in Calls : call[c].state = "idle" /\ call[c].seen = 0 /\ call[c].rev = 0
    BY DEF Init, Idle
  <2>3. shown.rev = 0 /\ shown.row = NoStatus /\ rev = 0
    BY DEF Init, NoAnswer
  <2> QED
    BY <2>1, <2>2, <2>3 DEF AcceptInv, RevInv, AllowedInv, Calls
<1> QED
  BY <1>1, TypedInit, TypedNext, AcceptNext, PTL DEF Spec

(* Whatever answers come in what order, a call that was offered is          *)
(* accepted unless the document has changed since the page read it, but for *)
(* a cancel without the supplier's reference, the status "refunded", and a  *)
(* form with an empty date or a markup below zero.                          *)
THEOREM OfferedIsAllowedAlways == Spec => []OfferedIsAllowed
<1>1. AcceptInv => OfferedIsAllowed
  BY DEF AcceptInv, AllowedInv, Allowed, OfferedIsAllowed, Accepts
<1> QED
  BY <1>1, AcceptLemma, PTL

-----------------------------------------------------------------------------
(* The newest load: until it fails it asks for, or has answered, what the  *)
(* filters were set to when nothing waits.                                 *)
Newest == [query EXCEPT !.word = asked]

QueryInv ==
  /\ shown.n <= issued
  /\ \A n \in 1 .. MaxLoads : n > issued => load[n].state = "none"
  /\ ~filtering =>
       /\ load[issued].state = "sent" => load[issued].query = Newest
       /\ load[issued].state = "read" => load[issued].query = Taken(Newest)
       /\ shown.n = issued => shown.query = Taken(Newest)

LEMMA LoadNowNewest ==
  ASSUME Typed, QueryInv, query' \in Query, LoadNow
  PROVE  QueryInv'
<1>1. issued' = issued + 1 /\ issued + 1 \in 1 .. MaxLoads /\ shown' = shown
  BY Ranges, PagesAssumption DEF LoadNow
<1>2. load' = [load EXCEPT ![issued + 1] = LoadOf(query')] /\ load \in [1 .. MaxLoads -> Load]
  BY DEF LoadNow, Typed, TypeOK
<1>3. load'[issued + 1].state = "sent" /\ load'[issued + 1].query = query'
  BY <1>1, <1>2 DEF LoadOf, NoLoad
<1>4. \A n \in 1 .. MaxLoads : n > issued + 1 => load'[n].state = "none"
  BY <1>1, <1>2, Ranges DEF QueryInv
<1>5. Newest' = query'
  BY DEF Newest, LoadNow, Query
<1>6. shown.n < issued + 1
  BY Ranges DEF QueryInv
<1> QED
  BY <1>1, <1>3, <1>4, <1>5, <1>6, Ranges DEF QueryInv

LEMMA FiltersNewest ==
  ASSUME Typed, QueryInv, Filters
  PROVE  QueryInv'
<1>1. CASE LoadNow
  BY <1>1, FiltersTyped, LoadNowNewest
<1>2. CASE ~LoadNow
  <2>1. UNCHANGED <<asked, list, page>>
    BY <1>2, FiltersTyped
  <2>2. query \in Query /\ asked \in Words
    BY DEF Typed, TypeOK
  <2>3. ~filtering' => ~filtering /\ Newest' = Newest
    <3>1. ASSUME NEW tab, Filter(tab) PROVE filtering'
      BY <3>1 DEF Filter
    <3>2. ASSUME NEW word, Type(word) PROVE filtering' = filtering /\ Newest' = Newest
      <4>1. query' = [query EXCEPT !.word = word] /\ asked' = asked
        BY <3>2 DEF Type
      <4>2. [query' EXCEPT !.word = asked] = [query EXCEPT !.word = asked]
        BY <2>2, <4>1 DEF Query
      <4> QED
        BY <3>2, <4>1, <4>2 DEF Type, Newest
    <3>3. searchControl => UNCHANGED <<query, filtering, asked>>
      BY <1>2 DEF searchControl
    <3> QED
      BY <1>2, <3>1, <3>2, <3>3
         DEF Filters, onTabChange, onPage, onSearch, filterForm, loadReport, Newest
  <2> QED
    BY <2>1, <2>3 DEF QueryInv, list, Taken
<1> QED
  BY <1>1, <1>2

LEMMA QueryNext == Typed /\ QueryInv /\ [Next]_vars => QueryInv'
<1> SUFFICES ASSUME Typed, QueryInv, [Next]_vars PROVE QueryInv'
  OBVIOUS
<1>0. load \in [1 .. MaxLoads -> Load]
  BY DEF Typed, TypeOK
<1>a. ASSUME UNCHANGED <<page, supplierRef, filters, issued>>,
             shown'.n = shown.n, shown'.query = shown.query,
             \A n \in 1 .. MaxLoads : load'[n] = load[n] \/ load'[n].state = "none"
      PROVE  QueryInv'
  BY <1>a, Ranges DEF QueryInv, filters, Newest, Taken
<1>1. ASSUME NEW n \in 1 .. MaxLoads, ReadBy(n) PROVE QueryInv'
  <2>1. UNCHANGED <<page, supplierRef, filters, issued, shown>> /\ load[n].state = "sent"
    BY <1>1 DEF ReadBy
  <2>2. \A m \in 1 .. MaxLoads : m # n => load'[m] = load[m]
    BY <1>1, <1>0 DEF ReadBy
  <2>3. load'[n].state = "read" /\ load'[n].query = Taken(load[n].query)
    BY <1>1, <1>0 DEF ReadBy, Load
  <2>4. Newest' = Newest /\ Taken(Newest)' = Taken(Newest) /\ filtering' = filtering
    BY <2>1 DEF filters, Newest, Taken
  <2>5. \A m \in 1 .. MaxLoads : m > issued => m # n
    BY <2>1 DEF QueryInv
  <2>6. CASE n = issued
    BY <2>1, <2>2, <2>3, <2>4, <2>5, <2>6, Ranges DEF QueryInv
  <2>7. CASE n # issued
    BY <2>1, <2>2, <2>4, <2>5, <2>7, Ranges DEF QueryInv
  <2> QED
    BY <2>6, <2>7
<1>2. ASSUME NEW n \in 1 .. MaxLoads, LoadAnswered(n) PROVE QueryInv'
  <2>1. UNCHANGED <<page, supplierRef, filters, issued>> /\ load[n].state = "read"
        /\ shown'.n = n /\ shown'.query = load[n].query
    BY <1>2 DEF LoadAnswered
  <2>2. \A m \in 1 .. MaxLoads : load'[m] = load[m] \/ load'[m].state = "none"
    BY <1>2, <1>0 DEF LoadAnswered, NoLoad
  <2>3. n <= issued
    BY <2>1, Ranges DEF QueryInv
  <2> QED
    BY <2>1, <2>2, <2>3, Ranges DEF QueryInv, filters, Newest, Taken
<1>3. ASSUME NEW n \in 1 .. MaxLoads, LoadFails(n) PROVE QueryInv'
  <2>1. \A m \in 1 .. MaxLoads : load'[m] = load[m] \/ load'[m].state = "none"
    BY <1>3, <1>0 DEF LoadFails, NoLoad
  <2> QED
    BY <1>3, <1>a, <2>1 DEF LoadFails
<1>4. CASE Filters
  BY <1>4, FiltersNewest
<1>5. ASSUME NEW k \in Clicks, Answered(k) PROVE QueryInv'
  <2>1. UNCHANGED query /\ LoadNow
    BY <1>5, AnsweredCases
  <2> QED
    BY <2>1, LoadNowNewest DEF Typed, TypeOK
<1>6. ASSUME NEW k \in Clicks, RowRemoved(k) PROVE QueryInv'
  <2>1. /\ UNCHANGED <<page, supplierRef, filters, issued, load>>
        /\ shown'.n = shown.n /\ shown'.query = shown.query
    BY <1>6 DEF RowRemoved, Typed, TypeOK, Answer
  <2> QED
    BY <1>a, <2>1
<1>7. ASSUME UNCHANGED <<page, supplierRef, filters, list>> PROVE QueryInv'
  BY <1>7, <1>a DEF list
<1>8. ASSUME NEW k \in Clicks, Click(k) PROVE UNCHANGED <<page, supplierRef, filters, list>>
  BY <1>8, ClickCases
<1>9. ASSUME NEW o \in Others, Elsewhere(o) PROVE UNCHANGED <<page, supplierRef, filters, list>>
  BY <1>9, ElsewhereCases
<1>10. ASSUME NEW c \in Calls, Serve(c) PROVE UNCHANGED <<page, supplierRef, filters, list>>
  BY <1>10, ServeCases
<1>11. UNCHANGED vars => UNCHANGED <<page, supplierRef, filters, list>>
  BY DEF vars
<1> QED
  BY <1>1, <1>2, <1>3, <1>4, <1>5, <1>6, <1>7, <1>8, <1>9, <1>10, <1>11 DEF Next, Loads

LEMMA QueryLemma == Spec => []QueryInv
<1>1. Init => QueryInv
  <2> SUFFICES ASSUME Init PROVE QueryInv
    OBVIOUS
  <2>1. query = FirstQuery /\ asked = NoWord /\ issued = 1 /\ shown.n = 0
    BY DEF Init, NoAnswer
  <2>2. Newest = query
    <3>1. query \in Query
      BY TypedInit DEF Typed, TypeOK
    <3>2. query.word = asked
      BY <2>1 DEF FirstQuery, NoQuery
    <3> QED
      BY <3>1, <3>2 DEF Newest, Query
  <2>3. load[1] = LoadOf(query) /\ \A n \in 1 .. MaxLoads : n > 1 => load[n].state = "none"
    BY PagesAssumption DEF Init, NoLoad
  <2>4. load[1].state = "sent" /\ load[1].query = query
    BY <2>3 DEF LoadOf, NoLoad
  <2> QED
    BY <2>1, <2>2, <2>3, <2>4 DEF QueryInv
<1> QED
  BY <1>1, TypedInit, TypedNext, QueryNext, PTL DEF Spec

(* However filters and answers interleave, when the answer to the newest   *)
(* load came last the list is the one the filters ask for, but for the     *)
(* text that distinctUntilChanged swallowed.                               *)
THEOREM ListShowsQueryAlways == Spec => []ListShowsQuery
<1>1. Typed /\ QueryInv => ListShowsQuery
  <2> SUFFICES ASSUME Typed, QueryInv, asked = query.word PROVE Newest = query
    BY DEF QueryInv, ListShowsQuery
  <2> QED
    BY DEF Newest, Typed, TypeOK, Query
<1> QED
  BY <1>1, TypedLemma, QueryLemma, PTL

-----------------------------------------------------------------------------
(* A page that takes rows away has one load, and offers nothing before it  *)
(* was answered.                                                           *)
RemovesInv ==
  page.removes =>
    /\ issued = 1 /\ ~typing
    /\ loading => \A k \in Clicks : call[k].state = "idle"
    /\ ~loading => load[1].state = "none"

(* What the loads since the one that followed a call have read.            *)
OwnInv ==
  \A k \in Clicks : call[k].state = "answered" =>
    /\ \A n \in 1 .. MaxLoads :
         n >= call[k].reload /\ load[n].state = "read" => load[n].rev >= call[k].rev
    /\ shown.n >= call[k].reload => shown.rev >= call[k].rev

LEMMA FiltersOfRemoves ==
  ASSUME Typed, RemovesInv, Filters, page.removes
  PROVE  FALSE
<1>1. page.filter = "none" /\ page.search = "none" /\ ~typing
  BY PageFacts DEF PageFits, RemovesInv
<1> QED
  BY <1>1
     DEF Filters, onTabChange, Filter, onPage, onSearch, Type, filterForm, loadReport, searchControl

LEMMA RemovesNext == Typed /\ QueryInv /\ RemovesInv /\ [Next]_vars => RemovesInv'
<1> SUFFICES ASSUME Typed, QueryInv, RemovesInv, [Next]_vars, page.removes, page' = page
             PROVE  RemovesInv'
  BY PageStays DEF RemovesInv, PageKept
<1> USE DEF RemovesInv, filters, Calls
<1>0. /\ load \in [1 .. MaxLoads -> Load] /\ call \in [Calls -> Call] /\ 1 \in 1 .. MaxLoads
      /\ Clicks \cap Others = {}
  BY PagesAssumption DEF Typed, TypeOK
<1>a. ASSUME UNCHANGED <<filters, issued, load, loading>>,
             loading => \A k \in Clicks : call'[k] = call[k]
      PROVE  RemovesInv'
  BY <1>a
<1>1. ASSUME NEW n \in 1 .. MaxLoads, ReadBy(n) PROVE RemovesInv'
  <2>1. load[n].state = "sent" /\ UNCHANGED <<filters, issued, loading, call>>
    BY <1>1 DEF ReadBy
  <2>2. load'[1] = load[1] \/ n = 1
    BY <1>1, <1>0 DEF ReadBy
  <2> QED
    BY <2>1, <2>2
<1>2. ASSUME NEW n \in 1 .. MaxLoads, LoadAnswered(n) \/ LoadFails(n) PROVE RemovesInv'
  <2>1. load[n].state # "none"
    BY <1>2 DEF LoadAnswered, LoadFails
  <2>2. n = 1
    BY <2>1, Ranges DEF QueryInv
  <2>3. load' = [load EXCEPT ![n] = NoLoad] /\ loading' = FALSE /\ UNCHANGED <<filters, issued>>
    BY <1>2 DEF LoadAnswered, LoadFails
  <2>4. load'[1].state = "none"
    BY <1>0, <2>2, <2>3 DEF NoLoad
  <2> QED
    BY <2>3, <2>4
<1>3. ASSUME NEW k \in Clicks, Click(k) PROVE RemovesInv'
  BY <1>3, <1>a DEF Click, Offered, list
<1>4. ASSUME NEW k \in Clicks, RowRemoved(k) PROVE RemovesInv'
  BY <1>4, <1>a DEF RowRemoved
<1>5. ASSUME NEW o \in Others, Elsewhere(o) PROVE RemovesInv'
  <2>1. \A k \in Clicks : call'[k] = call[k]
    BY <1>5, <1>0, ElsewhereCases DEF Send
  <2> QED
    BY <1>5, <1>a, <2>1 DEF Elsewhere, list
<1>6. ASSUME NEW c \in Calls, Serve(c) PROVE RemovesInv'
  <2>1. call[c].state # "idle" /\ \A d \in Calls : d # c => call'[d] = call[d]
    BY <1>6, <1>0, ServeCases DEF ServeWrites, ServeReads, ServeEnds, Write
  <2>2. loading => \A k \in Clicks : call'[k] = call[k]
    BY <2>1
  <2> QED
    BY <1>6, <1>a, <2>2, ServeCases DEF list
<1>7. CASE UNCHANGED vars
  BY <1>7, <1>a DEF vars, list
<1> QED
  BY <1>1, <1>2, <1>3, <1>4, <1>5, <1>6, <1>7, FiltersOfRemoves, AnsweredCases DEF Next, Loads

LEMMA OwnNext ==
  Typed /\ RevInv /\ QueryInv /\ RemovesInv /\ OwnInv /\ [Next]_vars => OwnInv'
<1> SUFFICES ASSUME Typed, RevInv, QueryInv, RemovesInv, OwnInv, [Next]_vars PROVE OwnInv'
  OBVIOUS
<1> USE DEF OwnInv, Calls
<1>0. load \in [1 .. MaxLoads -> Load] /\ call \in [Calls -> Call]
  BY DEF Typed, TypeOK
<1>a. ASSUME \A k \in Clicks : call'[k].state = "answered" => call'[k] = call[k],
             \A n \in 1 .. MaxLoads : load'[n].state = "read" => load'[n] = load[n],
             shown'.n = shown.n, shown'.rev \in Nat, shown'.rev >= shown.rev
      PROVE  OwnInv'
  BY <1>a, Ranges
<1>b. ASSUME LoadNow
      PROVE  \A n \in 1 .. MaxLoads : load'[n].state = "read" => load'[n] = load[n] /\ n # issued + 1
  BY <1>b, <1>0, Ranges DEF LoadNow, LoadOf, NoLoad
<1>1. ASSUME NEW n \in 1 .. MaxLoads, ReadBy(n) PROVE OwnInv'
  <2>1. UNCHANGED <<shown, call>>
    BY <1>1 DEF ReadBy
  <2>2. \A m \in 1 .. MaxLoads : m # n => load'[m] = load[m]
    BY <1>1, <1>0 DEF ReadBy
  <2>3. load'[n].rev = rev
    BY <1>1, <1>0 DEF ReadBy, Load
  <2> QED
    BY <2>1, <2>2, <2>3, Ranges DEF RevInv
<1>2. ASSUME NEW n \in 1 .. MaxLoads, LoadAnswered(n) PROVE OwnInv'
  <2>1. UNCHANGED call /\ load[n].state = "read" /\ shown'.n = n /\ shown'.rev = load[n].rev
    BY <1>2 DEF LoadAnswered
  <2>2. \A m \in 1 .. MaxLoads : load'[m].state = "read" => load'[m] = load[m]
    BY <1>2, <1>0 DEF LoadAnswered, NoLoad
  <2> QED
    BY <2>1, <2>2
<1>3. ASSUME NEW n \in 1 .. MaxLoads, LoadFails(n) PROVE OwnInv'
  <2>1. \A m \in 1 .. MaxLoads : load'[m].state = "read" => load'[m] = load[m]
    BY <1>3, <1>0 DEF LoadFails, NoLoad
  <2> QED
    BY <1>3, <1>a, <2>1, Ranges DEF LoadFails
<1>4. CASE Filters
  BY <1>4, <1>a, <1>b, FiltersTyped, Ranges DEF list
<1>5. ASSUME NEW c \in Calls, NEW op, NEW target, Send(c, op, target), UNCHANGED list PROVE OwnInv'
  <2>1. \A d \in Calls : call'[d].state = "answered" => call'[d] = call[d]
    BY <1>5, <1>0 DEF Send, Idle
  <2> QED
    BY <1>5, <1>a, <2>1, Ranges DEF list
<1>6. ASSUME NEW k \in Clicks, Answered(k) PROVE OwnInv'
  <2>1. LoadNow /\ call' = [call EXCEPT ![k].state = "answered", ![k].reload = issued']
    BY <1>6, AnsweredCases
  <2>2. \A d \in Calls : d # k => call'[d] = call[d]
    BY <1>0, <2>1
  <2>3. call'[k].reload = issued + 1 /\ shown' = shown
    BY <1>0, <2>1 DEF LoadNow, Call
  <2>4. shown.n < call'[k].reload
    BY <2>3, Ranges DEF QueryInv
  <2>5. \A n \in 1 .. MaxLoads : load'[n].state = "read" => load'[n] = load[n] /\ n < call'[k].reload
    BY <1>b, <2>1, <2>3, Ranges DEF QueryInv
  <2> QED
    BY <2>2, <2>3, <2>4, <2>5, Ranges
<1>7. ASSUME NEW k \in Clicks, RowRemoved(k) PROVE OwnInv'
  <2>1. /\ UNCHANGED load /\ call[k].state = "saved" /\ page.removes
        /\ call' = [call EXCEPT ![k].state = "answered", ![k].reload = issued]
    BY <1>7 DEF RowRemoved
  <2>2. /\ shown'.n = shown.n
        /\ shown'.rev = IF shown.rev > call[k].rev THEN shown.rev ELSE call[k].rev
    BY <1>7 DEF RowRemoved, Typed, TypeOK, Answer
  <2>3. \A n \in 1 .. MaxLoads : load[n].state = "none"
    BY <2>1, Ranges DEF RemovesInv, QueryInv
  <2>4. \A d \in Calls : d # k => call'[d] = call[d]
    BY <1>0, <2>1
  <2>5. call'[k].rev = call[k].rev /\ call[k].rev \in Nat /\ shown.rev \in Nat
    BY <1>0, <2>1, Ranges DEF Call
  <2>6. shown'.rev >= shown.rev /\ shown'.rev >= call'[k].rev
    BY <2>2, <2>5
  <2>7. ASSUME NEW d \in Clicks, call'[d].state = "answered", shown'.n >= call'[d].reload
        PROVE  shown'.rev >= call'[d].rev
    <3>1. CASE d = k
      BY <2>6, <3>1
    <3>2. CASE d # k
      BY <2>2, <2>4, <2>6, <2>7, <3>2, Ranges, <2>5
    <3> QED
      BY <3>1, <3>2
  <2>8. \A n \in 1 .. MaxLoads : load'[n].state # "read"
    BY <2>1, <2>3
  <2> QED
    BY <2>7, <2>8
<1>8. ASSUME NEW c \in Calls, Serve(c) PROVE OwnInv'
  <2>0. call[c] \in Call
    BY <1>0
  <2>1. /\ \A d \in Calls : d # c => call'[d] = call[d]
        /\ call'[c].state # "answered"
    <3>1. CASE ServeWrites(c)
      BY <1>0, <2>0, <3>1 DEF ServeWrites, Write, Call
    <3>2. CASE ServeReads(c) \/ ServeEnds(c)
      BY <1>0, <2>0, <3>2 DEF ServeReads, ServeEnds, Call
    <3> QED
      BY <1>8, <3>1, <3>2, ServeCases
  <2> QED
    BY <1>8, <1>a, <2>1, ServeCases, Ranges DEF list
<1>9. CASE UNCHANGED vars
  BY <1>9, <1>a, Ranges DEF vars, list
<1>10. ASSUME NEW k \in Clicks, Click(k) PROVE OwnInv'
  BY <1>5, <1>10, ClickCases
<1>11. ASSUME NEW o \in Others, Elsewhere(o) PROVE OwnInv'
  BY <1>5, <1>11, ElsewhereCases
<1> QED
  BY <1>1, <1>2, <1>3, <1>4, <1>6, <1>7, <1>8, <1>9, <1>10, <1>11 DEF Next, Loads

(* Whatever loads and calls overlap, an answer to a load sent after a call *)
(* of the page succeeded has what the call wrote, or something newer.      *)
THEOREM ShowsOwnWritesAlways == Spec => []ShowsOwnWrites
<1>1. Init => RemovesInv /\ OwnInv
  BY DEF Init, RemovesInv, OwnInv, Idle, Calls
<1>2. OwnInv => ShowsOwnWrites
  BY DEF OwnInv, ShowsOwnWrites
<1>3. AcceptInv => RevInv
  BY DEF AcceptInv
<1> QED
  BY <1>1, <1>2, <1>3, TypedLemma, AcceptLemma, QueryLemma, RemovesNext, OwnNext, PTL DEF Spec

-----------------------------------------------------------------------------
(* What a call about a ticket asks for.                                    *)
LEMMA TicketOperations ==
  ASSUME Typed, page.kind = "ticket", NEW c \in Calls, call[c].state # "idle"
  PROVE  call[c].op \in {"reply", "adminReply", "close", "reopen", "update"}
<1>1. Operations["ticket"] = {"reply", "adminReply", "close", "reopen", "update"}
  BY DEF Operations
<1> QED
  BY <1>1 DEF Typed, CallInv

(* No step takes a ticket out of closed but a reopening, an update by an   *)
(* administrator, or a reply to a copy that was open.                      *)
THEOREM ClosedStaysAlways == Spec => ClosedStays
<1> DEFINE Reopens(c) ==
      /\ call[c].state \in {"sent", "saving"} /\ call'[c].state = "saved"
      /\ \/ call[c].op \in {"reopen", "update"}
         \/ call[c].op \in {"reply", "adminReply"} /\ call[c].copy = "open"
<1>1. ASSUME Typed, [Next]_vars, page.kind = "ticket", status = "closed", status' # "closed"
      PROVE  \E c \in Calls : Reopens(c)
  <2>1. PICK c \in Calls : Serve(c)
    <3>1. Loads => UNCHANGED server
      BY DEF Loads, ReadBy, LoadAnswered, LoadFails
    <3>2. ASSUME NEW k \in Clicks, Click(k) \/ Answered(k) \/ RowRemoved(k) PROVE UNCHANGED server
      BY <3>2 DEF Click, Answered, RowRemoved
    <3>3. ASSUME NEW o \in Others, Elsewhere(o) PROVE UNCHANGED server
      BY <3>3 DEF Elsewhere
    <3>4. UNCHANGED vars => UNCHANGED server
      BY DEF vars
    <3>5. Filters => UNCHANGED server
      BY <1>1, FiltersTyped
    <3> QED
      BY <1>1, <3>1, <3>2, <3>3, <3>4, <3>5 DEF Next, server
  <2>0. call \in [Calls -> Call]
    BY <1>1 DEF Typed, TypeOK
  <2>2. CASE Save(c)
    <3> DEFINE after == Handler[call[c].op][call[c].copy]
    <3>1. call[c].state = "saving" /\ after # call[c].copy /\ after # "closed" /\ Write(c, after)
      BY <1>1, <2>2 DEF Save, Write
    <3>2. call'[c].state = "saved"
      BY <2>0, <3>1 DEF Write, Call
    <3>3. call[c].op \in {"reply", "adminReply", "close", "reopen", "update"}
      BY <1>1, <3>1, TicketOperations
    <3>4. call[c].op # "close" /\ (call[c].op \in {"reply", "adminReply"} => call[c].copy = "open")
      <4>1. call[c].copy \in DOMAIN Handler[call[c].op]
        BY <1>1, <3>1 DEF Typed, CallInv
      <4>2. /\ Handler["reply"] = replyToTicket /\ Handler["adminReply"] = replyToTicket
            /\ Handler["close"] = closeTicket
        BY DEF Handler, adminReplyToTicket
      <4> QED
        BY <3>1, <4>1, <4>2 DEF replyToTicket, closeTicket, To
    <3> QED
      BY <3>1, <3>2, <3>3, <3>4
  <2>3. CASE adminUpdateTicket(c)
    <3>1. call[c].state = "sent" /\ call[c].op = "update" /\ Write(c, call[c].target)
      BY <1>1, <2>3 DEF adminUpdateTicket, Update, Refuse, server
    <3>2. call'[c].state = "saved"
      BY <2>0, <3>1 DEF Write, Call
    <3> QED
      BY <3>1, <3>2
  <2>4. ~Read(c) /\ ~CallFails(c)
    BY <1>1 DEF Read, CallFails, server
  <2>5. ~WriteAtOnce(c)
    BY <1>1, TicketOperations DEF WriteAtOnce, OneWrite
  <2>6. ~updateBookingStatus(c) /\ ~updatePage(c) /\ ~updateBanner(c) /\ ~updateConfig(c)
    BY <1>1 DEF updateBookingStatus, updatePage, updateBanner, updateConfig, Update
  <2> QED
    BY <2>1, <2>2, <2>3, <2>4, <2>5, <2>6 DEF Serve
<1>2. Typed /\ [Next]_vars =>
        [page.kind = "ticket" /\ status = "closed" /\ status' # "closed" => \E c \in Calls : Reopens(c)]_vars
  BY <1>1
<1> QED
  BY <1>2, TypedLemma, PTL DEF Spec, ClosedStays
=============================================================================
