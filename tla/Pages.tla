------------------------------- MODULE Pages -------------------------------
(***************************************************************************)
(* The pages on which agencies and administrators work on tickets,         *)
(* bookings, clients, sub-admins and what the site shows, and the handlers *)
(* on the server that change the status of one or delete it.               *)
(*                                                                         *)
(* One page is open, and one document is followed.  A page loads what it   *)
(* shows at ngOnInit, at every change of its filters, and after each of    *)
(* its calls that succeeds.  Nothing takes back a load: answers arrive in  *)
(* any order, and the last to arrive is what the page shows.  Buttons are  *)
(* offered from the status shown.  Meanwhile others, on pages of theirs,   *)
(* change the same document.                                               *)
(*                                                                         *)
(* A handler is one write, or it reads its document, waits, and saves what *)
(* it changed of the copy: Mongoose writes a status only when it differs   *)
(* from the one read.  Messages, reasons, sums and the other fields are    *)
(* left out, and so are the other documents of a list.                     *)
(***************************************************************************)
EXTENDS Naturals

CONSTANTS
  Clicks,    \* calls the page makes
  Others,    \* calls made elsewhere
  MaxLoads,  \* bound: loads of the page
  MaxPage,   \* bound: pages of the paginator, from 0
  Tabs,      \* filters that are tried, besides the first
  Words      \* texts typed in a search box

Calls == Clicks \cup Others

NoWord == ""
NoStatus == "none"

ASSUME PagesAssumption ==
  /\ Clicks \cap Others = {}
  /\ MaxLoads \in Nat \ {0}
  /\ MaxPage \in Nat
  /\ NoWord \in Words

TicketStatus == {"open", "in_progress", "resolved", "closed"}

(* Any other text: an administrator's update of a ticket stores what it is *)
(* given.                                                                  *)
Unlisted == "unlisted"

BookingStatus == {"pending", "confirmed", "cancelled", "completed", "failed"}
CompanyStatus == {"pending", "active", "suspended", "rejected"}
UserStatus == {"active", "disabled"}
WalletTransactionType ==
  {"topup", "credit_use", "credit_refund", "loyalty_earn", "loyalty_redeem", "adjustment"}

(* isPublished of a page, isActive of a banner or of an integration.       *)
IsPublished == {"published", "draft"}
IsActive == {"active", "inactive"}

(* No role is a system role: no code makes it one.                         *)
RoleStatus == {"custom"}

StatusOf ==
  [ticket |-> TicketStatus \cup {Unlisted}, booking |-> BookingStatus, client |-> CompanyStatus,
   subAdmin |-> UserStatus, role |-> RoleStatus, cmsPage |-> IsPublished,
   banner |-> IsActive, config |-> IsActive, transaction |-> WalletTransactionType]
AnyStatus == UNION {StatusOf[k] : k \in DOMAIN StatusOf}

(* What a report is filtered by.                                           *)
Periods == {"month"}

-----------------------------------------------------------------------------
(* The handlers: the statuses each accepts, and the one each saves, or     *)
(* NoStatus, when it deletes.                                              *)
To(target, accepted) == [s \in accepted |-> target]

(* Mutant: a reply puts the ticket in progress whatever it was.            *)
ReplyToAny == To("in_progress", StatusOf.ticket)

replyToTicket == [s \in StatusOf.ticket |-> IF s = "open" THEN "in_progress" ELSE s]
adminReplyToTicket == replyToTicket
closeTicket == To("closed", StatusOf.ticket)
reopenTicket == To("open", {"closed"})

(* Only with the supplier's reference, too: see Accepts.                   *)
cancelBooking == To("cancelled", {"confirmed", "pending"})
approveClient == To("active", {"pending"})
rejectClient == To("rejected", CompanyStatus)
suspendClient == To("suspended", CompanyStatus)
activateClient == To("active", CompanyStatus)
disableSubAdmin == To("disabled", UserStatus)
deleteRole == To(NoStatus, RoleStatus)
deletePage == To(NoStatus, IsPublished)
deleteBanner == To(NoStatus, IsActive)

Handler ==
  [reply |-> replyToTicket, adminReply |-> adminReplyToTicket,
   close |-> closeTicket, reopen |-> reopenTicket, cancel |-> cancelBooking,
   approve |-> approveClient, reject |-> rejectClient, suspend |-> suspendClient,
   activate |-> activateClient, disable |-> disableSubAdmin, deleteRole |-> deleteRole,
   deletePage |-> deletePage, deleteBanner |-> deleteBanner]

(* The rest read first.                                                    *)
OneWrite == {"activate", "disable", "deletePage", "deleteBanner"}

(* An update sets the status it is given.                                  *)
Operations ==
  [ticket |-> {"reply", "adminReply", "close", "reopen", "update"},
   booking |-> {"cancel", "update"},
   client |-> {"approve", "reject", "suspend", "activate"},
   subAdmin |-> {"disable"}, role |-> {"deleteRole"},
   cmsPage |-> {"update", "deletePage"}, banner |-> {"update", "deleteBanner"},
   config |-> {"update"}, transaction |-> {}]

(* What a page may choose in an update.  The list of a booking has a       *)
(* status there is not; the form of a banner may leave a date empty, and   *)
(* that of an integration have a markup below zero.                        *)
Unfit == "unfit"

Choices ==
  [ticket |-> TicketStatus,
   booking |-> {"pending", "confirmed", "cancelled", "completed", "refunded"},
   cmsPage |-> IsPublished, banner |-> IsActive \cup {Unfit}, config |-> IsActive \cup {Unfit}]

(* Mutant: any status the page offers is taken.                            *)
AnyBookingStatus == BookingStatus \cup Choices.booking

(* What the DTO of an update takes.  A status is one of the schema's, but  *)
(* for a ticket's, which is any text, and is stored by an update that runs *)
(* no validators; an empty date and a markup below zero are refused.       *)
AdminUpdateTicketDto == StatusOf.ticket
UpdateBookingStatusDto == BookingStatus
UpdatePageDto == IsPublished
UpdateBannerDto == IsActive
UpdateApiConfigDto == IsActive

Dto ==
  [ticket |-> AdminUpdateTicketDto, booking |-> UpdateBookingStatusDto,
   cmsPage |-> UpdatePageDto, banner |-> UpdateBannerDto, config |-> UpdateApiConfigDto]

(* What of a query each list on the server takes.                          *)
listClients == {"tab", "word", "at"}
listAllBookings == {"tab", "at"}
findAll == {"tab", "at"}
listTickets == {"tab", "at"}
adminListTickets == {"tab", "at"}
getTransactions == {"tab", "at"}
getRevenueReport == {"tab"}
getBookingsReport == {"tab"}
getCreditReport == {"tab"}

(* These list everything.                                                  *)
listSubAdmins == {}
listRoles == {}
listPages == {}
listBanners == {}
listConfigs == {}
ById == {}

-----------------------------------------------------------------------------
(* The pages.  A filter or a search loads at once, when its timer fires,   *)
(* when a button is pressed, or is not there; first and tabs are what it   *)
(* is set to; offers are the buttons by the status shown; while a call of  *)
(* busy is out, the buttons of disabled are; a paginator that stays is     *)
(* there while the list loads; a page that is left goes back to its list   *)
(* when a load fails; one that removes takes a row away itself when a call *)
(* succeeded, and does not load again; one that is not served asks for     *)
(* what the server has no route to.                                        *)
Page(kind, takes, filter, search, offers) ==
  [kind |-> kind, takes |-> takes, filter |-> filter, search |-> search, offers |-> offers,
   first |-> "all", tabs |-> StatusOf[kind] \ {Unlisted}, busy |-> {}, disabled |-> {},
   stays |-> FALSE, left |-> FALSE, removes |-> FALSE, served |-> TRUE]

Whole(kind, takes, offers) == Page(kind, takes, "none", "none", offers)

Report(kind, takes) == [Page(kind, takes, "button", "none", {}) EXCEPT !.tabs = Periods]

ClientsList ==
  Page("client", listClients, "at once", "timer", {<<"pending", "approve">>, <<"active", "suspend">>})

ClientDetail ==
  [Whole("client", ById,
         {<<"pending", "approve">>, <<"pending", "reject">>, <<"active", "suspend">>,
          <<"suspended", "activate">>, <<"rejected", "activate">>})
   EXCEPT !.busy = {"approve", "activate"},
          !.disabled = {"approve", "reject", "suspend", "activate"}]

AllBookingsList == Page("booking", listAllBookings, "timer", "timer", {})

AdminBookingDetail ==
  [Whole("booking", ById, BookingStatus \X {"update"})
   EXCEPT !.busy = {"update"}, !.disabled = {"update"}]

AdminSupportList == Page("ticket", adminListTickets, "at once", "none", {})

SupportList == [Page("ticket", listTickets, "at once", "none", {}) EXCEPT !.stays = TRUE]

TicketDetail ==
  [Whole("ticket", ById,
         ({"open", "in_progress"} \X {"reply", "close"}) \cup {<<"closed", "reopen">>})
   EXCEPT !.busy = {"reply"}, !.disabled = {"reply"}, !.left = TRUE]

(* There is a list of tickets for administrators, and no GET of one: the   *)
(* buttons never show, as nothing arrives that they would be shown with.   *)
AdminTicketDetail ==
  [Whole("ticket", ById, TicketStatus \X {"update", "adminReply"})
   EXCEPT !.busy = {"update"}, !.disabled = {"update"}, !.served = FALSE]

(* Mutant: a completed booking can be cancelled, too.                      *)
canCancelMore == {"confirmed", "pending", "completed"} \X {"cancel"}

canCancel == {"confirmed", "pending"} \X {"cancel"}

BookingsList == Page("booking", findAll, "at once", "at once", canCancel)

BookingDetail == [Whole("booking", ById, canCancel) EXCEPT !.left = TRUE]

(* approvingId disables the buttons of one row, and a click on another row *)
(* enables them again: nothing is sure to be disabled.                     *)
AdminDashboard ==
  [Whole("client", listClients, {<<"pending", "approve">>, <<"pending", "reject">>})
   EXCEPT !.first = "pending", !.removes = TRUE]

Dashboard == Whole("booking", findAll, {})

WalletDashboard ==
  [Page("transaction", getTransactions, "at once", "none", {}) EXCEPT !.stays = TRUE]

RevenueReport == Report("booking", getRevenueReport)
BookingsReport == Report("booking", getBookingsReport)
CreditReport == Report("transaction", getCreditReport)

SubAdminsList == Whole("subAdmin", listSubAdmins, {<<"active", "disable">>})
RolesList == Whole("role", listRoles, {<<"custom", "deleteRole">>})
CmsPages == Whole("cmsPage", listPages, IsPublished \X {"update", "deletePage"})
CmsBanners == Whole("banner", listBanners, IsActive \X {"update", "deleteBanner"})

(* A provider that is not configured, or not listed yet, can be configured. *)
ApiSettings == Whole("config", listConfigs, (IsActive \cup {NoStatus}) \X {"update"})

Pages ==
  {ClientsList, ClientDetail, AllBookingsList, AdminBookingDetail, AdminSupportList,
   AdminTicketDetail, SupportList, TicketDetail, BookingsList, BookingDetail,
   AdminDashboard, Dashboard, WalletDashboard, RevenueReport, BookingsReport, CreditReport,
   SubAdminsList, RolesList, CmsPages, CmsBanners, ApiSettings}

-----------------------------------------------------------------------------
VARIABLES
  page,        \* the page that is open
  supplierRef, \* a booking has the supplier's reference
  open,        \* it still is
  status,      \* of the document, on the server: NoStatus when there is none
  rev,         \* how often the status was changed
  query,       \* the filters, as the page shows them
  filtering,   \* the filters wait for their timer or their button
  typing,      \* the timer of the search box runs
  emitted,     \* the texts distinctUntilChanged passed last: one or none
  asked,       \* the text of the last load that was sent
  issued,      \* loads sent
  load,        \* each of them, while it is under way
  shown,       \* the answer that arrived last
  loading,     \* the spinner is shown
  call         \* each call

server == <<status, rev>>
filters == <<query, filtering, typing, emitted, asked>>
list == <<issued, load, shown, loading>>
vars == <<page, supplierRef, open, server, filters, list, call>>

Query == [tab : {"all", "pending"} \cup Tabs, word : Words, at : 0 .. MaxPage]

(* row: the status in the answer, if it has the document.                  *)
Load == [state : {"none", "sent", "read"}, query : Query,
         row : AnyStatus \cup {NoStatus}, rev : Nat]

(* n: the load that was answered, 0 before the first answer.               *)
Answer == [n : 0 .. MaxLoads, query : Query, row : AnyStatus \cup {NoStatus}, rev : Nat]

(* seen: the revision the button was offered at; target: what an update    *)
(* asks for, or what was read; reload: the load that follows.              *)
Call == [state : {"idle", "sent", "saving", "saved", "answered", "refused"},
         op : {"none"} \cup UNION {Operations[k] : k \in DOMAIN Operations},
         target : AnyStatus \cup {NoStatus, Unfit, "refunded"},
         copy : AnyStatus \cup {NoStatus}, seen : Nat, rev : Nat, reload : Nat]

NoQuery == [tab |-> "all", word |-> NoWord, at |-> 0]
FirstQuery == [NoQuery EXCEPT !.tab = page.first]
NoLoad == [state |-> "none", query |-> NoQuery, row |-> NoStatus, rev |-> 0]
NoAnswer == [n |-> 0, query |-> NoQuery, row |-> NoStatus, rev |-> 0]
LoadOf(q) == [NoLoad EXCEPT !.state = "sent", !.query = q]
Idle == [state |-> "idle", op |-> "none", target |-> NoStatus, copy |-> NoStatus,
         seen |-> 0, rev |-> 0, reload |-> 0]

(* Type invariant.  A status is one that the schema of its document lists, *)
(* or that of a ticket any text, however updates, saves and deletions      *)
(* overlap.                                                                *)
TypeOK ==
  /\ page \in Pages
  /\ supplierRef \in BOOLEAN
  /\ open \in BOOLEAN
  /\ status \in StatusOf[page.kind] \cup {NoStatus}
  /\ rev \in Nat
  /\ query \in Query
  /\ filtering \in BOOLEAN /\ typing \in BOOLEAN
  /\ emitted \in SUBSET Words
  /\ asked \in Words
  /\ issued \in 1 .. MaxLoads
  /\ load \in [1 .. MaxLoads -> Load]
  /\ shown \in Answer
  /\ loading \in BOOLEAN
  /\ call \in [Calls -> Call]

(* A booking that never had the supplier's answer has no reference, and    *)
(* whatever status an administrator has set it to.                         *)
Init ==
  /\ page \in Pages
  /\ supplierRef \in BOOLEAN
  /\ page.kind # "booking" => supplierRef
  /\ open = TRUE
  /\ status \in StatusOf[page.kind] \cup {NoStatus}
  /\ status = NoStatus => page.kind = "config"
  /\ rev = 0
  /\ query = FirstQuery
  /\ filtering = FALSE /\ typing = FALSE
  /\ emitted = {}
  /\ asked = NoWord
  /\ issued = 1
  /\ load = [n \in 1 .. MaxLoads |-> IF n = 1 THEN LoadOf(query) ELSE NoLoad]
  /\ shown = NoAnswer
  /\ loading = TRUE
  /\ call = [c \in Calls |-> Idle]

-----------------------------------------------------------------------------
(* Loads.                                                                  *)

(* Send the filters as they now are.                                       *)
LoadNow ==
  /\ issued < MaxLoads
  /\ issued' = issued + 1
  /\ load' = [load EXCEPT ![issued + 1] = LoadOf(query')]
  /\ loading' = TRUE
  /\ asked' = query'.word
  /\ UNCHANGED shown

(* The search text is sent by every list that has a box for it, and is not *)
(* a parameter of every list on the server.                                *)
Taken(q) == [q EXCEPT !.word = IF "word" \in page.takes THEN q.word ELSE NoWord]

(* The server reads: the document is in the part of the list that was      *)
(* asked for, or it is not; it never is when its status is filtered out.   *)
ReadBy(n) ==
  /\ page.served /\ load[n].state = "sent"
  /\ \E row \in {status, NoStatus} :
       /\ row # NoStatus => load[n].query.tab \in {"all", status} \cup Periods
       /\ row = NoStatus => status = NoStatus \/ page.takes # {}
       /\ load' = [load EXCEPT ![n].state = "read", ![n].row = row, ![n].rev = rev,
                               ![n].query = Taken(load[n].query)]
  /\ UNCHANGED <<page, supplierRef, open, server, filters, issued, shown, loading, call>>

LoadAnswered(n) ==
  /\ open /\ load[n].state = "read"
  /\ load' = [load EXCEPT ![n] = NoLoad]
  /\ shown' = [n |-> n, query |-> load[n].query, row |-> load[n].row, rev |-> load[n].rev]
  /\ loading' = FALSE
  /\ UNCHANGED <<page, supplierRef, open, server, filters, issued, call>>

(* What was shown stays, unless the page is left.                          *)
LoadFails(n) ==
  /\ open /\ load[n].state \in {"sent", "read"}
  /\ load' = [load EXCEPT ![n] = NoLoad]
  /\ loading' = FALSE
  /\ open' = ~page.left
  /\ UNCHANGED <<page, supplierRef, server, filters, issued, shown, call>>

-----------------------------------------------------------------------------
(* Filters.                                                                *)

(* Mutant: the paginator goes back to the first page, and nothing loads.   *)
TabForgotten(tab) ==
  /\ open /\ page.filter = "at once"
  /\ query' = [query EXCEPT !.tab = tab, !.at = 0]
  /\ UNCHANGED <<page, supplierRef, open, server, filtering, typing, emitted, asked, list, call>>

onTabChange(tab) ==
  /\ open /\ page.filter = "at once" /\ tab # query.tab
  /\ query' = [query EXCEPT !.tab = tab, !.at = 0]
  /\ LoadNow
  /\ UNCHANGED <<page, supplierRef, open, server, filtering, typing, emitted, call>>

onPage(at) ==
  /\ open /\ page.filter # "none" /\ "at" \in page.takes /\ at # query.at
  /\ shown.n > 0 /\ (loading => page.stays)
  /\ query' = [query EXCEPT !.at = at]
  /\ LoadNow
  /\ UNCHANGED <<page, supplierRef, open, server, filtering, typing, emitted, call>>

onSearch(word) ==
  /\ open /\ page.search = "at once" /\ word # query.word
  /\ query' = [query EXCEPT !.word = word, !.at = 0]
  /\ LoadNow
  /\ UNCHANGED <<page, supplierRef, open, server, filtering, typing, emitted, call>>

(* The form changes, and waits for its timer, which starts again, or for   *)
(* its button.                                                             *)
Filter(tab) ==
  /\ open /\ page.filter \in {"timer", "button"} /\ tab # query.tab
  /\ query' = [query EXCEPT !.tab = tab]
  /\ filtering' = TRUE
  /\ UNCHANGED <<page, supplierRef, open, server, typing, emitted, asked, list, call>>

filterForm ==
  /\ open /\ filtering /\ page.filter = "timer"
  /\ filtering' = FALSE
  /\ query' = [query EXCEPT !.at = 0]
  /\ LoadNow
  /\ UNCHANGED <<page, supplierRef, open, server, typing, emitted, call>>

(* The button: Apply.                                                      *)
loadReport ==
  /\ open /\ page.filter = "button"
  /\ filtering' = FALSE
  /\ UNCHANGED query /\ LoadNow
  /\ UNCHANGED <<page, supplierRef, open, server, typing, emitted, call>>

Type(word) ==
  /\ open /\ page.search = "timer" /\ word # query.word
  /\ query' = [query EXCEPT !.word = word]
  /\ typing' = TRUE
  /\ UNCHANGED <<page, supplierRef, open, server, filtering, emitted, asked, list, call>>

(* debounceTime lets the text through, and distinctUntilChanged drops it   *)
(* when it is the one it let through last.                                 *)
searchControl ==
  /\ open /\ typing
  /\ typing' = FALSE
  /\ IF emitted = {query.word}
     THEN UNCHANGED <<query, emitted, asked, list>>
     ELSE /\ emitted' = {query.word}
          /\ query' = [query EXCEPT !.at = 0]
          /\ LoadNow
  /\ UNCHANGED <<page, supplierRef, open, server, filtering, call>>

-----------------------------------------------------------------------------
(* Calls.                                                                  *)

Offered(op) ==
  /\ open /\ ~loading
  /\ <<shown.row, op>> \in page.offers
  /\ op \in page.disabled =>
       \A k \in Clicks : call[k].op \in page.busy => call[k].state \in {"idle", "answered", "refused"}

Send(c, op, target) ==
  call' = [call EXCEPT ![c] = [Idle EXCEPT !.state = "sent", !.op = op, !.target = target,
                                           !.seen = shown.rev]]

(* A button is pressed, and its dialog confirmed.                          *)
Click(k) ==
  /\ call[k].state = "idle"
  /\ \E op \in Operations[page.kind] :
       /\ Offered(op)
       /\ IF op = "update"
          THEN \E target \in Choices[page.kind] \ {shown.row} : Send(k, op, target)
          ELSE Send(k, op, NoStatus)
  /\ UNCHANGED <<page, supplierRef, open, server, filters, list>>

(* The same from anyone else: the page they have open may be an old one.   *)
Elsewhere(o) ==
  /\ call[o].state = "idle"
  /\ \E op \in Operations[page.kind] :
       IF op = "update"
       THEN \E target \in Dto[page.kind] : Send(o, op, target)
       ELSE Send(o, op, NoStatus)
  /\ UNCHANGED <<page, supplierRef, open, server, filters, list>>

(* What the server accepts, as things are.  An update needs a document     *)
(* that is there, except that an integration that is not there is made.    *)
Accepts(op, target) ==
  IF op = "update"
  THEN target \in Dto[page.kind] /\ (status = NoStatus => page.kind = "config")
  ELSE status \in DOMAIN Handler[op] /\ (op = "cancel" => supplierRef)

(* The status is written; a write of the same status is none.              *)
Write(c, to) ==
  /\ status' = to
  /\ rev' = IF to = status THEN rev ELSE rev + 1
  /\ call' = [call EXCEPT ![c].state = "saved", ![c].rev = rev']

Refuse(c) == call' = [call EXCEPT ![c].state = "refused"] /\ UNCHANGED server

(* A handler that is one write of a document that is there.                *)
WriteAtOnce(c) ==
  /\ call[c].state = "sent" /\ call[c].op \in OneWrite
  /\ IF Accepts(call[c].op, NoStatus)
     THEN Write(c, Handler[call[c].op][status])
     ELSE Refuse(c)
  /\ UNCHANGED <<page, supplierRef, open, filters, list>>

(* A handler that reads first.                                             *)
Read(c) ==
  /\ call[c].state = "sent" /\ call[c].op \in DOMAIN Handler \ OneWrite
  /\ call' = IF Accepts(call[c].op, NoStatus)
             THEN [call EXCEPT ![c].state = "saving", ![c].copy = status]
             ELSE [call EXCEPT ![c].state = "refused"]
  /\ UNCHANGED <<page, supplierRef, open, server, filters, list>>

(* What differs from the copy is written over whatever is there by now.    *)
Save(c) ==
  LET after == Handler[call[c].op][call[c].copy] IN
  /\ call[c].state = "saving"
  /\ Write(c, IF after = call[c].copy THEN status ELSE after)
  /\ UNCHANGED <<page, supplierRef, open, filters, list>>

Update(c, kind) ==
  /\ page.kind = kind /\ call[c].state = "sent" /\ call[c].op = "update"
  /\ IF Accepts("update", call[c].target) THEN Write(c, call[c].target) ELSE Refuse(c)
  /\ UNCHANGED <<page, supplierRef, open, filters, list>>

adminUpdateTicket(c) == Update(c, "ticket")
updateBookingStatus(c) == Update(c, "booking")
updatePage(c) == Update(c, "cmsPage")
updateBanner(c) == Update(c, "banner")
updateConfig(c) == Update(c, "config")

(* The supplier, the database, its validators or the network: nothing is   *)
(* saved, or it is saved and the page is told of an error.                 *)
CallFails(c) ==
  /\ call[c].state \in {"sent", "saving", "saved"}
  /\ call' = [call EXCEPT ![c].state = "refused"]
  /\ UNCHANGED <<page, supplierRef, open, server, filters, list>>

(* Mutant: the call succeeded, and the page goes on showing what it has.   *)
ReloadForgotten(k) ==
  /\ open /\ call[k].state = "saved"
  /\ call' = [call EXCEPT ![k].state = "answered", ![k].reload = issued]
  /\ UNCHANGED <<page, supplierRef, open, server, filters, list>>

(* The call succeeded, and the page loads again.                           *)
Answered(k) ==
  /\ open /\ call[k].state = "saved" /\ ~page.removes
  /\ UNCHANGED query /\ LoadNow
  /\ call' = [call EXCEPT ![k].state = "answered", ![k].reload = issued']
  /\ UNCHANGED <<page, supplierRef, open, server, filtering, typing, emitted>>

(* Or it takes the row away: what it shows is as of the call.              *)
RowRemoved(k) ==
  /\ open /\ call[k].state = "saved" /\ page.removes
  /\ shown' = [shown EXCEPT !.row = NoStatus, !.rev = IF @ > call[k].rev THEN @ ELSE call[k].rev]
  /\ call' = [call EXCEPT ![k].state = "answered", ![k].reload = issued]
  /\ UNCHANGED <<page, supplierRef, open, server, filters, issued, load, loading>>

-----------------------------------------------------------------------------
Loads == \E n \in 1 .. MaxLoads : ReadBy(n) \/ LoadAnswered(n) \/ LoadFails(n)

Filters ==
  \/ \E tab \in {"all"} \cup (Tabs \cap page.tabs) : onTabChange(tab) \/ Filter(tab)
  \/ \E at \in 0 .. MaxPage : onPage(at)
  \/ \E word \in Words : onSearch(word) \/ Type(word)
  \/ filterForm \/ loadReport \/ searchControl

Serve(c) ==
  \/ Read(c) \/ Save(c) \/ WriteAtOnce(c) \/ CallFails(c)
  \/ adminUpdateTicket(c) \/ updateBookingStatus(c)
  \/ updatePage(c) \/ updateBanner(c) \/ updateConfig(c)

Next ==
  \/ Loads \/ Filters
  \/ \E k \in Clicks : Click(k) \/ Answered(k) \/ RowRemoved(k)
  \/ \E o \in Others : Elsewhere(o)
  \/ \E c \in Calls : Serve(c)

Spec == Init /\ [][Next]_vars

-----------------------------------------------------------------------------
(* When the answer to the newest load is the last to have arrived, the     *)
(* list shown is the one the filters on the page ask for, as far as the    *)
(* server takes them, unless the search box was typed back to what         *)
(* distinctUntilChanged passed last, after a load with what stood there in *)
(* between.                                                                *)
ListShowsQuery ==
  shown.n = issued /\ ~filtering /\ ~typing /\ asked = query.word =>
    shown.query = Taken(query)

(* Once the load that follows a call of the page has been answered, the    *)
(* page shows what the call wrote or something newer, unless the answer to *)
(* an earlier load came after it.                                          *)
ShowsOwnWrites ==
  \A k \in Clicks :
    call[k].state = "answered" /\ shown.n >= call[k].reload => shown.rev >= call[k].rev

(* What a page offers to do to the status of its document is accepted,     *)
(* unless the document has changed since the page read it, but for three   *)
(* things that are refused: the cancel of a booking the supplier gave no   *)
(* reference for, which is offered by the status alone; the "refunded" in  *)
(* the administrators' list of a booking's statuses, which is not one of   *)
(* them; and a form with an empty date or a markup below zero.             *)
OfferedIsAllowed ==
  \A k \in Clicks :
    call[k].state = "sent" /\ call[k].seen = rev =>
      \/ Accepts(call[k].op, call[k].target)
      \/ call[k].op = "cancel" /\ ~supplierRef
      \/ page.kind = "booking" /\ call[k].target = "refunded"
      \/ page.kind \in {"banner", "config"} /\ call[k].target = Unfit

(* A closed ticket stays closed until it is reopened or an administrator   *)
(* updates it, but for a reply to it that was read when it was open.       *)
ClosedStays ==
  [][page.kind = "ticket" /\ status = "closed" /\ status' # "closed" =>
       \E c \in Calls :
         /\ call[c].state \in {"sent", "saving"} /\ call'[c].state = "saved"
         /\ \/ call[c].op \in {"reopen", "update"}
            \/ call[c].op \in {"reply", "adminReply"} /\ call[c].copy = "open"]_vars
=============================================================================
