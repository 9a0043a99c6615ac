# Formal model of the travel-agency B2B platform

TLA+ modules, TLC runs and TLAPS proofs for a platform on which travel agencies book
hotels: bookings on credit and paid by card, the payments that top wallets up, everything
else that changes an agency's balances, its accounts and sessions, and the pages on which
agencies and administrators work. The program is a NestJS API (`server/src`) over MongoDB
and Redis, with two Angular front ends (`apps/client`, `apps/admin`), a hotel supplier
(TBO, SOAP) and a payment gateway (PayTabs).

Requests run concurrently in one or more Node processes: every `await` is a point where
another request may run. MongoDB makes a single-document update and an explicit
transaction atomic, and nothing more. `doc.save()` of Mongoose sets the fields changed in
the copy to the values computed from that copy and pushes to arrays; the schemas do not
turn on optimistic concurrency, so no save compares versions. In the browser, an answer
may arrive after any other. These facts are what the models are about.

## 1. Inventory

| Component | State | Operations | Hard behaviour | What makes it correct |
|---|---|---|---|---|
| Credit account (`modules/companies`, `db/schemas/company.schema.ts`) | creditLimit, walletBalance, outstandingBalance | atomicDeductCredit, creditBack, topUpWallet, deductWallet, updateCreditLimit | conditional update racing other bookings; limit lowered under open holds | nobody commits more than is available; the debt is explained by holds and bookings |
| Bookings on credit (`modules/bookings`) | booking, booking_sequences, wallet_transactions | createBooking (credit), cancelBooking | supplier call between deduction and insert; lost reply; failing rollback; retried or failed transaction; crash; two cancels at once | assertions 1 and 2 of `scripts/verify-ledger.ts`; unique references; a hold is given back once |
| Bookings online (`modules/bookings`, `modules/admin`) | booking.status, refundStatus, supplierBookingRef | createBooking (online), cancelBooking, updateBookingStatus, refundBooking | supplier fails after the payment; its answer lost or its refusal not looked at; a refund that stops between two saves; a cancel saved from an old copy | a failed booking is found by the query for pending refunds; a refund is paid once; nobody is refunded a room still held |
| Payments (`modules/payments`, `modules/integrations/paytabs`) | payment.status, gatewayOrderId | createOrder, verifyPayment, handleWebhook, processRefund | repeated, late, reordered, concurrent webhooks; verify racing a webhook; crash between status and top-up; refunds at once | a payment is credited once and only if paid; a refund takes from the wallet what the gateway paid back |
| Admin money (`modules/admin`) | company, settlement, wallet_transactions | adminTopUpWallet, refundBooking, recordSettlement | read, modify and `save` racing increments | no change lost; a settlement settles |
| Wallet and loyalty (`modules/wallet`) | loyaltyPoints, walletBalance | addLoyaltyPoints, redeemLoyaltyPoints | test and increment in two steps | points cover what is redeemed |
| Client approval (`modules/admin`) | company.status, notifications | approve, reject, suspend, activate | decided on a copy; the notification fails after the save | the last decision holds; a rejected agency is out until activated |
| Authentication (`modules/auth`) | company, user, failedLoginAttempts, lockedUntil, passwordResetToken, refreshTokenHash | register, login, refresh, logout, forgotPassword, resetPassword | two inserts without a transaction; counter from an old copy; two links and two resets at once; a refresh that read before a logout | lockout after the attempts allowed; a link works once; a removed session stays removed |
| Token refresh in the clients (`apps/*/core/interceptors`, `services/auth.service.ts`, `guards`) | isRefreshing, refreshDone$, currentUser, cookies | intercept, handle401, login, logout, canActivate | requests waiting for one refresh that fails; a retried request that fails; two tabs rotating one token | every request gets an answer; one refresh at a time per tab |
| Support tickets (`modules/support`) | ticket.status, messages | createTicket, reply, close, reopen, adminUpdate, adminReply | a reply saved from a copy read before a close | a closed ticket stays closed until reopened |
| Pages (`apps/*/features`) | what is shown, filters, spinner, calls | load, filter, search, paginate, and the buttons | answers in any order; debounce and distinctUntilChanged; buttons offered from what was read before | a list shows what its filters say; a page shows its own writes; nothing is offered that the server refuses |
| Reports, CMS, roles, sub-admins, API settings (`modules/reports`, `cms`, `admin`) | documents | lists, updates, deletions | as for the pages | as for the pages |
| Notifications and jobs (`modules/notifications`, `jobs`) | notification, BullMQ queues | send, processors | a failed insert or e-mail; nothing ever fills the queues | what is sent follows a decision |
| Hotel search cache (`modules/hotels`) | Redis key, TTL | search | Redis down | an answer is no older than the TTL |
| Users, audit log, encryption, DTOs, seeds, deployment | documents or none | CRUD | none worth a model | – |

The components meet in the company document: bookings take from the credit that the
wallet, the limit and the debt make up; payments, the admin and loyalty change the wallet;
the ledger is written beside all of them and read only by `verify-ledger.ts` and the
statements. `company.status` decides who may log in; the pages call the same handlers as
everybody else's pages do.

## 2. The modules

| Module | Models | State and actions |
|---|---|---|
| `CreditAccount` | the promise of the credit account, abstractly | `Commit`, `GiveBack`, `ChangeCover` on what each request holds |
| `CreditBooking` | `BookingsService.createBooking` (credit flow), `cancelBooking`, `generateBookingRef`; the balances in `CompaniesService`; the admin's limit, booking status and `refundBooking` | one action per stretch between two awaits of a handler; `reqState`, `cancelState` and `refundState` say which await a call is at; `readBalance` is the wallet a refund has read |
| `Payments` | `PaymentsService` whole, PayTabs and the customer as its environment | `pc`, `target`, `seen`: where a handler is, its payment, and the status it read |
| `WalletAccount` | `adminTopUpWallet`, `refundBooking`, `recordSettlement`, `addLoyaltyPoints`, `redeemLoyaltyPoints` among the updates payments and bookings make | `seen`: the balance an admin's call read; `SaveCompany` sets it plus the amount |
| `OnlineBooking` | `createBooking` (online flow), `cancelBooking`, `updateBookingStatus`, `refundBooking`, and the supplier's rooms | `pc` of each call, `answer` of the supplier, the booking document, `held`, `copy` of the refund status a call read |
| `Accounts` | `AuthService.register`, `login`, `forgotPassword`, `resetPassword`; `AdminService.approveClient`, `rejectClient`, `suspendClient`, `activateClient`, `createSubAdmin`, `disableSubAdmin` on one e-mail address | `pc`, and what each call read: `counted`, `token`, `status` |
| `Sessions` | both `AuthInterceptor`s, the clients' `AuthService` and guards; `AuthService.refresh`, `logout` and the end of `login`; `JwtStrategy` | cookies of one browser, `refreshing` and `call` of each tab, `st` of each request |
| `Pages` | twenty-one pages of the two front ends and the handlers that change the status of, or delete, what they show | `page` is one of a table of pages; loads, filters, calls and handlers are actions driven by the table |
| `MC...` | the instance of each module for TLC | |
| `..._proofs` | the theorems about each module | |
| `SumTheorems` | lemmas about the library's sum of a function over a finite set | |

How the code became actions:

- A handler's local variables are functions over the calls (`totalAmount[r]`, `seen[h]`,
  `copy[c]`). What is read before an await and used after it is kept, never read again.
- A single-document update with a condition (`atomicDeductCredit`, `deductWallet`) is one
  action with its condition as guard, its failure another action.
- A save of a Mongoose document writes the fields that differ from the copy: a status that
  is set to what it was when read is *not* written (`SaveDecision` in `Accounts`, `Save` in
  `Pages`, `SaveCancelled` in `OnlineBooking`).
- `session.withTransaction` of `createBooking` is `generateBookingRef` (which is inside the
  callback and *outside* the session, so it is not undone), then `CommitBooking`,
  `RetryTransaction` or `TransactionFails`.
- Every database write may throw. A write that takes effect and whose reply is lost leaves
  the state that a crash, or the failure of the next step, right after it leaves, so it
  has no action of its own; where the handler would go on to *compensate* (the supplier's
  `book`) the lost reply is modelled explicitly: `BookFails` of `CreditBooking` and
  `BookThrows` of `OnlineBooking` leave the room reserved or not.
- `Crash` of `CreditBooking`, `Payments` and `WalletAccount` kills every handler at the
  await where it is; `OnlineBooking` stops one call (`CreateStops`, `CancelStops`,
  `RefundStops`). Nothing in the code resumes one.
- `refundBooking` is in three modules, each with the part that meets its state: in
  `CreditBooking` it puts an amount into the wallet from a copy of the company and writes a
  `credit_refund` entry (`RefundRead`, `RefundSave`, `RefundPost`), for a booking on credit or
  online, as often as it is called, and without touching the debt; in `WalletAccount` its
  save overtakes, or is overtaken by, the other changes of the wallet; in `OnlineBooking` it
  sets the refund marks of the booking.
- `creditBack` lowers the debt without a condition, so the debt may go below zero: two cancels
  of one booking give back twice.
- On credit, the supplier confirms a room with a booking id or without; without one
  `cancelBooking` refuses. Its cancel answers with a fee, and its success flag is not
  looked at: in `OnlineBooking` a refused cancel and a cancel that threw after it reached
  the supplier are actions of their own.
- PayTabs has one notification per outcome to deliver (`ipn`); it is never taken out of the
  set, which is what repeated, late and reordered delivery means. The client sees the
  payment page only after `createOrder` has saved the gateway's id, so no notification
  precedes it.
- `Sessions` keeps of `refreshTokenHash` only whether there is one. bcrypt hashes the first
  72 bytes of what it is given; in these tokens they are the header and the start of
  `{"sub": id`, the same for every token of a user. So every unexpired refresh token of
  the user matches the hash of any other, and rotation does not retire the one before it:
  this is why two tabs refreshing with one token do not lock one another out
  (`RefreshTokenUsable`), and a model that compared whole tokens would be of another program.
- In `Sessions` the server takes a call of `/auth/` when it is sent, and cookies change when
  the answer arrives. `refresh()` has two steps on the server, its read and its write.
- `Pages` is one state machine over a table: what a page's list takes of a query, whether a
  filter or a search loads at once, after a timer or at a button, which buttons it offers by
  the status shown, which are disabled while which calls are out, and what follows a call.
  A handler is a function from the statuses it accepts to the one it saves; an update saves
  what its DTO takes (`Dto`). `Accepts` is both together: a cancel needs the supplier's
  reference besides (`supplierRef`; a booking that failed has none, and keeps none when an
  administrator sets it to confirmed). A ticket's status may be any text: the DTO asks for a
  string and the update runs no validators; `Unlisted` stands for every text but the four.
  The document followed may be changed by `Others`, on pages of theirs.
- History variables (`credited`, `overlapped`, `due`, `contested`, `byAdmin`, `kept`,
  `drifted`, `cut`, `stranded`, ...) record what happened; no guard reads them. Properties
  use them to name exactly the cases in which the code does not keep its promise.
- Definitions whose comment begins with "Mutant" are slips of the code next to the
  definition they would replace; no action uses them.

## 3. The runs

| Run | Instance | Shows |
|---|---|---|
| `credit_ledger` | two requests of one agency, two cancels and an admin's refund of the *same* booking, prices 0 and 2, fees 1 and 2, a limit of 4, two runs of a transaction, the admin sets a status | `LedgerGapExplained`: the debt differs from the ledger by exactly the holds in flight or leaked, the credit given back and not recorded, and the admin's refunds, which are entered and lower no debt; `OneDebitPerBooking`: assertion 2 of `verify-ledger.ts`; `EntriesHaveBookings`: its converse; `UniqueBookingRefs`; `TypeOK` |
| `credit_account` | two requests, each booking cancelled by one call, limits 2 and 3, an admin's refund of an online booking, fairness | `ImplementsCreditAccount` (refinement of `CreditAccount`) and `HandlersEnd` (liveness) |
| `credit_assertion1` | one request, one cancel, no admin's refund | *violated*: `LedgerAssertion1`, assertion 1 of `verify-ledger.ts` between requests |
| `credit_debt` | two requests, two cancels | *violated*: `DebtCoversBookings` |
| `payments` | a top-up and a booking payment, one verify call, two webhook deliveries, two partial refunds | `PaidBeforeCredited`, `CreditedTwiceOnlyIfOverlapped`, `SuccessIsKept`, `DeductedWithinRefunded`, `WalletExplained`, `TypeOK` |
| `payments_idempotent` | one payment, one verify call, two deliveries | *violated*: `TopUpAtMostOnce` |
| `wallet` | an admin's top-up and refund, a settlement, an award and two redemptions among gateway payments and credit bookings | `WalletIsDue`, `PointsCoverRedemptions`, `TypeOK` |
| `wallet_settlement` | a settlement and credit bookings | *violated*: `DebtIsUnsettled` |
| `online` | one booking, two cancels, three refunds, and any status an administrator sets | `RefundFlagged`: what RUNBOOK.md's query for pending refunds finds; `RefundedIsReleased`, `ConfirmedIsHeld`: the booking against the supplier's room; `ProcessedIsPaid`, `ProcessedStays`: a refund is paid, and when it may be paid twice; `TypeOK` |
| `sessions` | two tabs, one with two requests and one with one, fairness | `RemovedHashStaysRemoved`, `RefreshTokenUsable`, `OneRefreshPerTab`, `QueuedBehindRefresh`, `TypeOK`; `RequestsEnd` (liveness): every request ends, but those queued behind a refresh that failed |
| `accounts` | four calls of any kind on one address, two wrong passwords before a lock | `GuessesBounded`, `NewestLinkWorks`, `LinkUsedOnce`, `DecisionTakesEffect`, `OutUntilActivated`, `OrphanStaysOrphan`, `TypeOK` |
| `pages` | each of twenty-one pages, two calls of its own, one made elsewhere, four loads | `ListShowsQuery`, `ShowsOwnWrites`, `OfferedIsAllowed`, `ClosedStays`, `TypeOK` |

`CHECK_DEADLOCK` is on in the runs of `CreditBooking`, `Payments`, `WalletAccount` and
`Sessions`; in the first three `Crash` can always be taken, so it says little, and what must
end is stated by `HandlersEnd` and `RequestsEnd`. It is off in `accounts`, `online` and
`pages`, which stop when every call they may make has been made.

### Bounds, and why they are enough

- *Two requests, two cancels.* Every hazard of the booking flow involves at most two calls:
  two racing for credit that affords one, or two cancelling one booking. Agencies share
  only the reference counter, so one agency is checked and the proofs cover any number.
- `Prices` contains 0 (refused by `atomicDeductCredit`) and an amount that the smaller limit
  affords once; `Fees` of `credit_ledger` are 1 and 2, so of a price of 2 a part or nothing is
  refundable; a fee of 0 differs from 1 in no branch and is in `credit_debt`. `Limits` of
  `credit_account` lets the admin lower a limit under an open hold; in `credit_ledger`, where
  the question is what is entered and not what is refused, it affords both requests.
- One refund by the admin: it waits at one of two awaits while anything else happens. A
  second one would be told apart from it in nothing: `PaidToWallet` is a sum over them, and
  the proofs have any number.
- `MaxAttempts`: `withTransaction` retries for 120 s; two runs show what a retry leaves
  behind, the bound is in the guards of `generateBookingRef` and `RetryTransaction`.
- `MaxWallet` bounds top-ups of a wallet that no other guard bounds (in `CreditBooking` and
  in `WalletAccount`; there the admin's calls go beyond it). `MaxOverpaid` of `WalletAccount`
  bounds how far below zero the debt is given back: by 4, a price and all it may be given
  back once more.
- `AdminStatuses`: "confirmed", which assertion 2 speaks of and which makes a cancelled booking
  one that can be cancelled again. Empty in the runs about the debt,
  where a status set by hand would be the cause of anything.
- `RefundAmounts` is 1 of a payment of 2: two refunds fit, three handlers more than the
  gateway accepts. `PointValues` is one value other than 1, so points and fils differ.
- In `wallet` the two redemptions are alike and interchangeable (`SYMMETRY`); the run checks
  no liveness. The same holds of `accounts`, `online` and `pages`.
- `online`: bookings do not meet one another, so there is one; two cancels overlap, and the
  third refund is what comes after two that overlapped. Prices are left out; a refund is of
  0 or of something, since an amount of 0 pays nothing.
- `accounts`: a call is used once. Every hazard is of two overlapping calls with one before
  them (a link, a failed login) and one after (the login or the reset that shows the harm).
  `MAX_FAILED_ATTEMPTS` is 2 where the code has 5: the count matters only through the last
  attempt before the lock.
- `sessions`: one tab with two requests gives a queue behind a refresh, and a request that
  is sent after a refresh failed; the second tab shares the cookies. Tokens expire at any
  time, and the password may be reset from elsewhere at any time.
- `pages`: `MaxLoads` is in the guard of `LoadNow`, `MaxPage` bounds the paginator, `Tabs`
  and `Words` are the filters and texts tried. Two loads out at once arrive in either order;
  two calls and a call elsewhere are what a stale button takes. A page with filters is cut
  by the constraint `SmallLists`: loads sent and calls made are at most 4 together, 3 with a
  search box that waits for its timer. So a list sees four loads, or two calls and two loads.
  The pages do not share state; every one of them is an initial state.

### Fairness

`FairSpec` of `CreditBooking` has weak fairness of `RequestStep(r)`, `CancelStep(k)` and
`RefundStep(a)`: an await of a running handler is answered, by the supplier or by the SOAP client's timeout of
60 s (`tbo.service.ts`), by the database or by its driver's limits, and Node then runs the
continuation. The answer may be a failure each time. Clients, admins and crashes owe
nothing and get no fairness.

`Spec` of `Sessions` has weak fairness of `RequestProgress(r)`: a browser gives every request
an answer or an error, and Angular runs the subscribers. The tabs' own actions (login,
logout, a page's next request) have none, which is why a queue left by a refresh that failed
may wait for ever: `RequestsEnd` makes the exception, and would be false without it.

## 4. What the violated runs show

1. `credit_assertion1`: `createBooking` deducts credit long before it inserts the booking and
   its ledger entry. In the trace the server stops right after the deduction: the debt
   stays, neither booking nor entry exists, and nothing resumes the request.
   `LedgerGapExplained` names the ways there are: a hold that leaks, in a crash like this one,
   when the compensation throws or when the transaction fails after the supplier
   confirmed; a cancel that gave credit back and failed to record it; and every refund of
   `refundBooking`, which is entered as a `credit_refund` and lowers no debt.
2. `credit_debt`: `cancelBooking` gives the credit back, writes the entry and saves the
   booking in three writes, against the README's "all credit/booking operations use Mongo
   transactions". A stop in between leaves a confirmed booking nobody owes for, and a
   second cancel gives its price back again.
3. `payments_idempotent`: the status test of `handleWebhook` is made on a copy and the save
   is unconditional, so two handlers that read before either saved both credit the wallet.
   `CreditedTwiceOnlyIfOverlapped` says that this, and a delivery after a refund, are the
   only ways.
4. `wallet_settlement`: `recordSettlement` never changes `outstandingBalance`, which the
   architecture document and the runbook say it does.

The properties that pass name other exceptions the same way, each a case that TLC finds when
it is left out: a booking the supplier answered without confirming is not flagged for a
refund (`RefundFlagged`); a lost answer of `book`, or a refused cancel, refunds a room that
is held (`RefundedIsReleased`); a refund stopped between its two saves is processed and not
paid (`ProcessedIsPaid`); overlapping cancels make a processed refund payable again
(`ProcessedStays`); overlapping logins delay the lock (`GuessesBounded`); two resets use one
link (`LinkUsedOnce`); an approval read before a rejection overrides it (`OutUntilActivated`);
an agency whose owner could not be inserted can never register (`OrphanStaysOrphan`); a
refresh that read the hash before a logout puts it back (`RemovedHashStaysRemoved`); a list
whose search box was typed back keeps the wrong answer (`ListShowsQuery`); a cancel is offered
for a booking without a supplier's reference, "refunded" as a status of a booking, and a form
may be sent with an empty date or a markup below zero, all of which the server refuses
(`OfferedIsAllowed`); a reply read
before a close opens the ticket again (`ClosedStays`).

## 5. What is proved

All theorems hold for every value of the constants that satisfies the assumptions named
in the modules: the sets of calls are disjoint, amounts are natural numbers, and
(`FinitenessAssumption` of `CreditBooking` and of `Payments`) the calls a server has received
are finitely many. The last is what a sum over them needs, and any run of the program up to
any moment satisfies it; it bounds nothing.

- `SumTheorems`: the properties about money are sums over sets, written with the library's
  `SumFunctionOnSet`, which is a fold. `SumIsTable` to `SumRecursion` show that the fold
  computes what its recursion says on a finite set; the induction is by a smallest subset
  on which the claim fails (`MinimalSubset`, from the well-foundedness of strict inclusion),
  so no induction theorem with an operator parameter is needed. `SumTakesOut` shows that
  the element taken out first does not matter. From these follow the lemmas the proofs cite:
  a change of one term changes the sum by as much (`SumChanges`), a new element adds its
  term (`SumAdds`), terms that are 0 may be left out (`SumRestricts`), sums are monotonic.
- `CreditBooking_proofs`: `TypeCorrect`, `RefsAreUnique`, `OneDebit`, `NoOrphanEntries`,
  `AccountImplemented`. The properties are not inductive: that a confirmed booking has one
  entry depends on where its request is and on nobody else having drawn its reference.
  `IInv` is `TypeOK` with `BookedInv` (a booking exists exactly when its request ended as
  booked), `RefInv` (references in use are distinct and at most `seq`), `CancelInv` (a
  cancel that is under way or has given back works on a booking that exists), `RefundInv` (so
  does an admin's refund, and its amount is positive) and `LedgerInv`
  (each entry is the one its author wrote, and each author that finished wrote it).
  `TypeNext`, `BookedNext`, `RefNext`, `CancelNext`, `RefundNext` and `LedgerNext` show each part kept by
  every step. `AccountImplemented` assumes `OneCancelPerBooking`: with two cancels of one
  booking the refinement is false, which is finding 2. It adds `HoldInv` (a held amount is
  positive) and maps each action to `Commit`, `GiveBack`, `ChangeCover` or a stutter.
- `CreditBooking_proofs`, the money: `GapExplained` states `LedgerGapExplained`, and is
  inductive together with `IInv` and a finite ledger (`GapInv`): `GapOfRequest`,
  `GapOfCancel` and `GapOfRefund` show, action by action, that debt, ledger, `Unbooked`,
  `Unrecorded` and `PaidToWallet` move together. `IInv` is needed for it: that an entry is new when it is written
  (`NoEntryYet`) is what makes the ledger's sum grow by its amount. `AssertionOneHolds` draws
  the conclusion for `verify-ledger.ts`: its Assertion 1, which finding 1 shows to fail, holds
  whenever no hold was leaked, no cancel's refund left unrecorded, and `refundBooking` wrote
  nothing. `DebtIsHeld` is proved of the
  *abstract* steps (`HeldInit`, `HeldNext` mention only `Account!Commit`, `Account!GiveBack`,
  `Account!ChangeCover`) and carried to the handlers by `AccountImplemented`: with one cancel
  per booking the debt is the sum of what the requests hold, hence never negative.
  `DebtGrowsWithinCover` needs no such assumption.
- `CreditBooking_proofs` and `Sessions_proofs`, the variants: liveness itself is beyond the
  prover, but the half of it that is about the code's loops is not. `HandlersAreBounded` gives
  each handler a rank (twice the runs its transaction has left, and where it is around
  them), which every step of the handler lowers and no step raises, and which is 0 exactly
  at its end; `RequestsAreBounded` does so for a request of a tab, which only its page
  sending it anew takes back. What stays with TLC is that a handler short of its end has an
  enabled step, and that fairness takes it.
- `Payments_proofs`: `TypeCorrect`, `CreditsArePaid`, `CreditedOnce`, `SuccessStays`. `PaidInv` ties a
  handler about to save SUCCESS to an authorised payment; `OpenInv` says
  that a payment is settled or paid back only after its page was opened, `RefundInv` that
  money is on its way back before the status says so, and `AloneInv` what a lone handler may
  rely on: while nobody overlapped it, the status it read has not become SUCCESS since, and
  the payment is credited only by the handler that wrote SUCCESS.
- `Payments_proofs`, the wallet: `WalletIsExplained` states `WalletExplained`, inductive with
  `TypeOK` and `TargetInv`. `DeductionsAreApproved` states `DeductedWithinRefunded`, which is not
  inductive: a handler deducts what PayTabs approved two steps before. `ApprovedInv` adds to
  what was deducted of a payment the shares that handlers still hold an approval for, and
  says that together they are within what was refunded. `WalletIsPaidFor` combines three
  invariants: while no payment was in two hands and none was paid back, the wallet holds
  at most what customers paid.
- `WalletAccount_proofs`: `TypeCorrect` (the wallet stays a natural number, the debt an
  integer), `WalletKept`, `PointsCovered`. `CopyInv`: a copy that nobody
  has overtaken equals the wallet. `RedeemInv`: while redemptions ran one at a time the one
  under way is alone and covered.
- `OnlineBooking_proofs`: all six properties of the run. `CreateInv`: a booking that is being
  made is not there yet, and what its supplier answered is known. `OpenInv`: a booking that
  can be cancelled has no refund. `CallInv`: a refund a call has read does not go away.
  `SavingInv`: a cancel about to save has released the room, or was refused. For `TypeOK`,
  `PaidInv`: there are no more refunds paid than calls that have ended, by cardinality.
- `Sessions_proofs`: all five safety properties. `HashInv`: while the hash is removed and no
  refresh overlapped that, none is between its read and its write. `LockInv`: `isRefreshing`
  is set exactly while the tab has a refresh under way, unless a failed retry reset it.
- `Accounts_proofs`: all seven properties. `LinkInv` (who holds a token, and that two who
  hold one are recorded), `DecisionInv` (a copy that no decision has overtaken is the state
  of the agency), `LoginInv` (while logins do not overlap, the counter has counted every
  wrong password), `OwnerInv` (an owner is being inserted only by the call that inserted
  the company).
- `Pages_proofs`: all five properties, for every page of the table. The lemmas `KindsOf`,
  `HandlersFit` and `PagesFit` establish what the table has to satisfy: buttons are of the
  page's kind, each handler keeps to the statuses of the kind it is used on, and what a
  button offers is accepted; `DtosFit` says of an update what its DTO takes of the page's
  choices, and names the two it does not. `AcceptInv`: what was read at the present revision
  is the present status. `QueryInv`: the newest load has the filters the page shows. `OwnInv`: a
  load sent after a call was answered reads the call's write or a newer one; with
  `RemovesInv` for the page that takes rows away, which loads once.

Every invariant and every action property of the passing runs is stated by a theorem. Only
model-checked: `HandlersEnd` and `RequestsEnd`, since liveness under fairness and `ENABLED` are
beyond the prover; their variants are proved. The four properties that runs show to be
violated have no theorem.

## 6. Not modelled

*On the server.*

- Read-only work: sums of the reports and statements, history queries, exports, the voucher
  PDF. The lists are modelled for what of a query they take, not for what they contain.
- Creations of tickets, pages, banners, roles and messages: single inserts that decide
  nothing. The documents of `Pages` exist from the start, but integrations (`updateConfig`).
- The award of points inside `createBooking` on credit (it changes no variable of
  `CreditBooking`; `WalletAccount` and `OnlineBooking` have the award), notifications of
  bookings, `webhookEvents` (an audit list nobody reads), `balanceAfter` columns, formatting
  and currencies.
- `payment.bookingId` is set by no online booking, so assertion 3 of `verify-ledger.ts` has
  nothing to find, and `createBooking` never reads the payment it is given: nothing links
  `Payments` and `OnlineBooking`, and the models are not composed for that reason.
- E-mail verification gates nothing. The processors of `JobsModule` have no work: nothing in
  the program adds a job to their queues.
- The hotel search cache is one key that is read, or computed and set for five minutes, with
  every Redis error ignored.
- The loyalty rules: the settings page never has the id of the active rule after a hotel was
  added, so it may make a second active one, of which awards take any.
- API secrets: `updateConfig` replaces the stored configuration by what the form holds.
  `Pages` models whether an integration is there and active.
- Users, audit log, encryption, seeds, deployment.

*In the front ends.* `Pages` has the pages that list or show documents with a status. The
rest are left out for one of these reasons.

- The hotel search and checkout of agencies do not fit the server: the search returns
  `{searchId, hotels}` where the page reads `results`, it sends `cityCode` where the DTO takes
  `cityId` and refuses anything else, details have no room options, and the online checkout
  posts fields that `create-order` refuses. No booking can be made through them; what the
  handlers do is modelled for any client.
- Pages whose calls the server has no route for or refuses whatever it holds: top-up and
  settlement of administrators (`/wallet/top-up`, `/settlements`), the role form, the edit
  form of sub-admins, the editor of pages, the refund of a booking (`amount` for
  `refundAmount`), the report of cancellations and exports as `xlsx`. Two of this kind are
  in `Pages` because their buttons are what the properties are about: the administrators'
  ticket page, which has no `GET` (`served`), and "refunded" offered for a booking.
- Reports read names the server does not send, and the notification pages' `markRead` filters
  by a user id that `JwtStrategy` never sets; shapes of answers are not modelled.
- Filters the pages send and no list takes (`Taken`): the search boxes of the bookings
  lists, payment method, priority and category.
- Dialogs for money, the wallet dashboard's balance and its redemption, downloads, profile
  and settings forms: one call, and its answer shown.
