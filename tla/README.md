# PropertyMarketOnline: a verification project

PropertyMarketOnline is a marketplace for properties and for the people who look
after them: a NestJS/TypeORM backend on PostgreSQL (`src/backend/src`) and a Next.js
frontend (`src/FRONTEND/property-market`). This directory models the parts of the
backend where requests meet (jobs, bookings and blocked dates, messages, reviews,
providers and their verification, e-mail tokens, maintenance tickets, notifications) and
the parts of the browser where answers come late (the notification socket and list, the
availability calendar, the messages page, searches, the session).

All handlers are `async`. None opens a transaction or takes a lock, so two requests
interleave at every `await`. Almost every handler reads a row, checks it, changes the
object in memory and calls `repository.save`. That is the source of nearly all that is
hard here, and the modules are cut exactly at these awaits. The pages are React
components whose handlers send a request and set state when it is answered; few of them
ask, then, whether the state is still the one they were sent from.

## 1. The system

### 1.1 Parts, state, operations

| Part | State | Operations that change it | Talks to |
|---|---|---|---|
| **Jobs** (`jobs/`) | `jobs` rows: client, provider, status, rating; `providers.completedJobs` | `create`, `updateStatus`, `updateProgress`, `addRating`, `assignProvider`, `acceptJob`, `startJob`, `completeJob` | emits events to the listener; writes the provider's row |
| **Bookings and availability** (`bookings/`, part of `properties/`) | `bookings`, `property_availability_blocks` | `create`, `updateStatus`, `cancel`, `blockAvailability`, `removeAvailabilityBlock`, deletion of a property | stores notifications; opens a conversation with the owner |
| **Messages** (`messages/`) | `conversations` (two unread counters, preview, block), `messages` | `createConversation`, `sendMessage`, `getConversation`/`markAsRead`, `blockUser`, `unblockUser`, `deleteMessage` | called by bookings |
| **Reviews** (`reviews/`) | `reviews` of providers; `providers.rating`, `reviewCount` | `createReview`, `updateReview`, `deleteReview`, `verifyReview`, `hideReview`, `unhideReview`, two responses | recalculates and saves the provider's row |
| **Providers** (`providers/`) | `providers`, `provider_verification_requests`, the user's role | registration, profile, `deactivateProviderProfile`, `createVerificationRequest`, `reviewVerificationRequest`, verify/reject/suspend/ban | counts jobs, changes users, mails |
| **Maintenance tickets** (`maintenance-tickets/`) | `maintenance_tickets`: status, provider, job | `create`, `update`, `assignProvider`, `updateStatus`, `linkJob`, `createJobFromTicket`, `remove` | calls `JobsService.create` |
| **Notifications** (`notifications/`) | `notifications`; `connectedClients` in memory; socket rooms | listener (events), `markAsRead`, `markAllAsRead`, `handleConnection`, `handleDisconnect` | pushes to browsers |
| **Notifications in the browser** (`use-websocket-notifications.ts`, dashboard pages) | socket reference, list shown, polling or not | connect, disconnect, push, fetch, mark | gateway, REST |
| **Availability calendar** (`AvailabilityCalendar.tsx`) | month, blocked/booked of that month, selection | fetch, click, change of month, block, unblock | `getAvailability`, `blockAvailability` |
| **Messages page** (`dashboard/messages/page.tsx`) | open conversation, its messages, the one being sent | select, load, send | `MessagesService` |
| **Searches** (providers page, category page) | filter, results | search on every change of the filter | listings |
| **Session** (`auth.store.ts`, `api.ts`, OAuth callback) | store, `auth-storage`, token in `localStorage` | login, registration, logout, refresh, page load, a 401 | every request |
| **Property listings** (`properties/`) | `properties`, views | create, edit, view | |
| **Property reviews** | `property_reviews` | create, update, delete, owner's response | |
| **Favorites, categories** | pairs / a list | add, remove | |
| **Payments** (`payments/`) | `payments`, `payment_methods` | cannot run at this commit: both entities are missing from `config/database.config.ts` | |
| **Users, auth, email verification** | `users`, tokens | accounts, roles, login | all |

`PROJECT.json` lists every one of these under `components`, with the reason where it
is not modelled, and under `hazards` what is hard to test, each at its line.

### 1.2 What is hard, and what makes a part correct

* **The save that takes back.** TypeORM's `save(entity)` selects the row again, takes
  the columns in which the object differs from it *now*, and updates those. An object
  read before somebody else's update therefore undoes that update, column by column. If
  the row is gone, `save` inserts it again. A loaded relation wins over a foreign key
  column that was assigned. All of this is in the models (`Diff`, `Update`, `Reinsert`,
  `AssignProvider`); none of it is visible in the services' code.
* **Check, then act.** `create` and `blockAvailability` look at each other's table and
  then insert into their own; a conversation is searched for and then created.
* **Two statements that belong together.** Counter and job, message and counter, review
  and figures: a process may die, or another request may run, in between.
* **Shared rows.** `providers` is written by jobs, reviews and the providers' service.
* **Answers out of order.** Two loads, searches or fetches of a page answer in any order;
  an answer to a request of the last month, conversation or session sets the state of the
  present one.
* **What awaits an import or a token.** The hook stores its socket after an awaited
  `import()`, the gateway records a client after an awaited verification: what is to
  clean up may run before there is anything to clean.
* **Missing conditions.** `updateProgress` and `updateStatus` (for some targets) look at
  no status; the cancel route of bookings has no guard.

What correctness can mean here is mostly *conditional*: the state is right unless a
precisely stated accident happened. The modules carry **history variables** that record
just these accidents (a stale save, a lost notice, two creators searching in vain).
No action reads them, so they restrict nothing; the properties say that **nothing but**
the recorded accident breaks the promise. Each property is tested with a mutant of the
code that breaks it (`mutants` in `PROJECT.json`).

## 2. The modules

### 2.1 `Jobs`, and the abstract `JobLifecycle`

`job[j]` is the row, `completedJobs[p]` the provider's counter, `req[s]` the request
served in slot `s`: its program counter is the await it stands at, `row` is the object in
memory. `Create` is one step, since users and providers do not change here. The other
handlers read and check in one step (`UpdateStatus`, ..., `CompleteJob`), then go through `FindProvider`,
`SaveProvider` (`completeJob` only), `Diff`, `Update` and `Respond`, where the event is
emitted. `Abort` is a failing database call or the death of the process at any of these
points. `fired` holds only events that tell somebody: the listener stores nothing for
`job.rejected`, `job.cancelled` and `job.status.updated`. Not modelled: texts, prices,
images (but for the second insert without them, which emits nothing), `scheduledDate`.

`JobLifecycle` is what the testing guide promises for one job at a time: pending,
accepted, in progress, completed or cancelled; a provider chosen once; a rating after
completion. It promises it for *tame* jobs. A job turns `wild` in `Jobs` when a request
updates it from a stale read, or uses `updateProgress`, an unconditional target of
`updateStatus` or an administrator's override. `LifecycleKept` says that `Jobs`
implements `JobLifecycle` under this mapping.

* `TracesOfTheStatus`: a rating, and the announcement of an acceptance or a start,
  trace back to a status the job really had, wild or not.
* `CounterMatchesAnswers`: `completedJobs` never exceeds the completions answered or
  still at work, and equals them unless two raced for the counter.
* `TameStays`: a tame job stays completed or cancelled, and keeps its provider. That it has a
  provider when somebody works on it (`TamePromise`) follows from `LifecycleKept`; it is proved.
* Violation `CompletionAnnounced`: the guide lists `job.completed`; no code emits it.

### 2.2 `Bookings`

One property, its bookings and blocks. `Create` and `BlockAvailability` are the checks,
`Insert` and `InsertBlock` the inserts; `Save` writes the one column that differs
(status), so re-read and update are one step; `NotifyOwner` and `NotifyUser` follow.
Dates are days `1..LastDay`; a booking's dates may be inverted, as in the code, and are
`NoDates` for viewings and inquiries. `DeleteProperty` takes the rows with it, as the
foreign keys of migrations 021 and 028 say (`ON DELETE CASCADE`); on a development
database built by `synchronize` the deletion simply fails. The conversation that
`create` opens belongs to `Messages`.

* `BlockedMeansFree`: a pending or confirmed booking and a block overlap only if
  neither was checked against the other: they raced, or the owner reopened a closed booking.
* `NotificationsFollow`: the user's last notice tells the booking's status and the owner
  has heard of every booking, unless a notice was lost or two updates overlapped.
* Violation `OwnCancelAccepted`: the controller says users with an account may cancel;
  the route has no guard, so the service never learns who calls and refuses them.

### 2.3 `Messages`

`conv[c]` is the conversation's row, `log[c]` its messages. Starting, sending, reading
and unblocking are cut into their statements (`StartConversation`/`SendTo`/`Send`,
`CreateConversation`, `Lookup`, `InsertMessage`, `Bump`; `Read`, `MarkMessages`,
`ResetCounter`; `UnblockUser`, `LiftBlock`). The counter is incremented by the database.
`getConversation` and `markAsRead` do the same after their checks and share `Read`; a
stranger may call `markAsRead` and is treated as participant two, which `SideOf` does too.
Not modelled: `deleteMessage`, which touches neither flag, counter nor preview, and
`createGuestInquiryMessage`, which nothing calls.

* `OnePerPair`: two conversations of a pair exist only if both creators searched in vain.
* `UnreadCounterRight`: counter plus messages being counted equals the unread messages,
  unless sending and reading met or a request died half way. Conversations
  with oneself, where both counters mean the same messages, are left out.
* `PreviewIsNewest`: the preview is the newest message once sends are done, unless an
  update was overtaken or never came.
* Violation `BlockStands`: only the user who blocked can unblock, says `unblockUser`;
  but the other participant's block replaces the name, and may then be lifted.

### 2.4 `Reviews`

The reviews of one provider and the figures in the provider's row, which
`recalculateProviderRating` adds up in further steps of the same request
(`FindReviews`, `FindProvider`, `DiffProvider`, `UpdateProvider`). `completeJob` saves the
same row and is here from its read of the provider on. Ratings and mean are in
hundredths, as the columns `decimal(3,2)` hold them and `toFixed(2)` rounds; a mean just
between two goes up here, while in the code its binary fraction decides. A rating or mean just computed is a number while the column
comes back as a string, so these columns always count as different and are always
written. The provider's row exists throughout. Comments and the verified flag are
abstracted, the saves that write them are not: they too bring old values back. The checks on
the job a review names are left out: a job's second review would be the reviewer's second.

* `FiguresRight`: when nobody has still to recalculate, the figures are those of the
  visible reviews, unless the last recalculation was overtaken or lost, or an
  outdated save without a recalculation came after it. TLC found that last case: verifying or answering a
  review can un-hide it, or bring a deleted one back, uncounted.
* `CompletionsKept`: no recalculation takes a completion back while nobody saves an
  outdated object.
* `OnlyAsAsked`: out-of-date saves apart, a review is hidden and shown by a moderator,
  rated by its author, its response replaced by `updateProviderResponse` alone, and it
  stays deleted.
* Violation `HiddenStays`: "Admin can hide inappropriate reviews", until a save that had
  read the review before shows it again.

### 2.5 `Providers`

`role[u]` is the role in the user's row, `profile[p]` the provider's row, `vreq[v]` a
verification request, `req[s]` the request at work in a slot, `job[u]` whether the user has
an active job, only jobs that are over, or none. Registration (both ways), `syncUserRole` and
`deactivateProviderProfile` are cut at every await: role and profile are two rows written
one after the other, and a failed update of the role is only logged
(`RoleUpdateFails`). Every save of a profile is `Diff`, then `Update` or `Reinsert`. A
review of a verification request writes the profile first and the request last. Deleting
a profile takes its verification requests with it (migration 012). A job comes to a user in
three ways (`GiveJob`): `create` asks for a profile or for the role of a service provider or
a property manager, `assignProvider` for a profile, and `updateStatus` and `updateProgress`,
which open a job again, for nothing. So a job says nothing about a profile; what the
code promises is the reverse, that deactivating spares whoever has an active one. Texts, prices, pictures
and documents are abstracted; the saves that write them are not (`UpdateProviderProfile`).

* `DecisionsStand`: a stored profile is what its saves asked for, one after another,
  unless an outdated object was saved.
* `OnePending`: one pending verification request for a profile, unless two searched in vain
  together, or a review that met another brought one back.
* `VerdictsAgree`: an approved request has verified its profile and one not approved has
  not, unless two administrators reviewed it at a time, a review died half way, or the
  profile was removed meanwhile.
* `RoleFitsProfile`: while no request about the role is at work, a profile comes with the
  role of a provider or an administrator and the role of a provider with a profile, unless
  two requests met, an update failed or an administrator chose the role.
* `JobKeepsProfile` (of each step): a user with an active job keeps the profile, unless a
  job was given, or the role changed, while the profile was being deactivated.
* Violation `AdminsKeepRole`: "Admins can have provider profiles while keeping their admin
  role", says `registerProvider`; `syncUserRole` takes it.

### 2.6 `EmailTokens`, `Tickets`

`EmailTokens`: the verification columns of a user's row, the inbox, the calls. Sending is
an `UPDATE` of the token, then the mail; opening a link and saving a profile are read and
save. An address with a plus sign arrives at the link's page as one with a blank (the page
does not encode it), so its link never verifies. `VerifiedStays`, `NewestLinkCounts`: a
verified address stays verified and the newest link counts, unless an old object was saved
over the row, or two mails were under way at once or one got lost.

`Tickets`: the row (status, provider, job) and the jobs made from tickets. One `PATCH`
(`UpdateTicket`) may name a status, a provider and a job, or null for the keys. The ticket's
`ownerId` is set by nobody, so of the checks on it only an administrator passes. Handlers
load provider and job with the ticket; TypeORM's `save` believes the relation and ignores
a key assigned beside it (`Stores`). `AnswersTrue`: the row is what the last
answer showed, unless a provider or job was assigned to a ticket that had one, or an outdated
object was saved. `JobsLinked`: a job made from a ticket is the ticket's, with the same
exceptions and the death of the request between the two saves.

### 2.7 `UnreadCount`, `NoticeList`, `Sockets`

`UnreadCount`: one user's rows, and `markAsRead` as save, count, push. `CountRight`: the
count pushed last is right once nobody is marking, unless a notification was stored since, a
marking died, or it overlapped another.

`NoticeList`: the same rows with the list a dashboard keeps. A fetch is served the newest
`Limit` rows (50 in the code), so an older one is `Beyond` reach: a fetch drops it from the
list, with no failure at all, though a push may have shown it. The list is replaced by a
fetch, by the answer to a click (with the list *of the click*), put in front of by a
push, and emptied by a failure, also of the jobs'. `ShownStays`: what was shown stays, and
stays read, unless it is beyond the limit or one of these replaced it by something older.
`PollingShows` (liveness): a page that polls shows again and again all that is stored, as far
as a fetch reaches.

`Sockets`: the hook's two effects, the connections, and `NotificationsGateway`. The
dashboards pass the hook a new callback on each render, so every render closes the socket
and opens another; that is also what ends it being disconnected, since socket.io
gives up after `reconnectionAttempts` and only the polling makes the page render. The
polling asks nothing of the socket: its answer may close one that is connecting or retrying
(`PollRender`). The import of the library may fail, which leaves the hook with an error and
no socket (`ImportFails`).
`PresenceRight`: the gateway has a user online exactly while it has admitted one connection of
theirs, unless it had two, or one closed while its token was verified. `NoStraySockets`: the
page leaves no connection behind unless two `connect`s overlapped. `SocketComesBack`
(liveness): a page that stays open is connected again and again.

### 2.8 `Calendar`, `ChatPage`, `Searches`, `Session`

* `Calendar`: month, dates held, selection, requests; the server's three handlers in one
  step each (their races are in `Bookings`). `DatesOfMonth`: the grid shows the dates of its
  month, unless fetches overlapped or failed. `SelectionFree`: the selected dates
  share no day with a range the server had when it answered, wherever that range begins.
* `ChatPage`: the open conversation, its loads, of the newest `PageSize` messages (100 in
  the code), and the one message being sent.
  `SentOnce`: no message is listed twice, however loads and the answer to the send
  interleave. `OwnMessages`: the messages are those of the open conversation, unless two
  loads overlapped.
* `Searches`: the providers page, which ignores what its cleanup has overtaken
  (`guarded`), and the category page, which does not (the map of properties searches the
  same way as the latter). `ResultsFit`.
* `Session`: the store, the token, page loads, the interceptor on a 401, in one tab.
  `UserMatchesToken`, `LoggedOutStays`: user and token are one person's, and a logout
  lasts, unless an answer to an earlier request was applied in between. Noted on the way:
  a wrong password is a 401 too, and the second block of the interceptor answers it by loading
  the login page again; `refreshProfile` logs out on any failure, though its comment
  speaks of 401 and 403.
* Violation `PublicPagesStay`: two comments of `api.ts` say that a visitor of a public
  page is not redirected; the first block of the same interceptor redirects.

`MCServices` puts `Providers`, `EmailTokens`, `Tickets`, `UnreadCount` and the four of 2.8
side by side, and `MCBrowser` `Sockets` and `NoticeList`. They share no state, so each
behaviour is of one part (`part`): the sum of their state spaces, not the product.

## 3. The runs

| Run | Instance and bounds | Distinct states | Shows |
|---|---|---|---|
| `jobs` | one job, a client, two providers, an administrator, two slots, `MaxRequests = 5` | 2.8 M | type, two invariants, refinement, one action property |
| `jobs_events` | the same | - | `CompletionAnnounced` fails |
| `bookings` | one booking, two blocks, a user and guests, two slots, two days; requests unbounded, every key given out once | 6.6 M | type, two invariants |
| `bookings_cancel` | the same | - | `OwnCancelAccepted` fails |
| `messages` | three users (one a stranger), two conversations, two slots, `MaxRequests = 4` | 1.1 M | type, three invariants |
| `messages_block` | the same | - | `BlockStands` fails |
| `reviews` | reviewer, provider, administrator; two reviews, ratings 2.5 and 5, two slots, `MaxRequests = 4` | 1.5 M | type, two invariants, one action property |
| `reviews_hidden` | the same | - | `HiddenStays` fails |
| `services` | providers: one user, two profile keys, two verification requests, two slots, five requests. E-mail: two accounts, one with a plus sign, two tokens, two calls, one save. Tickets: one ticket, two jobs, two workers, two slots, three requests. Unread count: three rows, two markings. Calendar: two months of two days, two requests of which one changes, one range. Messages page: three messages, two to a load, two loads. Searches: two filters, three in flight. Session: two people, two requests in flight | 1.46 M | types, sixteen invariants, one action property |
| `services_admin` | the same | - | `AdminsKeepRole` fails |
| `services_public` | the same | - | `PublicPagesStay` fails |
| `browser` | sockets: one opening of the page, three connections on record, one render of its own and those of the polling, one `connect` waiting for the import while polls answer, two failures, two attempts; list: two notifications of which a fetch takes one, two requests in flight, one failure | 1.45 M | types, three invariants, two liveness properties |

Why this is enough to be worth something: every race in this code is between two
requests about one row (or one pair of rows), so two slots show it; five requests let a
job run through its life and be raced once more, four let two reviews or two
conversations come into being and be disturbed. Two days give equal, touching,
contained, disjoint and inverted dates. `MaxRequests`, the keys and `LastDay` are the only
bounds; the proofs below do without them. Symmetry is used over slots, keys, and users
where they play the same part.

For the browser: answers come out of order as soon as two requests are in flight. One range in the
calendar, over the end of the first month, is the case the selection is about (`assured`
against what another month's answer held); the theorem has any number. Three connections on record are
needed, not two: with two the bound itself would keep the page from opening a third while two
old ones are closing, and `SocketComesBack` would say something about the bound.
Two attempts and two failures let a socket give up, and let a poll's answer close one that
is still trying. `MaxWaiting` bounds the `connect`s that wait for the import of the library
while polls answer; the code has no such bound, but the import takes less than the ten
seconds between two polls. A fetch takes one of the two notifications, so that one does fall
beyond it; with three of which it takes two `ShownStays` has been checked too (6.7 M states).

**Deadlock** is not checked: when the bound is reached and all requests are answered
the system rests, as a server without visitors does.

**Liveness** is stated where the code has something that makes it happen: the interval that
polls every ten seconds, the renders that reopen the socket. These are all the assumptions:

* `NoticesFairness` (weak): the interval of a page that polls fires, and a request sent is
  served and answered (or fails, which is bounded).
* `SocketsFairness`, weak: React renders when state has changed (`Rerender`), the interval
  fires and its answer renders (`PollRender`), the import of the library ends
  (`FinishConnect`; it may also fail, a bounded number of times), and the gateway finishes a verification and handles a
  disconnection.
* `SocketsFairness`, strong: of the connections that try again and again, one gets
  through (`Reach`, then `Connected`). It has to be strong, because each poll may close the
  socket that was about to be connected and open another; it says that the network connects
  a socket within the ten seconds between two polls again and again, not each time. On a
  network that never does, the page is never connected, in the model as in the code.

Nothing is assumed of users, failures or tokens: an expired token is refused again and again,
and connects each time before it is. In the backend a request may die at any await
(`Abort`), nothing retries, and no loop, queue or timer promises that something happens
eventually; fairness on the handlers would be an assumption the code does not justify,
and their specifications are `Init /\ [][Next]_vars`.

## 4. The proofs

Checked by TLAPS for every number of users, rows and concurrent requests. The assumptions
are the modules' `ASSUME`s (`ConstantsAssumption`, `BookingsAssumption`,
`MessagesAssumption`, `ReviewsAssumption`, `ProvidersAssumption`, ...): admins, owners and
profiles are users, `None` is none of the keys, slots (or reviews, or rows) are finite where
something is counted. TLC evaluates them in every run.

* **`JobsProofs`**: `TypeCorrect`, `TracesTrue`, `TamePromiseKept`, `Refinement`,
  `TameStaysKept`, `CounterCorrect`. `Typed` adds to the type that a request at work is
  about a job and holds a row; `Traced` adds `Honest`: a request carries a rating only if
  the job has been completed, aims at its operation's status, and announces only a status
  the row has had, because its own save put it there or found it. `Lively` adds to the
  promise that the objects of requests neither stale nor overriding (`Fresh`) are the row
  with one legal move made; each step of `Jobs` then maps to one of `JobLifecycle` or to a
  stutter (`NextMaps`), and `TameStays` follows from the abstract specification. `Counting`
  adds what a request about to save the counter holds (`Writes`): one more than the counter
  if nobody saved it since, and never more than one above the completions. `CounterCorrect`
  is about the handlers of jobs: the same row is saved by reviews (see `CompletionsKept`)
  and by the providers' service, whose saves `Providers` models without this column.
* **`BookingsProofs`**: `TypeCorrect`, `KeptApart`, `NoticesRight`. `Apart` adds that the
  dates a request is about to insert overlap nothing it has seen that is still there, and
  that keys are given out once; `Follows` ties the status a notice is about to tell to the
  booking's.
* **`ReviewsProofs`**: `TypeCorrect`, `ChangedAsAsked`, `FiguresCorrect`,
  `CompletionsCorrect`. `FreshSave`: the object of a save that is not stale differs from the
  row at most in the column its operation is about. `Accurate`: what a recalculation that is
  not stale has added up is what is visible now, and the provider it holds is the row with
  these figures. `RatingStaysInRange`: the rating saved is 0 or between one and five stars,
  and 0 exactly when the row counts no review, once the figures are to be trusted. That the
  sum of n ratings lies between n and 5n stars is an induction over the number of reviews
  (`SumBounds`); that it survives the two roundings is `RoundedMean`.
* **`MessagesProofs`**: `TypeCorrect`, `OneConversationPerPair`, `PreviewOfNewest`,
  `BadgeIsUnread`. `Typed` adds that a request at work is about a stored conversation and a
  sender is one of its participants; `Searches` that a request about to create has seen no
  conversation of its pair; `Previewed` that every message after the one previewed has a
  request that is about to preview it. `Agrees` says what holds while somebody is between
  marking and resetting: nothing is unread and nobody is counting. Only `CreateConversation`
  changes participants, so for every other step the sides, the pairs and the sets of
  requests counted are those before it (`SameSides`, `ResettingStep`, `CountingStep`).
* **`ProvidersProofs`**: `ProvidersTypeCorrect`, `ProvidersDecisionsStand`,
  `ProvidersOnePending`, `ProvidersVerdictsAgree`, `ProvidersRoleFitsProfile`,
  `ProvidersJobKeepsProfile`. Four
  inductive invariants over the same lemmas about how requests begin and move on. `Typed`
  adds what a request is about by how far it has come (`Coherent`), that keys are given out
  once and a user has one profile (`Tables`), and that a profile held was once its user's
  (`Linked`). `Decided` adds that the object of a request that is not stale is the row with
  the operation's change made (`Fresh`). `Judged` adds that a submission that is not stale
  still finds nothing pending (`Sure`), that two reviews of one request are recorded
  (`Alone`), and that only filed requests are decided (`Filed`). `Settled` adds, user by
  user, what a request that has met no other may rely on at each stage (`Stage`), for
  instance that `remove` removes the only profile of a user without an active job; a step touches no
  other user's part (`Touches`), and its own user's either nobody else is at work on
  (`SettledAlone`) or is left as it was (`SettledShared`). `ProvidersJobKeepsProfile` needs
  one lemma more: no step but `remove` takes a profile from its user (`ProfileStays`).
* **`BrowserProofs`**: types, and `UnreadCountRight`, `CalendarDatesOfMonth`,
  `CalendarSelectionFree`, `SearchesResultsFit`, `SessionUserMatchesToken`,
  `SessionLoggedOutStays`, `ChatSentOnce`, `ChatOwnMessages`, for any number of requests in
  flight, months, ranges, people and messages. The invariants say what each request in
  flight would set if it were answered now, and that it is recorded when that is no longer
  right. `ChatInv` adds that a message is stored once (`StoredOnce`), that only written ones
  are listed (`ListedWritten`), and what an answer that is on its way holds (`LoadsRight`).
  `FilteredPicks` is the lemma the page rests on: what `Filtered` keeps of a sequence of any
  length is exactly what it is to keep, in its order.
* **`ServicesProofs`**: `EmailTypeCorrect`, `EmailVerifiedStays`, `EmailNewestLinkCounts`,
  `TicketsTypeCorrect`, `TicketsAnswersTrue`, `TicketsJobsLinked`, `PartsTyped`. `EmailInv`
  adds what a save holds (`Holds`: a verification is about to set the flag, a profile nobody
  has overtaken changes neither column) and, account by account, that mails which never
  overlapped are sent one at a time with the token of the row (`MailedOneByOne`).
  `TicketsInv` adds that only tickets that were filed have rows, requests and jobs
  (`OnlyFiled`), and that the object of a request keeps the job the row has had since it was
  read (`Carries`). `EachPart`: a behaviour of `MCServices` is a behaviour of each of its
  eight parts, so their theorems hold of the composition the run checks, and `PartsTyped` is
  the conjunction of their types.
* **`SocketsProofs`**: `SocketsTypeCorrect`, `SocketsPresenceRight`, `SocketsNoStray`,
  `NoticesTypeCorrect`, `NoticesShownStays`, `BrowserTyped`. `SocketsInv` adds that two
  connections are admitted only when that is recorded (`AdmittedOnce`) and that a `connect`
  which met no other is the only one to have left something behind (`ConnectsAlone`).
  `ShownStays` is proved for every limit and any number of notifications beyond it.
  `NoticesInv` adds that the list is never ahead of the rows (`ListBehind`), that only what
  is stored is pushed (`PushesStored`), and what a request in flight would put into the list
  if it were answered now (`ErrandRight`).

Each proof is the usual one: the invariant holds initially, every action keeps it (one step
per action), it implies the property. The strengthened invariants were checked by TLC on the
instances of the runs before they were proved.

Further assumptions on constants the proofs use, all in the modules' `ASSUME`s: there is an
account at all (`Accounts # {}`, else the request that is nobody's has no account to name),
keys of jobs and keys of tickets are different things (`JobKeys` and `TicketKeys` are
disjoint, as values of two columns of two tables), and a rating is from 1.00 to 5.00 in
hundredths, as the DTOs' `@Min`, `@Max` and the column `decimal(3,2)` demand.

Two ways around the prover's limits, for a reader who wonders. Induction over the numbers is
stated with a set (`InductionOnNat`, from the library's `WFMin`), since the theorem with a
predicate as parameter cannot be instantiated; that suffices for `Filtered` and for the sum
in `FoldFunction`. And `Filtered` is a recursive function of our own because the standard
`SelectSeq` has no definition the provers can expand.

**Only model-checked** are the two liveness properties, `SocketComesBack` and
`PollingShows`: fairness and `ENABLED` are out of the prover's reach. The six properties
expected to fail have no theorem, of course. Every other property of a run is a theorem.

## 5. Not modelled

* **Property listings** but for the availability handlers and deletion, **property
  reviews**, **favorites** and **categories**: calls that write one row and decide nothing from
  another table, kept right by unique indexes; averages of property reviews are computed on each read.
* **Payments**: cannot run at this commit (both entities are missing from the configuration).
* **Infrastructure**: e-mail, uploads, health, configuration, migrations and the exception
  filter are I/O and wiring. What migrations say of keys and indexes is in the modules.
* **The rest of the frontend**: about three fifths of the implementation is forms, markup and
  styling; a model of it would have no state that anything depends on. The decisions pages
  take from answers that come late are modelled in four of them, and the sockets and list
  for the user's dashboard; the provider's dashboard repeats them. One tab is modelled;
  two tabs share the token but not the store.
* Within modelled parts: the deletion of an account, which takes the profile along
  (migration 007), so the promises of `Providers` are those of accounts that stay; texts, prices, pictures, wording and e-mails; past days and the hover
  preview of the calendar; the list of conversations with its figures; the sound of a
  notification (which rings for those of the first fetch as well); `deleteMessage`, which
  replaces a message's text and nothing else.

What would come next: one module for the row of `providers` with all its writers (jobs,
reviews, profile, verification), as the composition that `CompletionsKept` begins; and a
second tab in `Session`.
