# Verification of the AXENTYC backend

TLA+ models of the parts of this NestJS/MongoDB backend where requests,
webhooks, cron jobs and third parties meet, model-checked with TLC, and proofs
checked with TLAPS. `PROJECT.json` lists components, runs, mutants, hazards
and theorems, and maps every definition to the lines it models; this file says
what it all means. Paths below are relative to `src/src/`.

## 1. The system

One Node process serves many accounts (tenants). State lives in MongoDB; a
service method loads documents, awaits, decides and writes. Nothing is locked
and no transaction is used: between any two `await`s any other request, webhook
or cron job may run. The database guarantees the atomicity of one update of one
document, unique indexes, `$push`/`$inc`, and Mongoose's version check when a
list is assigned. A restart loses memory (`igLastPoll`, `syncing`, viewers), not
documents. Third parties (Meta, Stripe, IMAP) repeat and reorder what they say.

| Component | State | Operations | Talks to |
|---|---|---|---|
| Meta ingestion (`facebook/`) | messages, conversations, claims, `igLastPoll` | webhook message, poll every 20 s, claim and release | Graph API; automation event, sockets |
| Meta connections, comments (`facebook/`) | social accounts, comments | connect, disconnect, comment webhook, comment sync | Graph API, billing limits |
| Conversations (`conversations/`) | conversations, messages, unread count | send, read, delete, widget message | Meta send, sockets, billing |
| Chat widget (`chat-widget/`), events (`events/`) | widget configuration, who is viewing | visitor message, rooms | conversations |
| Billing (`billing/`) | `tenant.subscription`, `tenant.status`, limits | change plan, cancel, reactivate, Stripe webhook, limit checks | Stripe; every create operation asks it |
| Billing notices (`billing/`) | `billingNotices` | daily check, legacy migration | mailer |
| Invoicing (`invoicing/`) | sales documents, counters | create, update, send, pay, void, delete, convert quote | deals, mailer, automation event |
| Automations (`automations/`) | rules, runs | event, cooldown, actions | conversations, CRM, activities |
| Mail (`emails/`, `integrations/`) | mails, mailboxes, loops | synchronise, send, delete, connect, default | IMAP/SMTP, sockets |
| Auth, users, memberships, workspaces | users, invitations, reset links, members | register, invite, accept, switch, recover | billing limits, mailer |
| CRM, activities | contacts, leads, deals, tasks, notes | CRUD, convert lead, reminders | automation event |
| Tenants, reports, push, upload, common | | CRUD, read-only, or I/O without state | |

What is hard in each, and what would make it correct, is in "hazards" of
`PROJECT.json`, at the line where it bites. In one line each:

* **Ingestion** - one message reaches the server by webhook (perhaps twice) and
  by polling, handlers fail, the server restarts: stored once, announced once,
  never lost.
* **Billing** - snapshots in webhooks, re-delivery, overlapping requests, whole
  `subscription` written back: nothing is had without paying, and the account
  ends up where Stripe is.
* **Invoicing** - read-modify-write of money by several requests: the payments
  are the truth, what was sent does not change, numbers are unique.
* **Conversations** - status of a message (sent, delivered, read, failed) is
  written by four parties; unread counts and deletions are two writes each.
* **Comments and pages** - webhook and poller find one comment by different keys;
  the records of a connection and what Meta sends are changed one after the other.
* **Widget** - a page that loses events and loads them again, and two requests
  that each believe to be the first.
* **Automations** - rules trigger rules; cooldown and "already has one" are
  check-then-act.
* **Mail** - two kinds of synchronisation pass over one folder, a user's change
  in between, a mailbox that is removed meanwhile, a loop that outlives it.
* **Reminders** - a pass marks after it tells; two rounds of notices may meet.
* **Access** - invitations are checked first and consumed last; capacity is
  checked at a different time from the one it is used.

## 2. The modules

| Module | Models | Notes |
|---|---|---|
| `MetaIngest` | inbound Instagram messages: webhook, polling, claims | refines `Inbox` |
| `Inbox` | what ingestion promises: each id stored once, then heard of once | abstract |
| `Outbound` | a reply on its way to Meta, and what comes back of it | |
| `Widget` | a visitor's page, its requests, agents, the gateway | |
| `Comments` | public comments: webhook, pollers, replies | |
| `Pages` | page connections and the subscriptions at Meta | Meta is external |
| `Mailbox` | one mailbox: synchronisation passes, other clients, a user's requests | |
| `MailAccounts` | the mailboxes of an account, their loops, the start-up | |
| `Invoice` | one invoice, its payments and every operation on it | |
| `Quotes` | numbers, and a quote becoming an invoice | |
| `Subscription` | the tenant's copy of its Stripe subscription, access, limits | Stripe is external |
| `Reminders` | due tasks, billing notices, the migration of a start-up | |
| `Automations` | rules, and the leads and deals made by them and by users | |
| `Access` | registration, invitations, memberships | |
| `Sessions` | passwords, reset links, tokens | |
| `Workspaces` | workspaces, and the adoption of records that have none | |
| `MC*` | small instances for TLC | |
| `*Proofs` | the theorems; `ConversationProofs` has those of `Outbound` and `Widget`, `AccessProofs` those of `Access`, `Sessions` and `Workspaces`, `WatchersProofs` those of `Comments`, `Reminders` and `Pages`, `ServicesProofs` those of `Quotes`, `MailAccounts` and `Automations` | |

Four instances hold several components. `MCConversations` has `Outbound` and
`Widget` (whose `pc` is `phase` there, and whose `Outbound` is `Answers`);
`MCAccess` has `Access`, `Sessions` and `Workspaces`; `MCWatchers` has `Comments`,
`Pages` and `Reminders`; `MCServices` has `Quotes`, `MailAccounts` and
`Automations`. The parts of one
share no state that the code decides on (a comment and a page connection meet
in the account record only, and `Comments` has its own copy of that), so in a
behaviour one part is at work and the others stand still; what would interleave
is inside a part. Each part starts in one of several *scenes*: initial contents
and a budget of what may happen (so many requests, faults, restarts ...). A
scene is chosen for a race, and every order of what it allows is explored.
They leave the sets and durations of the parts they are
proved about to the configuration (`Second`, `AccessLife` ..., `Names`, `MaxActive`, `Boxes` ..., `Tasks`, `Accounts`,
`Tenants`, `FacebookPages`, `LinkOf`, `Limit`, `Requests` ...; `MaxBoxes`, `Places`,
`Addresses`, `Calls`; `MaxRules`, `TriggerOf`, `ActionsOf`, `PersonOf`, `Plans` ...), so that a theorem about such an instance speaks of any of
them.

Common conventions. A request or handler is a *worker* with a program counter;
each action is the code between two awaits, so everything that may interleave
does. Reading a document and deciding on it is one action when nothing is
awaited in between. What a worker holds in memory across an await is a variable
(`loaded`, `edited`, `snap`, `number`), and a save says which of it is written:
all of it, the modified fields, or a list under the version check. `Fail` (and
the fault actions of `MetaIngest`) stop a handler at an await: an exception, a
refused call or a dead process. Mutated forms of an operator stand before it,
with the bug they stand for; they are not part of any specification.

### MetaIngest

`claimMetaEvent` is three awaits: the insert, which the unique key may refuse
(`ClaimInsert`, `ClaimDuplicateKey`), then the conditional take-over of a stale
claim (`ClaimTakeOver`, `ClaimRefused`); when the collection cannot be reached
the caller goes on without a claim (`ClaimUnavailable`). A webhook call goes
claim - check - resolve - twin - save - count - announce, and an exception after
the check gives the claim back (`HandlerThrows`, `releaseMetaEvent`); one in the
check itself keeps it (`CheckThrows`), as the code's `try` starts later. The
polling pass lists the threads that moved since `lastPoll` minus two minutes,
opens each, and takes each message through the same steps; its errors are those
the code tells apart: an error object for one message or one thread
(`PollDetailError`, `PollThreadError`), an exception (`PollAbort`, which still
records the pass), and an exception before the loop (`PollThrows`, which does
not). `Crash` loses `igLastPoll` and every handler.

Time is in units of 30 s, so that `Stale` = 3 is the 90 s of a claim and
`Slack` = 4 the two minutes; `Prompt` says that a handler which holds a claim
saves before it is stale. The code does not enforce that; see section 6.

### Invoice and Quotes

Mongoose writes the fields a request modified, so `Merged` compares what the
request changed with what it loaded; `payments.push` becomes `$push`
(`SavePayment`); assigning `payments` or `lines` adds the version to the filter
(`Current`), and either kind of list write increments it. `settle` is the
operator `Settle`. Amounts other than the total are left out; `Sum` is a
constant with the three laws of adding up, so that the proofs need no induction
over a recursive sum. `send` mails, then saves, hence two actions.

In `Quotes` an invoice is its number: `nextNumber` is one atomic `$inc`,
`Insert` comes an await later, and `convertQuote` links and saves the quote
after the insert. An invoice's own life is `Invoice`'s. `MCQuotes` adds two
history variables: `crossed`, once two requests held the quote at once, and `lost`,
the invoices whose conversion failed between insert and save.

### Subscription

`tenant` has the fields the code decides on: plan, status, tenant status, link,
customer, cancellation and `pastDueSince`. `Saved` is what `save` does: the
whole `subscription` as the handler left it (`markModified`), and `tenant.status`
only when it differs from the loaded one. `syncSubscription` is `LoadForSync`
and `SaveSync` (`Synced` is what it computes), reached from a webhook's snapshot
(`Deliver`), from a fetch after a checkout (`Fetch`) or after a request
(`Refresh`). `changePlan`, `cancelAtPeriodEnd` and `reactivate` load, decide,
call Stripe and refresh. Stripe is external: subscriptions with the transitions
the code distinguishes, events with snapshots of the moment they were made, kept
until acknowledged. Nothing is assumed of their order, of how many handlers are at
work or of how many checkouts are open. `MCSubscription` keeps beside this what
has come between Stripe's last word on a subscription and its copy (`disturbed`):
overlapping handlers, an event that overtook an older one, a second subscription
running. Stripe's next word ends it, as its event brings the whole state.

### Mailbox

`server` is the mailbox at the provider (external: UIDs of a folder only grow,
UIDVALIDITY does not change), `docs` the collection with its unique index, which
`Insert` and `FileInTrash` respect. `messageId` is a UID, or `Local` for the copy
`sendEmail` stores. A pass is one action per call: `Status`, `Fetch` (the
range is computed from a count of messages and used as UIDs, as the code does),
`Compare`, `UpdateFlag` per mail, `FindGone` and `DeleteGone` (two queries),
`ReplaceLocal` per new mail, then `Store` per new mail. `syncAllFolders` does
this for each folder under the guard `syncing`, `syncFolder` for one folder
without it. A failing call leaves the folder (`FolderFails`) or the pass
(`ListFails`). `deleteEmail` is `MoveToTrash` and `FileInTrash`, or
`ExpungeMail` and `DropLocal`; `findTrashPath` swallows its failure, so that
the mail is deleted for good (`TrashUnknown`). `sendEmail` appends to the Sent
folder and then stores its copy, which the next pass replaces by subject.
`Keys` are document identities: a finite stock, of which a new document takes
one that nobody holds.

### Outbound

`sendMessage` of conversations stores the reply and does not wait for
`sendMessage` of Facebook: the update of the conversation in between (`HandOver`,
`NeverPosted`), Meta's acceptance or refusal (`MetaAccepts`, `Refused`,
`AnswerLost`, `AnsweredWithoutId`), the update that records its answer
(`RecordAnswer`) and the failure mark, which may fail and is then only logged, are
steps of their own. Meta's read
receipt, echo and the polling pass come back in any order and go through the
handlers of `facebook.service.ts`: an echo looks for its id, then for a
message of ours with the same text and no id, and else stores a copy. A
document is `<<m, "app">>` or `<<m, "meta">>`, by who stored it, so that "twice"
is visible. `Crash` loses what was under way.

### Widget

Four actors: the script in the visitor's page (`page`, `shown`, `temps`, what
`widget.js` keeps), the handlers of his requests (`pc`, `at`), the agents who
mark as read, answer and remove, and the gateway with who is `connected`,
`joining` and among the `viewers`. Each await of `handleWidgetMessage`, `addMessage`,
`markAsRead`, `remove` and the gateway's join is an action. `wire` is what the
socket has sent and not delivered; when the connection drops it is lost, and the
page, which only joins its room again, does not ask for it.

### Access, Sessions, Workspaces

`Access` has one account, its people, invitations and memberships. A slot is a
request in progress; `acceptInvite` looks at the invitation, makes or finds the
user, the member record and one access per workspace, and marks the invitation
last, one action each, as in the code. Registration, grant, revoke, the change of
a role and the backfill of legacy users (`ensureAccountMember`) take slots too.

`Sessions` counts time in ticks, some to a second, because a token's date is in
seconds and a password's in milliseconds: `Accepted` is the comparison of
`JwtStrategy` with the allowance it makes. Links age on a clock of their own.

`Workspaces` has creation (count, name, slug, save), renaming, removal, the
adoption that the first workspace triggers, the repair at start-up (one update
per model, in the order of the code, then one per mailbox and one for the other
mails) and a mail synchronisation that writes records beside them.

### Comments and Pages

A handler of `Comments` looks for the comment, for the contact (by id, but by
name in the Instagram poller), for the thread, then stores and tells; the
pollers take the comments they list the same way, and leave off while webhooks
arrive. What they list is not all there is: ten posts, a hundred top-level comments
of each, no nested ones; a comment may leave the list at any time (`Bury`). Agents'
replies come back as comments of the page.

`Pages` has per tenant and asset the record, and at Meta what is subscribed.
`connectPage` looks at the limit, subscribes the page and its Instagram account,
then writes the two records, with the person who connected, or with nobody when
Meta did not say who he is (`Record`); disconnecting and the data deletion callback,
which finds the records that name a person (`Named`), undo
this, asset by asset; `ensureInstagramRealtime` heals once an hour. A request of
`IntegrationsService` closes or removes one record without its pair (`apart`).

### Reminders, MailAccounts, Automations

`Reminders`: a pass takes a batch of due tasks and tells, then marks, each. A
round of notices reads the tenants at its beginning and goes through them; the
daily round and the one of a start-up may overlap.

`MailAccounts`: the two updates of `ensureDefault`, `setDefault`, the removal of
a mailbox and its mails, and the loop of each mailbox, whose reading may be
under way when its record goes. `Boot` is the start-up, a worker beside requests.
Each call of either may fail (`CallFails`); what it leaves undone, a workspace
without its one default (`Undecided`) or a mailbox without its loop (`Unlooped`), is
remembered until somebody sees to it.

`Automations`: an event starts a handler that takes the active rules, the oldest
first, up to the plan's number (`Within`; `Rule` is the next one of those it has
left); a rule looks for a run within the cooldown,
does its actions (which emit events one level deeper) and records the run.
UPDATE_STATUS may set any status of the event's lead, and any stage of its deal
without an event. Users create, edit and convert leads and move deals beside it; the
update of a deal and its events are two steps, between which the request may fail.

## 3. What is checked

Run `tlc -config <cfg> <module>`. Most properties of a run are bundles: a
conjunction of named parts, each stated and commented where it is defined (the
type invariant of its module among them; those of `MetaIngest`, `Invoice`,
`Subscription` and `Mailbox` are proved instead, see section 5). Many parts
carry a reservation, such as "unless two requests overlapped": it is a history variable, and
says exactly what the code does not rule out.

| Run | Question | Bounds |
|---|---|---|
| `ingest_once` | `AtMostOnce`, and `Inbox` implemented (`InboxSpec`), while handlers are prompt | 1 message, 2 webhook calls + poller, 2 deliveries, 1 restart, every fault |
| `ingest_window` | `NothingLeftBehind`, `EventuallyStored` | 1 webhook call, 1 delivery, outage of claims, webhook faults, no restart, no failed pass |
| `invoice_ledger` | `BooksBalance`, `IssuedStays`, `NoPaymentLost` | 3 payments, totals 0, 2, 3, 2 requests at a time, 4 in all, failures at every await |
| `billing_last_word` | `FollowsLastWord`, `NothingWithoutPaying`, `GraceRunsOn` | 2 plans, 2 subscriptions, events in any order and repeated, failures; scenes: changes of one subscription (9 events, the clock), two subscriptions running, 2 handlers at once (6 events), and a plan that fills up (6 events, 3 requests) |
| `mailbox` | `OneCopyEach`, `StandsForItsMail`, `DeletesWhatWasAsked`; `MailsGetMirrored` | 3 folders, 2 mails, 2 passes, 1 user, windows of 1, 1 edit, 1 fault or restart |
| `outbound` | `MessagesAreTrue`, `StatusStays`, `Settled` | 2 replies, 1 sent outside, different texts, 1 read, 1 restart, every call may fail (direct messages are in `widget`) |
| `widget` | `NothingLost`, `NothingTwice`, `ViewersAreThere`, `PageSettles` | 8 scenes: 2 visitor messages, 1 of an agent, 3 threads (1 foreign), 2 sockets; and 1 reply, 1 direct message, 1 sent outside |
| `access` | `MembersInOrder`, `OwnerStays`, `InvitationSettled`; `SessionsInOrder`, `PasswordRecovered`; `WorkspacesInOrder`, `Adoption` | 15 scenes: 3 people, 2 invitations, 2 workspaces, 2 requests at a time; 5 links; 3 workspaces, 2 in the plan |
| `watchers` | `CommentsInOrder`, `AllComeIn`; `ConnectionsInOrder`, `MetaAgrees`, `HealsInTheEnd`; `RoundsInOrder`, `DueIsTold` | 8 + 10 + 6 scenes: 2 handlers; 2 tenants, 2 pages and 1 Instagram account, limit 2, 2 requests; 3 tasks, batches of 2, 2 accounts |
| `services` | `NumbersAreFresh`, `OneInvoiceEach`; `MailboxesInOrder`, `LoopsEnd`; `RulesInOrder` | quotes: 2 requests, 2 numbers, 2 changes, faults; 11 mail scenes: 4 mailboxes, 2 workspaces, limit 2, 2 calls, a failing call; 11 rule scenes: 8 rules, 3 conversations, 4 leads, 3 deals, depth 2 |
| `billing_grace` | `GraceIsForLegacy` is **violated**, see section 6 | the clock's part of `MCWatchers` |

Why the bounds are enough to be interesting. *Ingestion*: the races are about
one id, and two webhook calls beside the poller give three contenders for one
claim; the time lets a claim go stale and the window pass. *Invoices*: three
payments, two equal, allow part payment, full payment, removal and payment
again, or a crossed pair and the payment that mends it; an invoice of 0 is the
boundary of "paid". *Billing*: two subscriptions
let a cancelled one be followed by another, or run beside it until its end is the
word that puts the account right; two plans are enough, as the code
compares limits only in pairs; the clock passes the end of the trial and of the
grace period; two handlers and three changes are enough for the subscription to
end between a handler's call and its refresh. *Mailbox*: two mails in two folders
share a UID, two in one folder make the window smaller than the folder; two
passes overlap in every way. *Outbound*: a second reply makes "the message with
this text and no id" ambiguous. *Widget*: two requests of one visitor race to
make a conversation, and a thread of somebody else shows whether a
removal stays with its participant. *Access*, *watchers*, *services*: two of
whatever competes (requests, handlers, rounds, loops), one more record than the
plan allows, and a fault or restart in the scenes where something can be left
half done. Every action of every `Next` is taken in some passing run, and each
property is violated when the definition named in "mutants" gets a plausible bug.

Some configurations are not part of the regular runs; each shows, in seconds,
that a stronger claim does not hold:

| Configuration | Shows |
|---|---|
| `ingest_restart` | after a restart the first pass looks back 24 hours and finds what a crashed handler had claimed, skips it because the claim is fresh, and the next pass looks back two minutes only |
| `ingest_slow` | a handler slower than 90 s: the message is stored twice |
| `quotes_fault` | the invoice is created, the quote is not saved: a retry makes a second invoice |
| `billing_order` | events in another order than they happened: an old snapshot stays |
| `mailbox_ghosts` | a document of a mail that is gone from the server stays |
| `outbound_alike` | two equal replies in flight: the ids go to the wrong ones |
| `widget_remove` | a removal takes the conversations of other visitors of the web chat |
| `access_first_admin` | a legacy admin opens two pages at once: the second request writes the owner down as an admin |
| `pages_deletion` | after a data deletion the Instagram account is still subscribed: its page took the record along |
| `tasks_rearmed` | a task that gets a new date while it is told of is not told of again |
| `mail_default` | a default is chosen while a mailbox is disconnected: not exactly one default is left |
| `rules_twice` | two messages at once: a rule answers twice within its cooldown |

Variants of these need another constant or another property in the same
configuration, and are violated too: `ingest_restart` with `PollFaults = TRUE` and
no restart (a pass whose Graph calls fail is recorded as the last one: its
messages fall out of the window); `invoice_ledger` with `ListIsTheTruth`
(two payments at once: the paid amount is not the sum of the list), `FrozenOnceSent`,
`VoidIsFinal` or `OnlyDraftsRemoved`, and, with one worker, with
`CustomerSawTheTotal` (the mail goes out, the save fails, the total is edited);
`quotes_fault` with two workers, or with `GapFree`; `mailbox_ghosts` with `Spec`,
`MaxEdits = 2` and `TrashIsTrue` (a UID that in the Trash is another mail's);
`billing_last_word` with `FollowsStripe` (overlapping handlers, or two open
checkouts); `billing_order` with `MaxUsage = 2`, five requests and
`ChosenPlanFits` (Free takes effect for an account that grew meanwhile);
`ingest_slow`, prompt, with `TwoIds` and `OncePerMessage`, or with two messages,
`AllAlike` and `TwinIsSameMessage`; `access_first_admin` with `Scenes <-
QuietOnly` and `UpdatedOnly` and `UpdateEndsSessions`, or `RepairingOnly` and
`EveryOwnLeftAlone`; `pages_deletion` with `Parts = {"comments"}`, `OnePerson`
and `SamePersonSameThread`, or `OneReply` and `EveryReplyInItsThread`;
`tasks_rearmed` with `Daily` and `NoticeOnceAlways`; `mail_default` with
`FirstMail` and `AddressUnique`, or `Removal` and `RemovedTakesMailsAlways`;
`rules_twice` with `Conversion` and `ConvertsOnceAlways`.

## 4. Fairness and liveness

* `EventuallyStored` (`ingest_window`): weak fairness of the polling pass
  (`@Interval`, and no exception leaves `igPolling` set) and of the awaits of a
  started handler (Node runs what is ready); strong fairness of the clock, which
  only says that no infinity of passes fits into one instant. Nothing is assumed
  of webhooks: Meta may never call. The clock is bounded; the window is what
  could leave a message behind, and it moves within the bound.
  `ingest_restart` shows that a restart is not covered by any fairness.
* `MailsGetMirrored` (`mailbox`): the loop starts a pass again and again
  (`setInterval`, started anew by `onModuleInit`), and a started pass or request
  goes on. Failing calls are bounded by `MaxFaults`: a server that never answers is
  never mirrored. What is mirrored is the window, outside the Trash, once
  users and other clients leave the mailbox alone.
* `Settled` (`outbound`): the call of a reply ends and what
  follows it is run. The code calls the global `fetch` without a timeout of its own
  (`facebook.service.ts:3832`); that the call ends is Node's doing, whose `fetch` gives
  up after five minutes without an answer. The property excepts, by name, every path
  that leaves the message merely sent: nobody posts it, Meta's answer has no id, the
  failure mark fails, a restart comes.
* `PageSettles` (`widget`): what the socket sent arrives while the connection is
  up, and the timer of "typing" fires.
* `InvitationSettled` (`access`): requests go on; an invited person opens
  his link again if it failed; an invitation that is old is closed when somebody
  looks it up or by `cleanupExpired`.
* `PasswordRecovered` (`access`): time passes, requests go on, a person who has
  no link asks for one, and uses the one he has. The property is that no lost mail,
  dead request or old link keeps such a person out.
* `AllComeIn` (`watchers`): the cron of `autoSyncComments`, which skips a page while
  webhooks arrive, and handlers that go on. That five quiet minutes pass
  (`FallsQuiet`) is not assumed: a comment comes in or the page has a recent webhook
  again, and a page with one every five minutes is never polled. Nor is anything said
  of a comment that is not in the list Meta returns (ten posts, a hundred top-level
  comments). Deliveries, faults and restarts are bounded.
* `HealsInTheEnd` (`watchers`): the hourly `ensureInstagramRealtime` and its steps.
* `DueIsTold` (`watchers`): the five-minute pass and its steps.
* `LoopsEnd` (`services`): timers fire and the awaits of a reading or a start-up
  return.

The other models state safety only: in invoicing, quotes, billing and
automations nothing is retried by the system itself, so a request that fails has
no obligation to go on.

## 5. What is proved

For every value of the constants, that is for any number of workers, messages,
payments, subscriptions and without the bounds' small values:

* `MetaIngestProofs` - `TypeInvariant`; and, when handlers are prompt and the
  claims collection is reachable, `StoredAtMostOnce`, `AnnouncedAtMostOnce` and
  `ImplementsInbox`. `AtMostOnce` is not inductive: the strengthening says that
  at most one process is between its claim and the end of its work on an id,
  that its claim is then not yet stale, and that past the existence check the id
  is not stored (or stored exactly by that process). Promptness enters in `Tick`
  only. Both assumptions are hypotheses of the theorems (`~ClaimOutage`,
  `Prompt`), not of the model.
  `NothingFallsOut` (`NothingLeftBehind`) is about the two minutes a pass looks back:
  no message that waits is older than the window. Its hypothesis `WindowAssumption`
  is prompt handlers, passes that do not fail, a process that lives, no two
  messages that look alike (the twin check would drop one), and
  `WebhookDelay + Stale <= Slack`: 30 s of delay and 90 s of a claim are just what
  two minutes cover. Failing passes and restarts must be excluded, since a pass
  that dies keeps its claim and later passes refuse the message while the window
  moves on (`ingest_restart`). The invariant (`WindowInv`): a claim on a message
  that waits is no younger than the last webhook for it (`ClaimsAreOld`), so it is
  stale before the message leaves the window, and the pass in progress still comes
  to every message that would fall out of the next window (`StillToCome`).
* `InvoiceProofs` - `TypeInvariant`; `PaymentsAreKept` (`NoPaymentLost`) for any
  number of concurrent requests, from the invariant that what a request adds is
  a payment that was registered and what a removal writes is the current list
  without one payment as long as the version is unchanged; `BooksAgree`
  (`BooksBalance`) and `RulesKept` (`IssuedStays`), also for any number of requests at
  once. Both properties except what the code does not keep, and say when it begins:
  with the save of a request over fields that another changed since it loaded
  (`crossed`). Until then the stored document is in order and so is what a request is
  about to save of it, and it keeps the rules of what the request loaded (`Ready`).
  `IssuedStays` says besides, without any exception, how books that went wrong mend: a
  payment registered or removed on the document as it is puts amount and status
  right, as `settle` reads the whole list.
* `ServicesProofs`, quotes - `NumbersNeverCollide` (`NumbersAreFresh`): every number issued
  or held is at most `seq`, held numbers are distinct and not issued.
  `QuoteBecomesOneInvoice` (`OneInvoiceEach`), for any number of requests, calls that
  fail anywhere and invoices that are deleted: of the invoices made from the quote
  all but one are those whose conversion was cut off between insert and save
  (`lost`; `quotes_fault` shows the second invoice), and the quote points at the other
  one, until two requests hold the quote at once (`crossed`). The invariant
  (`QuoteInv`): one request at most holds the quote (`OneHolds`); it has the stored
  quote in hand (`Known`), and the one invoice that is not lost is the quote's or its
  own (`Made`).
* `ServicesProofs`, mailboxes - `MailboxesKept` (`MailboxesInOrder`: type, `OneDefault`,
  `AddressOnce`, `MailboxesWithinPlan`, `ConnectedIsRead`, `RemovedTakesMails`), for any
  mailboxes, workspaces, addresses and requests at once, with any call failing and
  restarts anywhere. A call that fails half way is an exception, named in the property
  and no wider than what it leaves: the workspaces whose default it left undecided
  (`unsettled`), until the next request of the workspace has seen to it, and the mailboxes it left without a
  loop (`missed`), until one is started. `MailAssumption` speaks of the beginning: mailboxes with addresses of their
  own, no more connected than the plan has; nothing is assumed of which of them
  are defaults. The invariant: where requests did not meet, a workspace has one
  worker, so that what it found is so until it writes: the mailbox it chose is
  connected, and once the others are cleared no other is a default (`Choosing`);
  a workspace nobody is at work on is in order, or the start-up still has it on
  its list (`DefaultsKept`); a connected mailbox has a loop, or somebody is about to
  start or to end it, and no loop runs while the start-up has yet to start them
  (`LoopsKept`); who is about to delete a mailbox has deleted its mails and no
  reading of it is under way (`MailsKept`); and a connection being tested found its
  address free and room in the plan (`AddressesKept`, `RoomKept`).
* `ServicesProofs`, rules - `RulesKept` (`RulesInOrder`: type, `RepliesOnce`, `OneOpenLead`,
  `ConvertsOnce`, `StageIsTold`, `PlanBoundsRules`, `ShortChains`), for any rules,
  conversations, leads, deals, plans, events and requests at once, and runs cut off
  anywhere. `RulesAssumption` gives the constants their types and lets the beginning
  have any of the rules active. The invariant: where no two messages of a conversation
  met, it has one handler, and a reply that was sent is recorded, or its handler is still in
  that run and knows it (`RepliesKept`); who found alone that there is no open lead, or
  no deal of a lead, is right until it makes one (`LeadsKept`, `DealsKept`); who
  moves a deal alone knows its stage, and what he has written and not told is what he is
  about to tell, but for a stage that a rule set or a request left untold (`StagesKept`); what has acted since the plan was
  set is among its oldest rules, and those are counted by an injection into
  0..limit-1 (`PlanKept`, `WithinCounted`); and a handler past its start has a depth below the
  limit. Looking for it showed that a second reply in one run of a rule is not the
  reply of a second run, which is what a cooldown is about: a handler now
  remembers what its run has sent (`said`).
* `SubscriptionProofs` - `TypeInvariant` and `NothingUnpaid`
  (`NothingWithoutPaying`), with events in any order, repeated, and any number of
  overlapping handlers. The invariant adds that what handlers have loaded is
  paid for too, and that every running snapshot, stored by Stripe, in an event
  or in a handler's hand, is in `granted`; a step of a handler only copies
  between these.
  `FollowsStripesLastWord` (`FollowsLastWord`) has no hypothesis either: events come in
  any order and again, handlers overlap, checkouts are open beside one another. It
  says that an account on which everything was handled is where Stripe is, unless it
  was disturbed since Stripe's last word (`billing_order` shows what such a
  disturbance does). The invariant has a part that always holds (`Grounds`: events are of
  different instants, a handler holds what its step says, no account is linked to an
  incomplete subscription) and one that holds while nothing disturbs (`Alone`):
  one subscription runs at most (`OneRuns`); the last event outstanding says what Stripe
  says (`Outstanding`); the handler has the oldest one in hand, and is up to date or
  not the last word (`Knows`); and the account is in step (`InSync`), or an event that
  will change it is still to come. A new word restores all of the second part,
  whatever was wrong before, because its event comes after all that are outstanding
  or in hand.
  `GraceKept` (`GraceRunsOn`): no step moves the start of the grace period of an
  account that stays past due, but a handler that writes back the date it had loaded.
* `MailboxProofs` - `TypeInvariant` (with the server's mails finite, which the
  window's start needs), `NoMailTwice` (`OneCopyEach`), `OneAtATime`, and
  `DocumentsStandForTheirMail` (`StandsForItsMail`) with `DeletionsHitTheirMail`
  (`DeletesWhatWasAsked`). The first two need only that keys are unique and that
  whoever lists folders is a full pass. The last two rest on one invariant:
  whatever is remembered of a UID (a document outside the Trash, a mail a pass
  listed, a deletion under way) says which mail got it, the server gives no UID of
  a folder twice, so it stays true; a step of the server gives at most one new
  UID (`ServerMoves`), every other step copies what was remembered (`Carried`).
* `ConversationProofs`, replies - `RepliesAreTrue` (`MessagesAreTrue`: type, `StoredOnce`,
  `IdIsItsOwn`, `DeliveredIsTrue`) and `StatusesStay` (`StatusStays`), for any
  finite set of messages and any number of receipts, passes and restarts. The
  hypotheses are `Distinct` (no two messages in flight read the same; the run
  `outbound_alike` shows the ids swapped when two do) and `EchoTagged` (the echo
  of our own message names our app). The invariant: a reply has its document
  from the moment its sending begins; an id on a document is that of the message
  itself; and a handler holds either a copy of what has no document of ours, or
  the very document it found by its text.
* `ConversationProofs`, web chat - `NothingIsLost` (`NothingLost`: type, `NoneOverlooked`,
  `NoOrphans`), `NothingIsTwice` (`NothingTwice`: `OneThread`, `ShownOnce`) and
  `ViewersKept` (`ViewersAreThere`), for any number of messages, threads, agents and
  requests at once, and whatever is lost or restarts. `ChatAssumption` keeps the
  visitor's messages apart from those of agents. The invariant (`ChatInv`): a stored
  message is where its request was bound for, and a request not yet past its storing
  has stored nothing (`Placed`), so that a new thread is empty; a request about to
  store found its conversation, or is on record as overtaken by the removal (`Bound`);
  while requests do not overlap, one is at work at most, and it is right that there is
  no thread when it makes one (`OneAtWork`); the page knows of no message whose
  sending has not begun (`Begun`), and one sent since its listing came is not in the
  list before its answer (`NotYetShown`); and who asked to look at a conversation is
  connected, or left meanwhile (`Watched`).
* `AccessProofs` - `MembersKept` (`MembersInOrder`: type, `OneOwner`,
  `OnlyWhatWasGiven`, `OnePending`, `AcceptedMeansIn`) and `OwnerKept`
  (`OwnerStays`), for any number of people, invitations, workspaces and requests,
  and any faults. The hypothesis `Plausible` speaks of the beginning: no two owners,
  and nobody in an account that is not there yet. The invariant has a part for
  each property. While nothing overlapped, at most one request is choosing a
  role, and not for the owner (`Owned`); before the first user nobody is in the
  account (`Founded`), which is why registration crowns nobody beside an owner; what
  a request is about to open was given, and a revocation leaves alone what a
  request on its way stands for (`Given`); who is about to save an invitation found
  no other (`Alone`); an acceptance has behind it what its step says (`Arrived`).
  The lemma `EverythingLasts` carries the last two over everybody else's steps.
  In the same module, `SessionsKept` (`SessionsInOrder`: type, `LinkWorksOnce`,
  `OneLiveLink`, `OldSessionsEnd`), for any number of links, requests at once,
  changes and lost mails and for all durations. The hypothesis `Sensible` makes
  durations and bounds numbers and a second at least one tick. The invariant: links
  have distinct numbers that only grow; a link that changed the password, or is
  about to, is gone and one request alone took it (`Taken`); and a token carries
  the number of password changes before it, with the time of the last one
  (`Dated`), from which the rounding to seconds bounds how long an old one lasts.
* `AccessProofs`, workspaces - `WorkspacesKept` (`WorkspacesInOrder`: type,
  `NamesUnique`, `WithinPlan`, `NoOrphansAfter`) and `AdoptionKept` (`Adoption`), for
  any number of workspaces, records and requests at once that may die anywhere.
  `PlacesAssumption` speaks of the beginning: names that differ, a plan that is
  kept, records in a workspace of the account, in none or in a stranger's, and no
  mail whose mailbox is gone (`remove` of a mailbox deletes its mails first). The
  invariant: while nobody met, one request at most has checked and not saved
  (`OneChecked`), and what it checked is still so (`NamesKept`, `PlanKept`,
  `FirstKnown`); an adoption knows every workspace but those made since
  (`TasksKnow`), so that where none was, the models and mailboxes it has done
  hold no orphan and no mail that is elsewhere (`AdoptionsGoOn`). The proof asked
  for the loop over the mailboxes step by step: taken at once, the condition that
  no mail was saved meanwhile had nothing to exclude. `NamesUnique` does not count
  the name of the default workspace, which `createDefaultForTenant` does not check.
* `WatchersProofs`, comments - `CommentsKept` (`CommentsInOrder`: type, `CommentOnce`,
  `OnePerKey`, `OwnNotInbound`, `EveryStoredTold`, `ReplyInItsThread`), for any
  comments, people, handlers, failures and restarts, without any hypothesis.
  The invariant says what a handler knows at each step (`Informed`), and for the
  messages, contacts and threads alike that, where no two handlers looked at once
  (`crossed`), there is one of a kind, and a handler that found none and is about
  to make one is the only such handler and is right (`StoredOnce`, `ContactsOnce`,
  `ThreadsOnce`). Which contact a search returns is the first that fits; that
  there is a first one is the least-element theorem of WellFoundedInduction
  (`FirstOf`).
* `WatchersProofs`, reminders - `RoundsKept` (`RoundsInOrder`: type, `TaskOnce`,
  `NoticeOnce`, `GraceOnce`, `PaidIsKept`), for any tasks and accounts and any number
  of passes, daily rounds and start-ups. `ClocksAssumption` speaks of the
  beginning: no reminder, notice or grace period yet. The invariant: a task that
  was told of is marked, gone, or the one the pass is about to mark (`ToldOnce`);
  two rounds at work at once have met (`RoundsApart`), so one that met nobody
  knows all the notices of the accounts it has left, and what was mailed is
  recorded or about to be (`MailedOnce`); what a migration has left has no mark,
  and without a mark there was no grace period (`MigratedOnce`).
  Looking for it showed `TaskOnce` false as it stood: a task that was armed again
  under a pass, and again afterwards, still counted as told of twice. The history
  variable now starts anew with each date, as the property means it.
* `WatchersProofs`, pages - `ConnectionsKept` (`ConnectionsInOrder`: type,
  `PairInOnePlace`, `PairGoesTogether`, `AssetsWithinPlan`) and `MetaAgreesKept`
  (`MetaAgrees`: `ConnectedIsSubscribed`, `DeletionHonoured`), for any tenants,
  workspaces, pages and requests at once, whatever Meta refuses or forgets. `PagesAssumption`
  makes the pages finite (a plan counts them), gives an Instagram account one page,
  and begins with accounts within their plan, each Instagram account beside its
  page. The invariant: requests that are at work together on a page have met
  (`AloneOn`); on a page where nobody met, nothing failed and `IntegrationsService`
  did not take the record alone (`Broken`), a connected
  Instagram account has its page connected in the same workspace, or the request
  that has just closed the page is about to close it (`PairsTogether`); a request
  that connects knows the page's place (`PlacesKnown`) and has subscribed what it
  goes on to record (`EventsCome`); a tenant's assets with those a request was allowed
  are within the plan (`WithinPlan`, by the cardinality theorems); and a deletion
  has closed all that names the person and is not on its list (`DeletionsGoOn`).
  `MetaAgreesKept` says nothing of accounts recorded without the person who connected
  them: such an account stays connected after a deletion called completed.

Each theorem's proof is "the invariant holds initially, every action keeps it,
it implies the property" with one step per action, closed by `PTL`; each
invariant was an invariant of a run first. Theorems about a component that runs
beside others are stated of the instance (`MCSpec` of `MCAccess`, `MCWatchers`,
`MCServices`, `MCConversations`, `MCSubscription`), in which a step of another part leaves its variables alone.

Every invariant and action property of a passing run is stated by one of these
theorems. Only model-checked: the liveness properties of section 4. Out of
reach of the prover: liveness and ENABLED, induction over data with the library's
theorems that take an operator as a parameter, and modules that declare a
RECURSIVE operator; no module here declares one.

## 6. Where code and words differ

The left side is a sentence of the repository, the right side the configuration
(or variant, section 3) that shows when it is not so.

* "One-time migration of tenants created before real billing existed" and "they
  get ONE short grace so nobody is locked out" (`billing-notices.service.ts:35`,
  `:41`) - registration never sets the mark the migration looks for
  (`auth.service.ts:67`), so an account made today whose trial ends gets the grace
  at the next start: `billing_grace`.
* "tenantId -> last successful poll start", "a claim that was never completed
  (crash) can be taken over" - not in time: `ingest_restart`.
* "the list is the source of truth" - two payments at once: `ListIsTheTruth`.
* "Esta cotización ya se convirtió en factura" - not after a failure between the
  insert and the save: `quotes_fault`.
* "applying it twice yields the same state (idempotent)" - true of one event
  twice in a row, not of two events in the other order: `billing_order`.
* "Remove local emails deleted on the server (only within the fetched UID range)"
  - not when the first ones of the range are deleted: `mailbox_ghosts`.
* "messageId: string; // IMAP UID or Message-ID header" - in the Trash it is the
  UID the mail had in another folder: `TrashIsTrue`. A deletion there may reach
  another mail, which is why `DeletesWhatWasAsked` leaves the Trash out.
* "The first admin of a legacy tenant becomes the owner; later admins stay
  admins" (`memberships.service.ts:39`) - not if two requests of his come first:
  `access_first_admin`.
* "A password change / reset ends every session that was opened before it" - not
  a password set by the update of a user: `UpdateEndsSessions`.
* "Records of the tenant's own workspaces are left alone" - not those of a
  workspace made after the repair listed them: `EveryOwnLeftAlone`.
* "All comments from the same person go to the same conversation" - the webhook
  knows him by id, the Instagram poller by name: `SamePersonSameThread`.
* "tokens are erased and webhooks unsubscribed" (`meta-data-deletion.service.ts:41`)
  - disconnecting a page closes its Instagram account's record, whose own
  subscription is then never ended: `pages_deletion`.
* A new due date re-arms the reminder (`activities.service.ts:106`) - not while
  the pass is telling of the old one: `tasks_rearmed`.
* "Unique per tenant" (`email-integration.entity.ts:18`) - two connections of one
  address at once: `AddressUnique`; "exactly one default" - `mail_default`; "Permanently
  remove a mailbox together with its locally cached messages" - not what its
  reading stores afterwards: `RemovedTakesMailsAlways`.
* "The same rule is not fired again ... within the cooldown"
  (`automation-engine.service.ts:135`) - `rules_twice`.
* "Converting twice would duplicate the deal" - and two conversions at once do:
  `ConvertsOnceAlways`.
* "ALL conversations for the same participant" (`conversations.service.ts:447`) -
  of every visitor, when the contact has no participant id: `widget_remove`.

## 7. Not modelled

Tenants, reports, push, uploads, bootstrap and common code: plain records,
queries, calls out, wiring; nothing another actor can disturb.

Within modelled components:

* Ingestion: a poll pass is assumed to end within three minutes; Messenger's
  own events take the path of Instagram's without polling; contact profiles, and
  a contact's name overwritten by a later message.
* Comments: one post (the limits of a poll, ten posts with a hundred top-level
  comments each and no nested ones, are modelled as comments that are not listed);
  `hideComment`; what Instagram returns for "since" is any
  subset. Pages: `getUserPages`, `diagnoseInstagram`, `saveFacebookConfig`,
  `getPageFeed` and `connect` of `IntegrationsService`.
* Mail: `bulkDelete`, `isFlagged`, the backfill of addresses, the test of a stored
  connection, `lastError`, encryption.
* Automations: conditions on an event's data (every rule of the trigger acts),
  triggers of new contacts and conversations; the status of a conversation. The event
  of a new lead comes in one step with its creation: a crash between the two, which
  would leave a lead that no rule heard of, is not modelled. Rules are given, not created.
* Access: the deletion of a user (it leaves his memberships), `users.update` of
  other fields. `cancel` and `markAsAccepted` are unconditional and modelled so.
* Billing: prices, cycles and periods, courtesy accounts, development without Stripe.
* Invoicing: rendering, listing, products, amounts other than the total
  (`totals.ts`).
* Conversations, CRM, activities: listing, assigning, tagging, contacts, notes and
  quick replies: updates of one document.
* The browser widget: what is drawn and how, ticks of the visitor's messages.

## 8. What is left

1. `totals.ts` and `access` as pure functions against reference definitions.
2. `bulkDelete` in `Mailbox`, several posts in `Comments`.
3. Hazards that PROJECT.json does not list because stronger ones of their kind
   are there: two ids of one message at once (`facebook.service.ts:3137`) and
   `getOrCreateConversation` (`:4161`); a mailed invoice that stays a draft
   (`invoicing.service.ts:461`); customer creation, downgrade and two checkouts
   (`billing-payments.service.ts:85`, `:159`, `:207`); the repair of records beside a new workspace
   (`workspaces.service.ts:320`, `:336`); a lead converted twice
   (`leads.service.ts:134`); a reminder mailed twice
   (`billing-notices.service.ts:145`).
