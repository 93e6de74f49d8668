# ReviewHub in TLA+

This directory specifies the parts of the ReviewHub server whose behaviour
depends on who does what when: modules in TLA+, configurations that TLC checks
on small instances, and proofs that TLAPS checks for every value of the
constants.

    tlc -workers 2 -config Reply_safety.cfg MCReplyPublishing
    tlapm ReplyPublishing_proofs.tla

`PROJECT.json` lists the components, the runs, the theorems, the hazards and,
for each definition, the source lines it stands for.

## 1. The system

ReviewHub lets a business collect its reviews from review platforms, answer
them (with AI drafts), publish the answers and ask customers for more reviews.
The server is **one Node process** over a **synchronous SQLite database**
(better-sqlite3). This decides what an atomic step is:

- Code between two `await`s runs without interruption; a handler that awaits
  nothing is one step.
- At an `await` (a platform, the AI model, the mail server, a password hash)
  every other handler and timer may run, and the handler goes on with what it
  had read before.
- Jobs are `setInterval` timers. The platform sync and the Places poller have a
  running flag; the other jobs may overlap with themselves.
- A restart keeps the rows, drops whatever was awaited, and starts the timers
  again. Between two separate statements it can fall too.

### Inventory

| Component | State | Operations | Interacts with | What is hard | What makes it correct | Status |
|---|---|---|---|---|---|---|
| Reply publishing (`routes/reviews.js`, `jobs/scheduledReplyPoster.js`) | `reviews.response_text`, `responded_at`, `response_posted_at`, `scheduled_post_at` | respond, bulk respond, create, import, delete, poster tick | platform, outbound webhooks, connections | stale rows across the platform call, overlapping ticks, crash between PUT and UPDATE, full batches | publish only what was asked and in time; badge only after publishing; announce once; due rows are served | `ReplyPublishing`, `ReplyPromise` |
| AI draft quota (`lib/billing/enforcement.js`, draft routes) | `ai_drafts_used`, `ai_drafts_period_start` | reserve, refund | plan of the account, AI model | parallel drafts, month turn and plan change while the model is awaited | the cap; nobody is charged for a template | `AiDraftQuota` |
| Billing (`routes/billing.js`) | `subscriptions`, `webhook_events` | checkout, webhook | LemonSqueezy | duplicates, reordering, crash between claim and update, two subscriptions | apply once, lose nothing, the paid plan is the one shown | `BillingWebhook` |
| Review ingestion (`jobs/syncReviews.js`, `lib/providers/google.js`) | `platform_connections.last_synced_at`, `reviews` | tick, manual sync, connect, disconnect | platform | overlapping syncs, reviews written meanwhile, failed fetch, page limit, re-created connection | what is below `last_synced_at` is in the table; reviews arrive | `ReviewIngestion` |
| Review requests (`routes/reviewRequests.js`, `jobs/followUpRequests.js`) | `review_requests` | send, bulk, resend, delete, click, follow-up run | mail server, customers | candidates read before a loop of awaits, tokens renewed by several actors | cooldown, one follow-up, none after a click, a working link | `ReviewRequests` |
| Places poller (`jobs/placesPoller.js`) | `reviews`, running flag | tick: fetch, insert, tell the owner | Google Places, LINE, Telegram, mail | crash between insert and notice, a business deleted during the fetch, chats unlinked meanwhile | every review arrives, is told once and is forgotten by nothing but a fault | `PlacesPoller` |
| LINE and Telegram links (`routes/lineOaLinks.js`, `telegramLinks.js` and the two webhooks) | link rows and codes | generate, link, unlink, unfollow, expire | chat platforms, poller, account deletion | two ends change one row, several accounts on one chat | dead codes stay dead; who unlinked hears nothing more | `ChatLinks`, composed in `PlacesPoller` |
| Email jobs (`onboardingEmails`, `weeklyDigest`, `auditFollowupReminders`) | one mark per mail | tick | mail server, settings, billing, audit views | mark before or after the mail, overlapping runs, settings changed during a run | at most one mail, marks agree with mails, quiet for who declined, served for who wants | `MailJobs` |
| Accounts (`routes/auth.js`, `lib/tokens.js`, `lib/passwordPolicy.js`) | users, links, codes | register, login, password, reset, address, magic link, Google, second factor, delete | mail | state used after a hash is awaited, links replaced by newer ones | the latest password works, links work once, a verified address was proved | `Accounts` |
| Audit previews (`routes/auditPreviews.js`) | `audit_previews`, quota | create, view, mark replied, remind | quota, mail jobs | batch of reservations, partial refund | no stray refund, no charge for templates | creation in `AiDraftQuota`, views and reminders in `MailJobs` |
| Privacy requests (`routes/gdpr.js`, `lib/gdpr`) | users, all user data | request, confirm, erase | every component | work in flight during erasure | nothing comes back | erasure in `PlacesPoller` |
| Google connection (`googleOAuth.js`, `routes/platforms.js`) | tokens in `platform_connections` | OAuth callback, refresh, revoke | sync, poster | refresh that ends after a new authorization | newer credentials survive | not modelled |
| Businesses (`routes/businesses.js`) | profile, connections | update | plan limits | update before the limit is checked | refused requests change nothing | inputs of `ReplyPublishing`, `ReviewIngestion`, `PlacesPoller` |
| Public responses, claims, share tokens, outbound webhooks | one table each | post, delete, claim, approve, deliver | | limits that count rows that can be deleted | limits, one answer per review | not modelled |
| AI drafts, mail texts, parsers, templates, tags, API keys, admin, lists, schema, metrics, client, scripts | | | | pure I/O, wording, single statements, or not part of the server | | not modelled, reasons in `PROJECT.json` |

The hazards, 40 of them with the line where each bites and the property that
would catch it, are in `PROJECT.json`.

## 2. Modules

| Module | What it is |
|---|---|
| `ReplyPromise` | abstract: publish on request and in time, show the badge after publishing |
| `ReplyPublishing` | the handlers and the poster; implements `ReplyPromise` |
| `QuotaPromise` | abstract: a ledger of charges per month, and who may give one back |
| `AiDraftQuota` | one account's monthly counter, the drafts in flight and an audit; implements `QuotaPromise` |
| `BillingPromise` | abstract: an event takes effect once and whole, or is missed by a fault |
| `BillingWebhook` | checkout, the provider's subscriptions and events, claim and reconcile; implements `BillingPromise` |
| `IngestPromise` | abstract: a sync is one step, and its stamp drops no review |
| `ReviewIngestion` | workers that sync one location; implements `IngestPromise` |
| `RequestPromise` | abstract: the life of a request as its customer sees it |
| `ReviewRequests` | review requests and the follow-up job; implements `RequestPromise` |
| `MailPromise` | abstract: the life of one mail, from one mark to the next |
| `MailJobs` | the three mail jobs: onboarding, digest, reminder; implements `MailPromise` |
| `NoticePromise` | abstract: messages fall due together, are delivered once or fail by a fault |
| `ChatLinks` | codes and links of LINE and Telegram |
| `PlacesPoller` | the poller; extends `ChatLinks`, whose links it reads; implements `NoticePromise` |
| `AccountPromise` | abstract: who has an address, asks for another, proves it and leaves |
| `Accounts` | account rows, links, codes and the handlers that await a hash; implements `AccountPromise` |
| `MC...` | definitions TLC needs: constants that a `.cfg` cannot write, symmetry sets |
| `..._proofs` | theorems and their proofs |

Variables named after columns are those columns; `call`/`job` hold what a
handler has read and awaits; variables marked HISTORY in the declarations exist
to state properties and are read by no guard; EXTERNAL ones are what the other
side (platform, provider) holds. Bounds (`Max...`) stand in guards and are named
in the declarations. Definitions marked "Mutant" are plausible wrong versions of
a definition; each property is shown to fail when its mutant takes the place of
the definition.

Each component has an abstract specification, its `...Promise`, in the words of
those it serves: an owner, a customer, a reader of mails, an account. The component
module ends with `Promise == INSTANCE ... WITH` and the refinement mapping, and
`PromiseKept` says that every behaviour of the detailed module is one of the abstract
one, step for step or standing still. The promises have no handlers, awaits, runs,
claims or tokens, so what they say does not depend on how the code is cut into steps.

### ReplyPublishing

A review is absent, present or deleted, with text, schedule, badge and first
response time. `Respond` is POST `/reviews/:id/respond` up to its `await`;
`PlatformAccepts` is the platform taking the PUT; `RespondPosted` and
`RespondFailed` are the two continuations. `Tick` reads the due rows (at most
`BatchLimit`, earliest first) and runs the loop up to its first call;
`TickPosted` and `TickFailed` finish one row and run the loop on. Rows that cannot be
posted (no external id, no connection, provider not enabled) are taken out of
the queue on the way, as the code does. `BulkRespond`, `CreateReview`,
`ImportReview`, `SyncInsert`, `DeleteReviews` and `SetConnection` are one step
each. `Restart` drops all calls; a PUT that had landed stays landed.

`grants` records what the owner asked to publish, which text and when. The
properties compare it with what the platform shows (`live`). `ReplyPromise`
knows only these, the clock and the badge.

Abstractions: the minute of tolerance for "now" is not modelled; an imported
review gets the current time as `responded_at` where the code takes the file's
date; of several matching auto rules any may apply; a PUT that the platform
applies only after the server has seen it fail is left out.

### AiDraftQuota

`Ask` is a draft handler up to the model call, with `reserveAiDraft` as one
transaction; `AnsweredByAi` and `FellBack` are its ends. `TurnMonth` and
`ChangePlan` come in between. An audit holds many slots at once: `StartAudit` is
the first reservation, and `AuditGoesOn`, `AuditRefused` and `AuditStored` are
what the handler does from one answer of the model to its next await, refunds and
reservations in one. Only one audit runs at a time; to it a second one is a set of
drafts. `stray` counts refunds that a month receives for
slots it did not charge: a draft that was reserved in another month or on an
unlimited plan and then falls back, or a refused audit that started then. Such a refund gives away a slot that another
draft paid for, so the cap as such does not hold; `CapUnlessStray` says exactly
by how much it can be exceeded, and `ExactUnlessStray` that otherwise the counter
is what was spent.

### BillingWebhook

The provider's subscriptions go through their life (`Pay`, `SwitchPlan`,
`Cancel`, ...) and send events; an event is `unacked` until a delivery of it is
answered with 200, and may be delivered again after that. `Apply` claims and
reconciles, `Dedupe` finds the claim, `FailAndRelease` fails in between and
releases the claim, `LoseClaim` is a crash or a failing release. Dates,
signatures and payload parsing are left out.

Neither `billing.js:289-300` (`WHERE user_id = ?` alone) nor `Downgrade` looks at
which subscription has expired: an expiry takes the account to the free plan also
when another subscription is on record. So `PayingCustomerServed`, which speaks of
events applied in order, cannot say that an active subscription is always served: it
says so unless another subscription was renewed or expired since its last event
(for the status: had any event). Section 6 says what the exception costs a customer
who cancels and buys again.

Every event is given an id that its retries repeat. The handler takes the id from a
header or the payload (`billing.js:176-200`) and skips the claim if there is none:
such an event would be reconciled at every delivery. `lemonsqueezy.js:160-163` calls the id it
reads one per delivery; if it were, the claim would never recognise a retry, and
that an event takes effect once would not hold.

The catalogue currently offers one paid plan for sale (`plans.js:89,121` mark the
others as coming soon and `billing.js:49-54` refuses them), so `Billing_switch`
describes what happens once a second one is offered, or for accounts that hold
one.

### ReviewIngestion

A worker reads the connection (`Begin`), the platform answers with the newest
page (`Answer`), and one transaction inserts what is new and stamps the
connection row it had read, if it still exists (`Commit`). The tick has the
running flag, manual syncs do not. `ShortCircuit` is the stamp without a fetch when there
are no OAuth credentials. Time is in seconds, as `datetime('now')` is; a review
has the second in which it was written, and the comparison with
`last_synced_at` is taken as the code makes it. Reviews the connection leaves
behind are kept apart by cause: `late` (written between answer and stamp),
`skipped` (no credentials), `failed` (failed fetch), `Crowded` (off the page).

`Connect` is the insert of a connection. Giving an existing connection another id
(`businesses.js:236-242`) keeps the row with its `last_synced_at`; it is not modelled.
The sync asks for the location that the credentials lead to and that it has stored
with the row (`google.js:124-160`), and the model is about one location: if the row
came to stand for another one, that one's older reviews would be below the bound.

### ReviewRequests

`Send` (and `BulkLine`, one line of a bulk file) is the cooldown query and the
insert, then the mail is awaited. `Resend` and a follow-up round store a new
token first. A run of the job (`Begin`) reads its candidates once; `GoOn` is the
loop after each mail, which looks at no row again. Tokens are numbered per
request, and `held` says whether the mail with the stored token has arrived;
links of older tokens are not found. `shared` collects rows two overlapping runs
have both read, `quiet` those clicked while no run held them. A customer is an
address on a platform, the unit of the cooldown. A mail whose call failed may
have left all the same.

### MailJobs

One module for the three jobs, whose loops have one shape: a query (`Candidates`),
then for each row the checks the loop still makes (`Sends`), a mark before the
mail (`MarkedFirst`, the reminder) or after it (`MarkedAfter`, onboarding and
digest), and the next row. `Begin` starts a run and goes to its first mail;
`Sent` and `Fails` are the two ends of the await. `mark` is the row of
`onboarding_emails`, `last_digest_sent_at` or
`last_followup_reminder_sent_at`. Days stand for the intervals of the queries:
`Window` for the three weeks of onboarding, `DigestGap` for the week between
digests, `ReminderAge` and `AuditLife` for the audits. A user who is deleted may
keep connections (`Delete`), because the deletion removes one business and an
erasure none; the mark of a setup hint nobody needs is inserted outside the `try`
(`onboardingEmails.js:92`), so its foreign key then ends the whole run (`Throws`).
The limit of 500 audits per reminder run (`auditFollowupReminders.js:43`) is left
out, and the day may change between any two mails, also of one user, for whom the
code reads the clock once. `shared` are mails two
overlapping runs went for, `unsure` mails that left though the server saw them
fail or died, `quiet` those declined while no run held them.

### ChatLinks and PlacesPoller

A row of `ChatLinks` has a chat and a code; codes are numbered per account.
`Expire` takes an outlived code off the row, which nothing distinguishes.
LINE and Telegram differ where the code does: LINE refuses a new code while
linked, an unfollow clears every account of the chat, Telegram's `/unlink` one.

`PlacesPoller` walks over the businesses. `Start` reads a business with its
owner's chats; after the fetch `Insert` puts the new reviews into the table and
begins the first `Round`: draft, mail, Telegram, LINE, one await each (`Told`,
`NotTold`). `GoOn` goes to the next business, one that is still there and has a
place. `InsertThrows` is a business that was deleted during the fetch: the error
ends the tick. `SetPlace` sets or clears the place of a business; a move to another
place, whose reviews would count as new, is not modelled. `DeleteAccount` and `Erase` differ in what they leave behind.
`owed`, `told` and `lost` follow each message.

### Accounts

A handler that hashes or compares a password is two actions, `Begin...` and
`Finish...`, with what it had read in `job`; handlers without an await are one.
Links, mailed codes and recovery codes are numbers never given twice, `inbox` says
which were mailed where to, and who clicks a link owns the address (`owned`). All
kinds of links have one slot each per row (`link`), as in the table. Wrong
passwords and links nobody holds change nothing and are left out; so are rate
limits, cooldowns and sessions, which are stateless. The ten recovery codes are one.
Google sign-in of an unknown address changes nothing, as its insert fails
(section 6). `used` and `twice` leave out verification links: using one again only
verifies what is verified.

## 3. Runs

| Run | Instance | Shows |
|---|---|---|
| `Reply_safety` | 2 reviews, 2 texts, 2 requests, 2 ticks, 1 failure, 1 crash | badge, time, queue, announcement and refinement of `ReplyPromise` |
| `Reply_queue` | 2 reviews, one unpostable, batch of 1, fair timers | every due row is posted or leaves the queue |
| `Quota_cap` | 3 slots, cap 2, audits of up to 2 reviews in 3 tones beside drafts, 2 months, 3 requests | refinement of `QuotaPromise` (the cap up to stray refunds), counter exact |
| `Billing_delivery` | 2 subscriptions, 2 plans, 4 events, 1 fault, fair retries | refinement of `BillingPromise` (applied once), lost only by faults, plan and subscription agree, an active subscription is served unless another one intervened, events take effect |
| `Ingest_sync` | 2 reviews, page of 1, tick and manual sync, 2 connections, 1 fault, fair tick | refinement of `IngestPromise` (nothing is skipped), and every review arrives, but for the listed causes |
| `Requests_mail` | 2 requests, 2 customers, 2 handlers, 2 runs, 2 resends, 1 fault | refinement of `RequestPromise` (cooldown), one follow-up, quiet after a click, working links |
| `Mail_jobs` | 1 user, 1 audit, each job alone, 2 runs, 3 days, 1 change, 1 fault, fair timers | refinement of `MailPromise` (at most one mail), marks, quiet, service |
| `Places_poll` | 2 businesses of 1 account, a second account, 3 reviews, page of 2, each bot alone, 1 change, 1 fault, fair timer | refinement of `NoticePromise` (announced once), arrival, nothing forgotten, codes, quiet after an unlink |
| `Accounts_auth` | 2 ids, 3 addresses, 2 passwords, 1 Google account, 2 handlers, 4 requests | refinement of `AccountPromise` (addresses), links, passwords |
| `Reply_reschedule` | violation | a posted reply that is edited with a schedule stays queued for ever; `schema.js:415-424` |
| `Billing_switch` | violation | a plan switch in the portal has no effect; `billing.js:62-65` |
| `Ingest_failure` | violation | a failed fetch moves the lower bound; `syncReviews.js:16-17` |

**Why the bounds are enough.** Each hazard needs a few actors: a row and two
writers that overlap, one await each, and one event in between. Two reviews show
interference between rows (order in the batch, one blocking the other); two
ticks, runs or workers show overlap; one fault shows every failure path against
every other step, and a second one only repeats it from a state the first run
also reaches. Four events are enough for pay, change, expire and a second
subscription in any order. Two months contain a draft, or an audit, that outlives
a month turn and one that does not; three slots let an audit keep slots, be refused,
and run beside a draft of another month (an audit that is given a slot for
everything needs six: it waits in this instance for a free one). The page
is one smaller than the number of reviews of a place, so a review can fall off it.
`MaxDay` is one more than the follow-up window, so rows enter and leave it. The
mail jobs share no state but the users, so each is run alone, against itself and
the settings; the bots differ only in what `ChatLinks` says of them. Where a run
allows one change by a user, it starts from every state of the settings or links,
so the change is preceded by any history that leads there. In `Accounts_auth` four
requests suffice for ask, replace, take over and click, over two accounts. What
the instances leave open is what the theorems settle for all sizes.

**Deadlock** is checked in every run: no configuration disables it, because timers,
ticks and retries always leave each system a step to take.

### Fairness

- `ReplyPublishing!Fairness`: time passes, timers fire, HTTP calls settle and
  continuations run. Timers are `setInterval` and restart with the process; the
  call to the platform is a `fetch`, whose settling is an assumption about the
  network stack. Failures are bounded, so a platform that refuses for ever is
  outside `DueIsServed`: 100 rows that always fail would keep later ones waiting,
  as the query orders by time and the job has no backoff.
- `BillingWebhook!Fairness`: the provider retries what is not acknowledged, and
  a delivery that keeps being made succeeds in the end. Retrying is what
  `billing.js:182-190` relies on.
- `ReviewIngestion!Fairness`: the tick starts again and again and its awaits end. The manual
  sync is not obliged to do anything.
- `MailJobs!Fairness`: each timer starts a run again and again, and the awaited
  mail is answered. Faults are bounded; a mail server that never answers is outside
  `WantedIsServed`.
- `PlacesPoller!Fairness`: the interval fires (`setInterval`, and a first run after
  the start), the Places API and the messengers answer.
- The quota, the requests and the accounts have no liveness property; nothing there
  is obliged to happen except that time moves on.

## 4. What is proved

For any number of reviews, drafts, events, workers, requests and for any bounds.
The assumptions are the `ASSUME`s of the modules: sets of kinds that are disjoint,
finite where a cardinality is taken, and numbers that are natural.

- **Replies** (`ReplyPublishing_proofs`). Type correctness, `PostedMeansLive`,
  `NeverBeforeItsTime`, `QueuedAsAsked` and `FirstResponseTimeFixed` (proved only,
  checked by no run), `AnnouncedOnce`, and `ImplementsPromise`: every step is a step of
  `ReplyPromise` or a stutter. That the platform only shows what was asked is not
  inductive: a tick publishes what it read earlier. So the invariant adds that
  what is being dialled was granted (`CallsGranted`), that what ticks hold in
  their lists was granted (`QueuesGranted`), and that a call that landed is shown
  (`LandedIsLive`). Announcing once needs that a caller who will announce saw the
  review before anyone had answered it (`OwedOnce`, `Unannounced`).
- **Quota** (`AiDraftQuota_proofs`). Type correctness (the counter stays in
  0..Cap), `CapUnlessStray`, `NeverOvercharged`, `ExactUnlessStray`, from an
  invariant that balances the counter against delivered, awaited, lost and stray
  slots of each month. One lemma (`BooksStep`) says what refunding any set of slots
  and reserving another does to that balance; drafts and audits of any length are
  cases of it. `ImplementsPromise` needs one more balance: open slots that are not
  charged to the present month (`Foreign`) and the stray refunds they turn into grow
  together by no more than the slots of an unlimited plan. `CapIsStrict` removes the
  exception: on an account that stays on a capped plan and has no draft in flight
  when a month turns, the cap holds as such and the counter is exact.
- **Billing** (`BillingWebhook_proofs`). Type correctness, `AppliedOnce`,
  `PlanHasItsSubscription`, `LostOnlyByFaults`, `PayingCustomerServed` and
  `ImplementsPromise`. The invariant adds what the events carry (`EventsTold`), that
  the last event of each subscription tells its state (`LastTold`), that what was
  applied is claimed, and that with events in order what an active event wrote stands
  until a later event writes over it (`ActiveMirrored`).
- **Ingestion** (`ReviewIngestion_proofs`). Type correctness and
  `NothingElseSkipped`. What `last_synced_at` means is inductive only with what
  an answer on its way means: it holds every review from a lower bound at which
  the table was already complete (`JobsCarry`, `AnswersComplete`). With it, a commit
  that stamps drops nothing, which makes the whole sync one step of `IngestPromise`
  (`ImplementsPromise`). `NeverMovesBack`: the bound of a connection only grows,
  whichever sync commits last. `OnlyRaceAndPage`: on a server with credentials and
  without failures, the race with an answer and the page are all that loses a review.
- **Requests** (`ReviewRequests_proofs`). Type correctness, `CooldownHolds`,
  `OnceUnlessOverlap`, `QuietAfterClick`, `LinkInHand`. A follow-up happens once
  because a row that a run still holds has had none, and no row without the mark
  has had any (`HeldByOne`, `UnmarkedIsNew`); who clicked in quiet is on no list
  (`QuietClicked`). `ImplementsPromise` also says that no reminder comes too soon,
  for which what a run still has to mail must be old enough (`TodoAged`).
  `OnceWhenApart`: as long as no two runs await a mail at the same time, a request is
  followed up at most once, with no exception left.
- **Mail jobs** (`MailJobs_proofs`). Type correctness, `OnceUnlessOverlap`,
  `MarkedMeansMailed`, `ReminderMatchesMark`, `QuietWhenDeclined`. A second mail
  needs a run that holds it although the mark stands; the invariant says that such
  a run shares it with another one, or that a mail left unseen. `ImplementsPromise`
  reads the same invariant mail by mail: whichever loop a step belongs to, each mail
  rests, is taken up, leaves, is missed or is waived. `OnceWhenApart`: as long as no
  two runs of one job overlap, a reminder leaves once, and any other mail twice only
  if its first copy left unseen.
- **Poller and links** (`PlacesPoller_proofs`). Type correctness,
  `DeadCodesStayDead` (codes on rows were issued and are the last ones),
  `AnnouncedOnce` and `NothingForgotten` (what the tick has in hand belongs to rows
  inserted in this tick, and has not been told), `QuietAfterUnlink` (a hushed
  account has no link to the chat, but for a chat that left several),
  `ImplementsPromise`, and `FlagMeansTick`: the running flag is set exactly while a
  tick is under way, so no early return or error can shut the next ticks out.
- **Accounts** (`Accounts_proofs`). Type correctness with unique addresses,
  `VerifiedMeansOwned`, `LinkWorksOnce`, `PasswordIsTheLatest`, `ImplementsPromise`.
  The invariant adds that a change link was mailed to nobody but the pending address
  and a verification link of an unverified row to nobody but its address, that every
  number is in one place and unused while it is there, and that a login that will
  renew a hash holds the latest password.

Every invariant and every action property of the passing runs has a theorem. Seven
invariants are no longer checked by a run of their own, because `PromiseKept`, which
is checked and proved, says them step by step: `AppliedOnce`, `AnnouncedOnce` of the
poller, `VerifiedMeansOwned`, `CooldownHolds`, `CapUnlessStray`, `NothingElseSkipped`
and `OnceUnlessOverlap` of the mail jobs. They are theorems all the same, as the
proofs of the refinements rest on them.

**How the refinements are proved.** Each is three facts: `Init` implies the abstract
`Init`; a step from a state of the invariant to another is an abstract step or leaves
the abstract variables alone (`StepRefines`, with a lemma per action); and the
invariant holds throughout. The history variables of the detailed module are what the
abstract one takes for its state, so nothing is looked up in the past.

**Special cases.** `CapIsStrict`, the two `OnceWhenApart` and `OnlyRaceAndPage` are about
the behaviours in which a named nuisance does not occur. Their specifications restrict
`Next` by a condition on single steps, never on a whole behaviour, and each is what a
deployment meets in most months, runs or hours.

Only model-checked: `DueIsServed`, `EventsTakeEffect`, the two `EveryReviewArrives`
and `WantedIsServed` (liveness under fairness, beyond the prover), and the three
violations. A promise is a safety specification: it says nothing of what must happen
in the end, so the liveness properties stay beside it.

## 5. What the code does otherwise than it says

Three disagreements, each with a trace from its run: the violation runs above and
"findings" in `PROJECT.json`.

## 6. Smaller observations

Met while modelling, each visible in the model or at the line, none with a run of
its own:

Replies
- Two overlapping ticks post one row twice; `scheduledReplyPoster.js:109-110` says
  none can. The text is the same or was asked for, so `PromiseKept` holds.
- The badge stays on a text that was edited after it was posted and whose own call
  failed (`reviews.js:1208`, `schema.js:382-389`).

Quota and audits
- The cap on AI drafts can be passed by stray refunds (section 2).
- With the model answering, an audit of two reviews or more is always refused on the
  free plan: the first review takes three slots for its tones, which is the cap.
- In `auditPreviews.js` a rejected draft would be refunded twice (the catch at 204 and
  the test at 213); `generateDraft` catches its errors, so this does not happen.

Billing
- An expiry sets the plan to free whichever subscription it tells of
  (`billing.js:289-300`). A customer who cancels and buys again, and whose old
  subscription then expires, is on free with an active, paid subscription until an
  event renews it. The model has this behaviour with every event in order; one paid
  plan is enough.
- Two checkouts opened before the first payment is on record both pass the guard of
  `billing.js:62-80` and can both be paid, which its comment says it prevents; the
  account can record one of the two active subscriptions.

Ingestion and poller
- The Places poller and the OAuth sync store one Google review under two external ids,
  so it appears and is announced twice when both are set up. A review whose text is
  edited gets a new id in the poller.
- A deleted review that is still on the page comes back at the next tick and is
  announced again.
- A business deleted during its fetch ends the whole tick, although
  `placesPoller.js:24-25` says that one business never blocks the others; the others
  are served by the next tick.
- The deletion of an account removes one of its businesses (`auth.js:596-641`), an
  erasure none, although it records them as erased (`dataSubjectRights.js:179-189`):
  `businesses.user_id` refers to nothing. What stays is polled and synced for ever.

Chats
- Telegram's `/unlink` clears one of several accounts bound to a chat.
- `lineOaLinks.js:190-192` says that both ways of unlinking end in the same row; the
  unfollow leaves the display name.

Requests and mail jobs
- A follow-up run that overlaps another follows up twice what both have read; so do
  onboarding and digest, and the reminder, whose comments say otherwise
  (`onboardingEmails.js:4-6`, `weeklyDigest.js:32-33`,
  `auditFollowupReminders.js:12-14`).
- The mark of a follow-up is set before its mail (`followUpRequests.js:67`): a mail
  that fails is the only one the customer would have had. A follow-up for a request
  deleted during the loop goes out with a link nobody knows.
- Who unsubscribes while a run awaits another mail is still mailed by that run, where
  `auth.js:1859-1860` says that no further sends fire: the flag is read with the
  candidates. `QuietWhenDeclined` exempts the users a run has already read.
- Who deletes an account is still mailed by a run that has read it; or, if a business
  with a connection is left and the setup hint is next, the run ends with an error
  and the users behind wait for the next one (`onboardingEmails.js:92`).
- The window of onboarding is 21 days where a comment says 14.

Accounts
- A login that renews the hash overwrites a password that was set meanwhile
  (`auth.js:312`), and two requests may use one reset link at a time (1540); the
  properties name both as their exceptions.
- Google sign-in of an unknown address inserts NULL into `password_hash`, which is
  NOT NULL (`auth.js:1317-1324`, `schema.js:76`): it never makes an account. The
  comment at 1302 says that linking needs a verified address; the code does not look.
- The link of a resent address change leads to a page the client does not have
  (`/confirm-email-change`; `App.jsx:247` has `/email-change`).

Others
- PUT `/businesses/:id` stores the profile before it checks the platform cap
  (`businesses.js:221`): a request answered with 402 has changed the business.
- The daily cap on public responses counts rows, which can be deleted and posted again
  (`reviewResponses.js:187`).

## 7. Not modelled

- **Google credentials.** A refresh that is refused clears the tokens of the row, also
  when a callback has stored new ones meanwhile (`google.js:76`). The code has no
  check that could prevent it and says nothing about it, so a property would only
  restate it. The other models take the access token for granted.
- **Synchronous handlers over one table**: public responses, claims, share tokens,
  tags, templates, auto rules, API keys, lists, administration. No step of another
  actor comes in between, and what they promise is a unique index or a transaction.
- **Outbound webhooks**: one attempt per endpoint, no retry, a log cut to its last 50
  rows. What is announced is in `ReplyPublishing`.
- **Wording and encodings**: mail texts, prompts, parsers of inbound mail, the QR
  payload, the widgets, exports.
- **The client, the data pipeline, scripts, the archived extension**: views over the
  HTTP interface, or not part of the running server. They are most of the repository's
  lines.
- **Inside modelled components**: dates and trimming of billing claims, the counters
  and errors of the sync, sessions and rate limits. The notes in `PROJECT.json` list
  them per component.
