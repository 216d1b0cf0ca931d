# Formal model of Cantinarr's request server

Cantinarr is a self-hosted server (Go, SQLite) and an app (Flutter) through
which the people of a household ask for films, series, books and music. The
server checks who may ask for what, asks the libraries (Radarr, Sonarr,
Chaptarr, Lidarr) to get it, follows the outcome, and runs an assistant that
repairs broken downloads. This directory holds TLA+ models of the parts whose
correctness depends on *when* things happen, the TLC configurations that check
them on small instances, and proofs, checked by TLAPS, that hold for every size.

All paths below are relative to `src/server/internal/` unless they start with
`src/`.

1. [The system](#1-the-system)
2. [The modules](#2-the-modules)
3. [What is checked](#3-what-is-checked)
4. [Fairness](#4-fairness)
5. [What is proved](#5-what-is-proved)
6. [Disagreements found](#6-disagreements-found)
7. [What is only model-checked, and what is not modelled](#7-what-is-only-model-checked-and-what-is-not-modelled)
8. [Plan](#8-plan)
9. [How to run it](#9-how-to-run-it)

## 1. The system

One process, one SQLite database with a single connection (`db/db.go`,
`SetMaxOpenConns(1)`): a transaction is atomic and no other statement runs
beside it. Everything else interleaves: HTTP handlers, tickers, workers and
webhooks are goroutines, and each call to a library or a provider may take long,
fail, or succeed with its answer lost. What a goroutine remembers from before
such a call may be stale after it, and a restart forgets it.

| Component | Source | State | Operations | Talks to | What is hard | What makes it correct |
|---|---|---|---|---|---|---|
| **Durable delivery** of book and music requests | `request/dispatch*.go` | `request_log` (status, park_reason, book_format), `request_dispatch` (one job per format: state, lease, attempts, delivery_started_at, code), `request_dispatch_locks` (one row per library instance) | save, approve, claim, heartbeat, probe, guard, write, finish, back off, retry, cancel, unsubscribe, deny, reconcile approvals, sweep imports | allowances (same transactions), Chaptarr/Lidarr (HTTP), hub and notifications (after commit) | several sweeps claim at once, leases expire, replies are lost, crashes between write and record, formats settle separately | one delivery attempt at a time per instance; a settled request is settled by its jobs; nobody decides a job in flight; every saved job gets somewhere |
| **Allowances** | `requestquota/service.go`, `request/quotas.go` | `request_quota_items`, `request_quota_charges`, `user_request_quotas` | price, accept, release and refund, start, refund no-op, save, reset, preview | called inside delivery's and the service's transactions | one charge carries several items of several requests; subscribers join, leave and rejoin around the first write | work in use is paid for and not refunded; delivered work is never refunded; nobody exceeds the allowance |
| **Request service** | `request/service.go` | the same rows, plus waiters and legacy pending rows | create, deny, legacy approval, sweep of legacy rows, clean-up of author imports after a denial, status views | delivery, Chaptarr, push | reads before transactions, best-effort clean-up after them | a closed request leaves nothing armed behind, and hurts no sibling |
| **Chaptarr client** | `chaptarr/client.go` | none (Chaptarr keeps authors, books, pending imports) | add book, monitor, author import status / retry / cancel, guard before each write | Chaptarr | an unknown author is imported by Chaptarr's own queue, minutes to days | no write without a passed guard |
| Movie and TV delivery | `request/movie_dispatch.go`, `tv_dispatch.go` | job rows with phases and season targets | claim, phase by phase writes, finish | Radarr, Sonarr | resume between phases after a lost reply | a phase is replayed only if its effect is absent |
| TV following | `request/tv_follow.go` | per-season and per-episode rows | observe, search, confirm, pause, resume | Sonarr | a search whose answer was lost is uncertain | no repeated search without evidence |
| Requester tags | `request/requester_tags.go` | tag jobs, same instance locks | claim, apply, retry | all libraries | shares delivery's locks without a heartbeat | tagging and delivery exclude each other |
| Ledger, content notifications | `request/ledger.go`, `content_notifications.go` | outbox rows | record, send | push | sent or not after a crash | at most once per event |
| Remediation: issues, runs, approvals | `remediation/` | `issues`, `agent_runs`, `agent_actions`, standing rules | enqueue, claim, run, park for approval, approve, execute, resume, recover | AI provider, agent tools | a run is parked for days, two runs race for an issue, a crash during an approved action | an approved action runs at most once; an unknown outcome is shown, never retried |
| Remediation: observation, alerts | `remediation/observation.go`, `alertqueue.go` | issue rows, alert queue | observe, group, dispatch | webhooks, instances | the same event arrives twice | one open issue per problem |
| Accounts, sessions, OAuth, OIDC | `auth/` | users, devices, refresh tokens, codes, flows | log in, rotate, revoke, link | everything | rotation races with itself and with revocation | a revoked session stays revoked; a code is spent once |
| AI chat turns | `ai/` | conversations, live turns, admission counters | admit, run, share, stop | providers, tools | several slots are taken and must all be returned | admission never leaks a slot |
| Provider accounts | `codexapp/`, `grokoauth/` | token rows, pending pair, child process | refresh, persist, revoke | providers | refresh spends the old token before the new one is saved | never two refreshes of one token |
| Agent tools, change proposals | `mcp/`, `mcpserver/` | proposals | propose, claim, execute, expire | libraries | two admins, or a decision against expiry | executed at most once |
| Media server access | `mediaaccess/` | accounts, grants, invitations | create, grant, revoke, recover | Plex, Jellyfin, Emby | remote account made, local row refused | no orphaned access |
| Media availability | `mediaavailability/` | cache with scope revision | look up, invalidate | media servers | a late answer for an old scope | no answer from an old scope |
| Notifications | `push/`, `discordnotify/`, `websocket/` | outboxes, client sets | enqueue, claim, send | APNs, Discord, clients | a sender dies after posting | never posted twice |
| Instances and webhooks | `instance/`, `webhooks/` | instances, grants, webhook settings | configure, authorise, receive | libraries | grants change under running work | work stops when access is withdrawn |
| Database | `db/` | all tables | open, migrate | – | – | runs once before anything else |
| Apple TV control | `appletv/` | devices, pairing | pair, open, control | a helper process | one conversation per device | – |
| Library and metadata clients | `sonarr/`, `radarr/`, `lidarr/`, `tmdb/`, … | none | HTTP calls | – | – | – |
| App | `src/app/` | screens | – | the API | – | – |

How a book request flows, end to end:

1. `saveDelivery` (handler) prices the selection and writes request, jobs,
   subscription, items and charges in one transaction; it wakes the worker.
2. A sweep (`dispatchDue`, 10 s ticker or wake) claims due jobs. A claim writes
   a random token and a five-minute lease into the job row and into the lock row
   of the library instance. A heartbeat renews both every 30 s.
3. `dispatchFormat` checks access, probes for an earlier attempt, checks its
   leases, reads the library, and writes through a client whose every write
   first runs `startDelivery`: a transaction that checks both leases again and
   sets the permanent marker `delivery_started_at`.
4. `finishDelivery` records the outcome, but only if the job still carries the
   token; it settles the request when no job is left, or parks it when every
   job left waits for an author import.
5. `sweepDeliveryImports` watches those imports. Users retry, leave or cancel;
   admins approve or deny; `reconcile…Approvals` completes what turned out to be
   owned. All of them refuse to touch a request with a job in flight.

The hazards this creates are listed with their lines and the properties that
guard against them in `PROJECT.json`.

## 2. The modules

| Module | What it is | Theorems |
|---|---|---|
| `RequestDispatch` | durable delivery of books and music, with the library it talks to | 10 |
| `DeliveryIntent` | the promise of durable delivery, without its machinery; implemented by `RequestDispatch` | |
| `RequestQuota` | allowance accounting of shared book requests | 6 |
| `Remediation` | issues, agent runs, approvals, their execution, recovery | 7 |
| `FixLedger` | the promise of approving a fix; implemented by `Remediation` | |
| `RequesterTags` | tagging delivered titles with who asked for them | in `Services` |
| `TVDelivery` | delivery of season and pilot requests of one series | in `Services` |
| `TVFollow` | following the missing episodes of a series | in `Services` |
| `GrokTokens` | the authorization of one xAI account | in `Services` |
| `DiscordOutbox` | alerts posted to one Discord webhook | in `Services` |
| `ProfileChanges` | proposed changes of a quality profile, and restoring them | in `Services` |
| `MediaAccess` | accounts on one media server, following its grants | in `Services` |
| `SignIn` | passwords, invitations, single sign-on, OAuth codes and tokens | in `Services` |
| `Services` | these eight side by side, with assumptions on the constants and the properties of each | 10 |
| `MCRequestDispatch`, `MCRequestQuota`, `MCRemediation`, `MCServices` | definitions that instantiate the above for TLC | |
| `MCServicesLive` | delivery and five services side by side, for liveness | |
| `RequestDispatchProofs` | types, leases, fencing and the delivery marker of `RequestDispatch` | |
| `RequestSettlementProofs` | rows against jobs in `RequestDispatch`, and its refinement of `DeliveryIntent` | |
| `RequestQuotaProofs` | all safety of `RequestQuota` | |
| `RemediationProofs` | all safety of `Remediation` but `UnknownStays`, and the ledger it implements | |
| `RemediationFinalProofs` | that one: what may become of an issue with an unverified outcome | |
| `LibraryServicesProofs` | tags, seasons and follows | |
| `AccountServicesProofs` | Grok tokens, Discord alerts, profiles and signing in | |
| `ServicesProofs` | media accounts, and the types of all services | |

In all modules one action is one transaction of the code, or the part of a
goroutine between two calls that leave it. What lives in Go locals between such
calls is model state, and `Crash` loses it. Variables marked *history* record
what happened for the properties and are read by no action. Every bound
(`MaxFault`, `MaxRun`, …) sits in the guard of the action it bounds.

### RequestDispatch

| Variable | In the code |
|---|---|
| `status`, `park`, `wanted` | `request_log.status`, `.park_reason`, `.book_format` |
| `job[r, f]` | a row of `request_dispatch`: state; `token`/`live` for `lease_token` and `lease_until > now`; `attempts`; `started` for `delivery_started_at > 0`; `due` for `next_attempt_at <= now`; `code` |
| `lock[i]` | a row of `request_dispatch_locks`; the empty token is "no row" |
| `worker[w]` | a goroutine in `dispatchFormat`: where it is, its job and token, the write it is about to make (`op`), the outcome it will record (`out`) |
| `library`, `author` | Chaptarr's record of each format (absent, armed in a queued import, added, monitored) and of each author (absent, importing, failed, present); external |
| `sweep` | what `sweepDeliveryImports` read about one request, until its transaction |
| `decision[r]` | what a deny or cancel handler read before its transaction, and its clean-up after it |
| `faults` | bound on crashes and failed statements |

| Actions | In the code |
|---|---|
| `Create`, `Approve`, `RetryDelivery` | `saveDelivery`, `approveDelivery`, `DeliveryAction("retry")` |
| `LoadDecision`, `Deny`, `CancelDelivery`, `RefuseDecision` | `DenyRequest` and `cancelDelivery`: the read before the transaction, the transaction, its refusal |
| `CheckCleanUp`, `CancelImport` | `cancelAuthorImportForDeniedRequest`: status and sibling check, then the deletion |
| `Unsubscribe` | `cancelDelivery` by one of several subscribers |
| `Claim` | `claimDelivery` |
| `Load`, `Probe`, `CheckHeld`, `ReadLibrary`, `Guard`, `Write`, `Finish`, `Release` | `dispatchFormat` in order; `Guard` is `startDelivery` as the client's mutation guard, `Finish` is `finishDelivery`, `Release` the deferred deletion of the lock |
| `RenewJob`, `RenewLock`, `ExpireJob`, `ExpireLock`, `BackoffEnds` | the heartbeat's two statements, and time |
| `ReconcileApproval` | `reconcileBookApprovals`, `reconcileMusicApprovals` |
| `ReadImport`, `ApplyImport` | `sweepDeliveryImports`: the library call, then the transaction |
| `ImportLands`, `ImportFails`, `ImportCancelled`, `AddedByHand` | the library and its owner, external |
| `Abandon`, `Crash` | a failed statement, after which an attempt returns with nothing recorded; a restart |

Music is the case of one format and `NativeImport = FALSE`: Lidarr has no
pending-import queue, everything else is the same code.

Abstractions, by name:

- *Time* is the two booleans `live` and `due`. Without `AllowStall` a lease
  never expires while its worker runs (the heartbeat's margin is ten beats);
  with it, leases expire at any moment and the heartbeat may revive them.
- *Tokens* are 128 random bits in the code; the model draws one that is not in
  use.
- *Messages* and most codes are left out. `code` keeps the two that decide what
  the next attempt does; `import_failed` also stands for `import_cancelled`.
- *Attempts* saturate at `MaxAttempts` (50 in the code).
- *One deny or cancel handler per request* at a time. A second one would find
  the request no longer pending and be refused.
- A *failed statement* makes the attempt return. The one statement whose error
  is ignored (the read of attempts and code before the probe) is treated alike.
- The library's *records only gain monitoring*; a search triggered after
  monitoring is not a separate write.
- In `Load`, access, catalogue and configuration checks are one choice between
  passing and the two ways of failing.

### DeliveryIntent

What delivery promises its users: per format an intent that is open, delivered
or dropped, decided once; a request whose status always follows from the intents
of the formats somebody wants; and a set of formats the library may have been
asked for, which grows only while the format is open. `RequestDispatch`
implements it under the mapping `job.state ↦ intent`, `job.started ↦ touched`
(`ImplementsIntent`). Leases, crashes, retries, sweeps and parking are
stuttering steps there.

### RequestQuota

| Variable | In the code |
|---|---|
| `item[r, u, f]` | `request_quota_items`: exists, released, delivery started, its charge |
| `charge[c]` | `request_quota_charges`: user, allowance key (`format`), how many of the allowance windows (1, 7 and 30 days) it has left (`age`), reset, refunded |
| `subs`, `wanted` | `book_request_waiters`, `request_log.book_format` |
| `status`, `job` | `request_log.status` and the part of `request_dispatch` the accounting reads |
| `rule[u, f]` | the allowance in force for a user and a format, override or default: count and window |

`Submit` is `saveDelivery` with `Price`, `Failure` and `Accept`; `StartDelivery`
is `startDelivery`; `Complete` is `finishDelivery` and the approval
reconciliation with `refundNoOp`; `Unsubscribe`, `CancelAlone` and `Deny` are
`cancelDelivery` and `DenyRequest` with `Release`; `Save` and `Reset` are the
admin operations; `LeaveWindow` is time. All requests are for one title of one
instance, so a unit of allowance is its format, and several rows exist because a
later request for formats nobody waits for gets a row of its own.

`Save` sets or drops a user's overrides, or sets defaults, which reach whoever
inherits them; `rule` is what these come to, and `Settings` bounds what that can
be. A charge keeps its time and is compared with the window in force (`Recent`), as
`Read` and `Price` do, so a longer window brings back charges that had left the
shorter one: they count again and can be reused again. A rule without a limit is
not a case of its own: it is one whose count the `MaxCharges` rows cannot exceed.

### Remediation

| Variable | In the code |
|---|---|
| `issue` | `issues`: status, `active_run_id` (`claim`), reopened, number of human messages |
| `run` | `agent_runs`: issue, status, `proc_generation`, the message up to which its transcript has been read (`seen`), tool calls |
| `act` | `agent_actions`: run, status, whether a rule approved it |
| `rule` | the standing rule that matches every proposal: active or paused |
| `effect` | history: how often each action changed a library |
| `jobs` | the job channel, bounded by `jobQueueSize` |
| `worker` | a goroutine of `StartWorkers`: what it is about to do with which issue and run |
| `decider` | a request or sweep deciding a proposal, between its transactions |
| `todo` | decisions the recovery pass in progress has still to hand over |
| `gen` | `procToken` |

| Actions | In the code |
|---|---|
| `Take`, `Preflight`, `Claim`, `Reclaim`, `Recheck` | `Run` and `Resume`: the observation before a claim, `claim` and `claimResume`, the check after it |
| `FirstTurn`, `Turn`, `Think` | `loop`: unread replies, the step budget, the provider's answer |
| `Propose`, `Ask`, `Conclude`, `Park` | the gates and the terminal tools, and `parkWith` |
| `Approve`, `Deny`, `PreflightDecision`, `ClaimAction`, `CancelClaim`, `Dispatch`, `Settle`, `Stage` | `approveAction` and `denyAction`: checks, the compare-and-swap, the change of the library, its outcome, the hand-off to the parked run |
| `RecPass`, `RecStage` | `recoverWork` and `recoverDecisionHandoffs` |
| `Reply`, `HumanClose`, `Reopen`, `SetRule`, `Observe` | people, and the observation of the library |
| `Crash` | process loss, with the repairs of `db/db.go` at the next start |

`FixLedger` says what approving promises whatever runs, sweeps and restarts do:
decided at most once, the library changed at most once and only under that
decision, a recorded outcome never turned into another. `Remediation` implements
it with `fix ↦ act.st` and `sent ↦ effect` (`ImplementsLedger`).

Abstractions: one standing rule; `observing` and `recovering` are `tracking`; the
daily cap is `MaxRun`; a turn makes one tool call; an observation's verdict is a
choice among what the code may do about it; reads are merged with the
compare-and-swap that verifies them; transcripts, unread flags, notifications,
settings and modes are left out; the cursor of a run that ended is forgotten.

### RequesterTags

State: `job` (`request_tag_jobs`), `lock` (the same `request_dispatch_locks` row
delivery uses), `enabled`, `asks` (requesters), `done` (delivered), `native`
(label and title in the library), `refresh` (Lidarr re-reading an artist and
writing an older copy back), `worker`, `delivery` (the token under which delivery
holds the instance). Actions: `Ask`, `Withdraw`, `Retry`, `Toggle`,
`CancelIneligible`, `Claim` and the attempt's `Read`, `Guard`, `Write`, `Finish`,
`Fail`; `DeliveryTakes`/`DeliveryEnds`; `Stall`, `Crash`, expiry, back-off. There
is no heartbeat, so a stalled attempt is marked `late`. Colliding labels and the
identity checks of titles are left out.

### TVDelivery

State: `want` and `phase` (`request_tv_targets`), `job`, `paid` (unrefunded
charges), `match` (the saved match is current), Sonarr (`series`, `watched`,
`flag`, `eps`, `files`, `picked` for pending add options), `attempt`, and history
of what was searched and written. Actions: `Save`, `Correct` (an administrator
corrects the match), `Claim`, then `Stale`, `Read`, `Add`, `Monitor`, `Episodes`,
`Search`, `Done` in the order of `dispatchTV`; `Refuse`, `Crash`; Sonarr's
`Refreshed` (the pass after an add) and `Download`. Leases are those of
`RequestDispatch` and appear only as what they guarantee: one attempt at a time.

### TVFollow

State: `follow` and `row` (`request_tv_follows`, `request_tv_follow_episodes`),
`request` (first delivery), `air`, Sonarr (`sonarr`, `command`), `lock`, `att` (the
attempt of each follow), `clock` (orders searches, as `searched_at`), history
`posts`, `real`, `touched`. Actions: `Save`, `Stop`, `Deliver`, `Sweep`,
`SweepUncertain`, the attempt's steps (`Series`, `Add`, `Watch`, `Activate`,
`Rows`, `Look`, `Monitor`, `Mark`, `Queue`, `Intent`, `Post`, `Receipt`, `Done`,
`Superseded`), `Refuse`, `Lapse` (lease lost), `Crash`, and Sonarr and its owner
(`Air`, `Download`, `Refreshed`, `SearchEnds`, `ByHand`). What a media server
covers may differ at every look.

### GrokTokens

State: `row` (`user_grok_accounts`), `pending` (`pendingAuth`), `lock`, `caller`
(goroutines in `AccessToken`), `slot`/`flow`/`open` (device logins), xAI's
`current` refresh token of each grant, `aged`, history `again`, `lost`, `gone`.
Actions: `Begin`, `Publish`, `Poll`, `Answer`, `Link`, `Cancel` of a login; `Call`,
`Load`, `Land`, `Send`, `Save` of a refresh; `Unlink`, `Age`, `Crash`. A pair is
its grant and a number; xAI takes each refresh token once.

### DiscordOutbox

State: `conf` (settings with revision, epoch and floor), `cooling`, `row`
(`discord_notifications`), `seen` (`discord_availability`), `saved`, `content`,
`scan`, `sender`, history `posts`, `old`, `told`. Actions: `Create`, `Scan`/`Record`
(the availability scan, and its transaction after the library answered), `Save`
(settings), `Tick` (reaping and choosing), `Send`, `Finish`, `Warm`, `Due`, `Age`,
`Arrive`, `Leave`, `Crash`. Units the code batches into one row get a row each.
Texts, mentions split over 75, the test message and the alert category of new
requests are left out.

### ProfileChanges

State: `profile` (the library's), `proposal` (`profile_change_proposals`), `change`
(`external_setting_changes`), `lock` (`lockArrSettingsMutation`), `actor` (an
administrator's request between its steps), history `written`, `restored`,
`landed`. Actions: `Park` (a proposal), `Decide`, `Claim`, `Check`, `Drifted`,
`Guard`, `Write`, `Verify`, `Record`, `Finish`, `Release`; `Reject`, `Sweep` (the boot
repair and the expiry), `Age`, `Edit` (by hand), `Crash`. A value stands for a
complete profile and its hash.

### MediaAccess

State: `invite` (a server that is shared by invitation, as Plex, or one with
accounts), `users`, `granted`, `unlinked`, `row` (`user_media_server_accounts`), the
server's `remote` accounts and `admin`s, `todo` (reconciliations asked for), `op`
(what runs under the mutex of each user), history `made`, `astray`, `touched`.
Actions: `Grant`, `Revoke`, `Delete`, `SetManagement`, `Create`, `Invite`, `Link`,
`LinkOwn`, `Unlink`, `Take`, `Reconcile`, `Working` (the next step of an operation:
create, insert, undo, grant, mark, ask, set, stamp, leave), `Sweep` (drift),
`ByHand`, `Crash`. Reading the user and the grant is one step; a stale row's
self-service check is part of creating or linking; library sync and notices are
left out. `touched` marks accounts changed by hand, or asked for under one user
while they are another's: the state of these is not promised.

### SignIn

| Variable | In the code |
|---|---|
| `role`, `pw` | `users`: role, and whether a usable local password exists |
| `conf`, `tested` | `oidc_config` (enabled, SSO-only, a fingerprint of the rest) and the fingerprint last tested |
| `identity` | `oidc_identities`: whom the one external person is linked to |
| `invite` | `connect_tokens`: the last invitation |
| `device`, `agent` | devices not revoked, a pair of user and sign-in method; the MCP client with its `oauth_refresh_tokens` |
| `code` | `oauth_authorization_codes` |
| `flow` | `oidcFlows`: one browser's attempt, hand-off or consent |
| `op` | requests between their statements |
| `kept`, `spent`, `twice`, `relinked` | history |

Actions: `Login`; `Redeem`, `Claim`, `NewDevice` (invitations, password path);
`Form`, `Authorize`, `Issue`, `Exchange` (OAuth); `Refresh`, `Rotate`, `Mint`; `Begin`,
`Callback`, `Handoff`, `Commit`, `Consent`, `Expire`, `Tested` (single sign-on);
`Save` (policy), `Unlink`, `SetRole`, `Delete`, `Revoke`, `SetPassword`, `Invite`,
`Crash`. `policyMu` is not a variable: `Unlocked` derives it from `op`, since
exactly the requests between its lock and unlock hold it. One provider, one
person, one browser, one code and one MCP client; a device is the same until it
is revoked. Left out: Plex sign-in, passkeys, set-up, the older token formats,
`password_enabled`, re-use of hardware identifiers, children's accounts, rate
limits, changes of the external address; `SetPassword` is one step.

### Services, MCServices and MCServicesLive

The services share no state with each other at this level, so a behaviour of
`Services` is about one of them, named by `part`, while all others stay in
their single start state. One run then answers one question (are all services
safe, do they all finish) for the disjoint union of their state spaces. `Services`
leaves all its constants open and states what it assumes of them; `MCServices`
adds the symmetry TLC uses. There `n1` and `n2` are the two actors of whichever
part runs (`Party`). `Moves` is a second instance of `MediaAccess` over the same variables: one
user and two accounts with a failure, next to two users of one account without.
In `MCServicesLive` the fairness of all parts is assumed together; no fair action
is enabled where an idle part starts, so it demands nothing of the idle ones.

### Deliberate mistakes

A definition that stands right before another with the same parameters and
differs from it by one mistake (`ClaimIgnoresLock` before `Claim`,
`GuardWithoutMarker` before `Guard`, …) is used by no action. It is there to be
substituted for its neighbour: `PROJECT.json` (`mutants`) names the property
that must then fail, which shows that the property says something about the
code.

## 3. What is checked

TLC explores each instance completely.

| Run | Instance | Properties | What it shows |
|---|---|---|---|
| `DispatchBook` | 1 request × 2 formats, 2 workers, tokens 1–4, native import, 1 fault | `TypeOK`, `RequestMirrorsJobs`, `DeliversWhatIsWanted`, `ParkMatchesJobs`, `InFlightNotDecided`, `WritesUnderLease`, `OneWriterPerInstance`, `ImplementsIntent` | request row and job rows never disagree through any order of users, admins, sweeps, workers and the library; two workers race on one instance, with a crash or failed statement and expiring leases (1.1 M states) |
| `DispatchStall` | 1 × 1, 2 workers, stalls, native import, 1 fault | `WritesAreMarked`, `FencedOutcome` | what survives when leases expire under a running worker: a superseded worker records nothing, and its writes were marked (755 k) |
| `QuotaShared` | 2 users, 2 rows × 2 formats, 2 charges, 2 windows, 2 rules | `TypeOK`, `NoFreeRide`, `RefundsAreFinal`, `OneRowPerFormat`, `NeverOverAdmitted`, `SubscribersAreAccounted` | users share, leave, rejoin and re-request a title whose formats end separately: charges, items and refunds stay consistent, also when windows change (356 k) |
| `Remediation` | 1 reported issue, 2 workers, 1 decider, 2 runs, 1 proposal, 1 reply, 1 restart | `TypeOK`, `UnknownStays`, `ClaimExcludes`, `ClosedIsQuiet`, `ApprovedAfterReading` | claims exclude, closing is final, an unverified outcome puts its issue to rest for good, nothing is approved over an unread reply (670 k) |
| `RemediationLive` | 1 automatic issue, 1 worker, 2 deciders, 1 run, 1 proposal, 1 restart, 1 failed statement, fairness | `ImplementsLedger`, `BadOutcomeDisarms`, `WorkIsTaken`, `HandoffsResume`, `DecisionsAreHandedOver` | racing decisions implement the ledger; lost jobs and failed hand-offs are brought back (86 k) |
| `Services` (module `MCServices`) | each service of `Services` with two actors (or one actor and two objects) and one fault | `TypeOK`, `TagsAreRight`, `SeasonsAreRight`, `SearchesAreKnown`, `TokensAreKept`, `ChangesAreKnown`, `AccountsAreKnown`, `SignInsAreSound`, `WorkIsWanted`, `AlertsAreNews` | the services around delivery are safe (1.0 M) |
| `ServicesLive` | delivery and five services, one job and one fault each, fairness | `DeliveryEnds`, `ServicesEnd`, `OutboxesDrain` | what was accepted is finished (42 k) |
| `DispatchReplay`, `DispatchStaleDeny`, `QuotaNoOp`, `RemediationRestart`, `RemediationLate` | small | one claim each | the claim does not hold; see [section 6](#6-disagreements-found) |

The properties in words. Delivery and allowances:

- `RequestMirrorsJobs`: a request is pending exactly while a job is unfinished.
- `DeliversWhatIsWanted`: "requested" means every format still wanted is complete.
- `ParkMatchesJobs`: park_reason tells truthfully who must act next.
- `InFlightNotDecided`: nobody denies, cancels, settles or parks a request with a job in flight.
- `WritesUnderLease`, `OneWriterPerInstance`: a worker about to write holds job and instance, alone.
- `WritesAreMarked`: the delivery marker is durable before the library is asked for anything.
- `FencedOutcome`: only the owner of an attempt ends it.
- `NoFreeRide`, `RefundsAreFinal`: work in use is paid by its own user's unrefunded charge; a refunded charge carries only released work that never began.
- `OneRowPerFormat`, `SubscribersAreAccounted`: one row delivers a format, and each subscriber has an item there unless it proved to be a no-op.
- `NeverOverAdmitted`: no step that leaves a user's rule as it is takes them beyond it. A new rule may: an allowance can be lowered, or its window widened, below what was used.
- `DeliveryEnds` (`DeliveryProgress`, `WaitsEnd`): once nobody presses Retry any more, every queued job ends delivered, waiting for an import, withdrawn, or in front of a person; no request waits for an import that is no longer running.

Remediation:

- `UnknownStays`: the step after which a fix may have changed the library without anyone knowing puts the issue to rest, with an administrator or closed, and claimed by no run; no later step gets it out, except one: cancelling a second fix of the issue that was executing beside the first. The state property `UnknownIsFinal`, which has no such exception, is what `RemediationLate` refutes.
- `ClaimExcludes`: `active_run_id` names the one running run of an issue under investigation.
- `ClosedIsQuiet`: a closed issue has no live run and no proposal to approve.
- `ApprovedAfterReading`: a proposal is approved only if its run had read every human message.
- `BadOutcomeDisarms`: the step that makes a bad outcome of an automatic approval durable leaves the rule paused, restarts included.
- `WorkIsTaken`, `HandoffsResume`, `DecisionsAreHandedOver`: idle issues, staged hand-offs and durable decisions do not stay that way.

The services, each a conjunction over the part it is about:

- `TagsAreRight`: tagging writes only while no delivery holds the instance; "applied" is a tag that is on the title, Lidarr's refreshes included.
- `SeasonsAreRight`: a delivered season is monitored whichever request came after it; what a request changed in Sonarr stays paid for, also when the attempt after a lost reply finds it done.
- `SearchesAreKnown`: a search is sent once for a follow, unless the episode is changed by hand; what is called submitted was taken by Sonarr.
- `WorkIsWanted`: a cancelled tag is reopened only by its requester's return; no search beside another follow's uncertain one, unless a third follow's search is known, which is all that is looked at then, or the episode was changed by hand; none for a stopped follow after its first delivery.
- `TokensAreKept`: the newest refresh token is in the row, in memory or on its way there; no consumed one is sent again.
- `AlertsAreNews`: an alert is posted at most once, and only about what is new since announcements were switched on.
- `ChangesAreKnown`: a proposal's write is sent once, a change is restored once, every write that landed is in the history, one proposal waits at a time.
- `AccountsAreKnown`: a settled account is on exactly if its user is granted the server, and an account that was made is recorded or being recorded.
- `SignInsAreSound`: requiring single sign-on leaves an administrator with a password and no local session of a regular user; what an identity gave ends with its unlinking, for good; an invitation works once, and an MCP client has one refresh token.
- `ServicesEnd`, `OutboxesDrain`: a due tag ends applied, refused or withdrawn; an accepted season is delivered or put before someone; an aired episode is worked on, found or paused for; an alert is decided; access comes to be what is granted.

Bounds, and why they suffice. Two formats of one request give every mixture of
outcomes at settling and parking; two workers are what a lease can confuse; four
tokens cover the job rows, the lock and a fresh one. `MaxAttempts = 2` has a first attempt, a repeated one and the
limit. One fault is enough to leave any row half-way, since the recovery path is
the same each time (two for a profile, where a lost reply and a restart have to
meet). In `RequestQuota` two charges make reuse, refund, reset and re-purchase
meet, and two rules, one request in the shorter window and none in the longer,
make a charge leave its window and come back; which users have which changes at
any time. A count of zero is the limit that bites, since one title never needs a
second charge while the first one counts. In `Remediation` two workers and two runs make a resumed and a fresh run
race for a claim, one proposal and two deciders make decisions race, a queue of
one overflows at the second job, and two steps let a run read, then propose. Two
follows share one episode's search; two callers and two grants let a refresh meet
a relink; two administrators race for one proposal; two sign-ins, a browser and
two changes of policy, roles or links let a sign-in outlive what allowed it.
In the safety runs the actors are interchangeable and TLC uses that symmetry,
except where identifiers are handed out in a fixed order (runs, proposals,
charges, tokens). No run that checks liveness uses symmetry.
One proposal is enough for the outcome of a fix to become unverified in each way
the code has (an uncertain answer, a restart, an outcome that is recorded again) and
for every later step to be tried on its issue. The exception of `UnknownStays` needs
two fixes that execute at a time, which takes three proposals: `UnknownStays` was
also explored on the instance of `RemediationLate`, where that happens (3.0 M
states, no violation); it is too large to be kept as a run.
`CHECK_DEADLOCK FALSE` is set because a system whose requests are all settled, or
whose bounds are reached, has nothing left to do.

## 4. Fairness

Assumed is only what the scheduler, the tickers and clocks give.

*Delivery* (`RequestDispatch!Fairness`):

- a running goroutine takes its next step, and its HTTP calls return (weak
  fairness of `WorkerStep`; the clients have timeouts);
- leases and back-offs end (weak fairness of expiry and `BackoffEnds`);
- the sweeps return to every due job and every waiting request again and again
  (strong fairness of `Claim` per job and of `ReadImport`): `dispatchDue` walks
  all due jobs on each tick, so a job that finds the instance locked now is tried
  on the next tick. Strong fairness is needed because a claim is disabled whenever
  another job of the instance holds the lock;
- the library eventually answers the import sweep (`ReadImport` with a real
  verdict), and the sweep's transaction runs.

*Remediation* (`FairSpec`): each worker goroutine and each decision under way
takes its next step, and the recovery pass runs at start and every minute
(`StartWorkers`, `remediation/worker.go:84-101`).

*Services*: the attempt under way goes on. Sweeps return to each job or follow,
strongly fair because the instance may be busy at any one tick: tags and series
every 10 s, follows every 5 min. The Discord sender ticks every second, its
reaper and back-offs are time. The drift sweep of media access repeats, a
reconciliation asked for runs, and the per-user mutex is handed on (strong
fairness of `Take`; Go's mutexes do not starve a waiter).

Users, administrators, the provider's decisions, imports, failures and crashes
are under no obligation. `GrokTokens`, `ProfileChanges` and `SignIn` state safety
only: they do what a request asks and nothing in the background.

## 5. What is proved

Thirty-three theorems, one for each property of the runs that this section names. They
hold for every value of the constants that satisfies the module's assumption: any
number of requests, formats, users, issues, workers and so on. No theorem depends
on a bound of a run.

| Theorem | Module | States |
|---|---|---|
| `TypeCorrect` | `RequestDispatchProofs` | `Spec => []TypeOK` |
| `NotDecidedInFlight` | `RequestDispatchProofs` | `Spec => []InFlightNotDecided` |
| `OutcomesAreFenced` | `RequestDispatchProofs` | `Spec => FencedOutcome` |
| `NoUnmarkedWrite` | `RequestDispatchProofs` | `Spec => []WritesAreMarked` |
| `WritesHoldLeases` | `RequestDispatchProofs` | `~AllowStall => (Spec => []WritesUnderLease)` |
| `OneWriter` | `RequestDispatchProofs` | `~AllowStall => (Spec => []OneWriterPerInstance)` |
| `RowsMirrorJobs` | `RequestSettlementProofs` | `Spec => []RequestMirrorsJobs` |
| `DeliveredIsWanted` | `RequestSettlementProofs` | `Spec => []DeliversWhatIsWanted` |
| `ParkHolds` | `RequestSettlementProofs` | `Spec => []ParkMatchesJobs` |
| `IntentImplemented` | `RequestSettlementProofs` | `Spec => ImplementsIntent` |
| `TypeCorrect` | `RequestQuotaProofs` | `Spec => []TypeOK` |
| `WorkIsPaid` | `RequestQuotaProofs` | `Spec => []NoFreeRide` |
| `RefundsStay` | `RequestQuotaProofs` | `Spec => []RefundsAreFinal` |
| `RowsAreShared` | `RequestQuotaProofs` | `Spec => []OneRowPerFormat` |
| `SubscribersAreKnown` | `RequestQuotaProofs` | `Spec => []SubscribersAreAccounted` |
| `AllowancesHold` | `RequestQuotaProofs` | `Spec => NeverOverAdmitted` |
| `TypeCorrect` | `RemediationProofs` | `Spec => []TypeOK` |
| `ClaimHolds` | `RemediationProofs` | `Spec => []ClaimExcludes` |
| `ClosedHolds` | `RemediationProofs` | `Spec => []ClosedIsQuiet` |
| `ReadHolds` | `RemediationProofs` | `Spec => ApprovedAfterReading` |
| `DisarmsHold` | `RemediationProofs` | `Spec => BadOutcomeDisarms` |
| `LedgerImplemented` | `RemediationProofs` | `Spec => ImplementsLedger` |
| `UnknownStaysHolds` | `RemediationFinalProofs` | `Spec => UnknownStays` |
| `TagsAreRightHolds` | `LibraryServicesProofs` | `Spec => []TagsAreRight` |
| `SeasonsAreRightHolds` | `LibraryServicesProofs` | `Spec => []SeasonsAreRight` |
| `SearchesAreKnownHolds` | `LibraryServicesProofs` | `Spec => []SearchesAreKnown` |
| `WorkIsWantedHolds` | `LibraryServicesProofs` | `Spec => WorkIsWanted` |
| `TokensAreKeptHolds` | `AccountServicesProofs` | `Spec => []TokensAreKept` |
| `AlertsAreNewsHolds` | `AccountServicesProofs` | `Spec => AlertsAreNews` |
| `ChangesAreKnownHolds` | `AccountServicesProofs` | `Spec => []ChangesAreKnown` |
| `SignInsAreSoundHolds` | `AccountServicesProofs` | `Spec => []SignInsAreSound` |
| `AccountsAreKnownHolds` | `ServicesProofs` | `Spec => []AccountsAreKnown` |
| `ServicesTypeCorrect` | `ServicesProofs` | `Spec => []TypeOK` |

### Delivery

1. **Types.** `TypeOK` alone is not inductive: `Finish` writes the worker's
   outcome into a job, and the outcome "none" is no job state. `TypeInv ==
   TypeOK /\ OutcomesAreReal` is: a worker reaches `finish` only with an outcome.
   There is one step per action, and lemmas on updates of each kind of row.
2. **In flight.** `InFlightNotDecided` is inductive over `TypeInv`. Every
   transaction that changes a request's status or park_reason either refuses
   while a job is `processing` or moves no such job; `Finish` parks or settles
   only when the unfinished jobs, its own excluded, leave none in flight.
   `RowsInFlight` states once what users, handlers and sweeps may do to a job in
   flight: nothing.
3. **Fencing.** With 2, a job leaves `processing` only in `Finish`, and there
   only under its token (`StatesInFlight`, `FencedStep`).
4. **Exclusive tokens.** `TokensAreExclusive`: a running worker's token is its
   alone, because a claim draws one not in use, and lives until `Release`.
5. **Leases are kept.** Without stalls a running worker's job and lock carry its
   token and are live (`LeasesAreKept`): expiry spares the tokens of running
   workers, a claim needs a lock that is not live, and by 2 and 4 no other step
   changes these rows. With the marker (`WritesAreMarked`, which needs no
   assumption on stalls: nothing ever clears a marker) this gives `LeaseInv`,
   which is inductive over `TypeInv`.
6. **Writers.** A worker at `write` holds both leases by 5, and its request is in
   delivery by 2 (`WritesHoldLeases`). Two writers of one instance would carry
   the same lock token, so by 4 they are one (`OneWriter`).

Without the assumption `~AllowStall` the last two are false, and the code does
not claim them: nothing makes the library refuse a write whose lease ended while
it was on its way. What holds then is 3 and the marker.

7. **Rows and jobs.** `RowInv` says of every request, in terms of its own row and
   jobs only: the row is pending exactly while a job is unfinished (`Mirrors`);
   while it is pending or delivered, something is wanted, every wanted format has
   a job that is not withdrawn, and only wanted formats are worked on (`Serves`);
   park_reason fits what is left (`Parks`); a job that does not exist is not marked
   (`Unmarked`). The clauses need each other. `DeliversWhatIsWanted` is not inductive:
   that settling leaves nothing wanted behind is `Serves`, of the time before. A manual
   retry finds a job only in a request in delivery, by `Parks`. `Finish` needs 2, or
   the request could have been decided meanwhile. `SweepNamed` says that what the
   import sweep has read is about a request.
8. **The promise.** The same case analysis gives, step by step, the step of
   `DeliveryIntent`: `Create` submits, `Close` refuses, `Unsubscribe` withdraws, `Guard`
   touches, `ReconcileApproval` and a `Finish` with "complete" deliver; everything else,
   crashes and expired leases included, is a stutter (`Shifted`, `QuietStep`). `Settles`
   is the lemma the three transactions that settle have in common: the request is
   delivered exactly when all that is still wanted is. Neither 7 nor 8 assumes
   anything about stalls.

### Allowances

The inductive invariant is `TypeOK /\ Accounts /\ Sharing`.

- *Accounts* is `NoFreeRide`, `RefundsAreFinal` and `Linked`: an item with a charge
  has one of its own user and format, in use or not. The first two need each
  other: a refund reads every item of the charge, so none in use is left behind,
  and later steps keep that because only items in use are marked as started and
  none of these has a refunded charge. `Linked` is needed where a charge is bought:
  no old item already points to it.
- *Sharing* is `OneRowPerFormat`, `SubscribersAreAccounted` and `SubsAreWanted`: who
  waits on a pending row waits for formats the row is wanted for, and nobody
  waits on a row that does not exist. Without it an old subscription could come to
  count again, with no item behind it, when a format is asked for anew.
- `AllowancesHold` is about the step: `NewestIn` says that the charge the code picks
  exists, `InjectionExists` that as many unused charges as there are formats to pay
  for can be told apart, and then a user's charges of a format grow by one at most,
  which `Fits` has allowed. No other step makes a charge count again under the same
  rule (`FadedCharges`); for a step that changes the rule the property claims
  nothing, as use may then exceed it. It needs `IsFiniteSet(Format)`, an assumption this proof
  added: a title has finitely many formats.

### Remediation

The inductive invariant `Inv` has these parts besides the types.

- `ClaimInv`. A run is *seated* while it runs or waits at a gate. An issue has one
  seated run at most; its status and its claim say what that run does
  (`SeatFits`: it runs under the claim, or waits for the reporter or for an
  approval while the issue does, having read every message, or an administrator
  has the issue); a closed issue has no live run and no proposal. `ClaimExcludes`
  and `ClosedIsQuiet` are parts of it, and neither is inductive alone: `Claim`
  keeps them because whoever may claim finds no seated run, and that depends on
  what each status says about gates.
- `Links` and `Hands`. Rows refer to rows that exist; a worker in hand has a run of
  its issue that runs or has been ended behind its back, and no two workers have
  the same run in hand. This is what makes a worker's late step harmless:
  it works on a run that is its own or over.
- `Ledger`. An action in execution has one decider at most, which knows whether
  the library was changed; nothing was sent for a proposal. Deciders that died
  leave no trace in `decider`, which is why the clause is about deciders and not
  about actions. `Handing` says that the recovery pass lists decided actions.

With `Inv`, `FixStep` says of each step what it may do to a fix: obey `FixLedger`,
disarm the rule when an automatic approval ends badly, approve only what was
read. The refinement, `DisarmsHold` and `ReadHolds` are its three parts. The
assumption `IsFiniteSet(Issue)` is needed since the observations of a pass put one
job per idle issue into the queue: there are finitely many rows.

`UnknownStaysHolds` needs no invariant beyond `Inv`. Its module splits what is to be
shown of a step in three (`TracedStays`): runs keep their issue (`RunsStay`), an outcome
that is unverified after the step was so before or the step puts its issue to rest
(`Traced`), and an issue at rest stays there or is excused (`RestsStay`). `Inv` enters
where a step finds its issue by way of a claim or a gate: an issue at rest has
neither, so workers, hand-overs and the recovery pass do not reach it, and a
closed one has no claim to release. What is not true is the state property: a proof
of `Spec => []UnknownIsFinal` failed at the hand-over, which may find the run at a
later gate than the one it was decided at, and TLC then found the behaviour of
`RemediationLate` ([section 6](#6-disagreements-found)). The exception in `UnknownStays`
is the last step of that behaviour, and the theorem says that there is no other.

### The services

Each theorem is about the specification of `Services`, in which one service moves;
lemmas such as `TagSpec` and `GrokSpec` reduce it to the service's own. The
assumptions on the constants are these:

- `PartyAssumption`: "nobody" is not one of the parties, and bounds are numbers;
- `TagsAssumption`: a key that nobody holds can be drawn. Keys are random in the
  code, and the row of each job may hold one;
- `GrokAssumption`, `DiscordAssumption`: a grant comes with a first refresh token, a
  row may be tried once at least;
- `ProfilesAssumption`, `FollowAssumption`, `MediaAssumption`: the profile's first
  value is one of the values; episodes are numbered; an account's name is not empty.

Where many actions do the same to what an invariant is about, a proof first
describes the kinds of step by their effect (`TVStep`, `FollowStep`, `DiscordStep`,
`SignStep`, …), shows that every action is a step of a kind, and then that each kind
keeps each part of the invariant. This separates what the code does from why it
is safe, and keeps every leaf small. The inductive invariants:

- *Tags* (`TagInv`). Who is at work on the instance holds its lock under a key that
  is not the other's, unless its lease ended, and then the write is refused
  (`TagLeases`). What is about to be called applied is on the title and no Lidarr
  refresh under way takes it off, or one ended since the look (`TagReceipts`).
- *Seasons* (`TVInv`). `WorkIsPaid` needs to know of each season of an accepted request
  that it is on the shelf already or paid for (`TVPaid`), and of the attempt under way
  that what it has left is paid and what it has dropped is on the shelf (`TVPlan`);
  an absent series has nothing (`TVShelf`). With these, a completed job's seasons are
  monitored, or picked for a series that is being added (`TVDelivered`).
- *Follows* (`FollowInv`). An attempt works from what it read before, so the invariant is
  about that copy: for an episode still ahead, what was read still tells whether it
  was searched for (`FollowPlan`), because a search that was sent is never forgotten
  (`FollowRows`), what was searched for is monitored (`FollowWatched`), and a first
  delivery keeps the lease of the instance from beginning to end (`FollowTurns`).
  Between the look at other follows and the search, nobody else begins one for the
  episode (`FollowApart`): beginning one takes the lease. A sweep that lost its
  lease meanwhile fails at the next guarded write. Episodes that somebody changed by
  hand are excepted wherever the property excepts them.
- *Grok* (`GrokInv`). The newest pair of a linked grant is in the row, waits in memory,
  or is in the hand of the one caller who saves (`GrokKept`); a caller between
  landing and sending has the newest, or memory has it; a grant that a login is about
  to save is nobody else's (`GrokFresh`).
- *Discord* (`DiscordInv`). A row that can still be claimed was not posted, and the
  sender that posts has the row in `sending` (`AlertPosts`). What was there when
  announcements were switched on is in every look taken since, and in what is
  remembered as seen (`AlertNews`): that is why a late scan announces nothing old.
- *Profiles* (`ProfileInv`). Who is past the check holds the lock of the instance
  (`ProfileLocks`); a write on its way has a record that says so, and a record of a
  write that landed never says that it did not (`ProfileRecords`); an approval still
  before its write is of a proposal not yet written (`ProfileWrites`); a change that
  was restored is the parent of one that landed (`ProfileRestores`), whose record
  therefore never reads as failed and blocks a second restoring; no proposal is
  pending while an approval may still give its own back (`ProfilePending`).
- *Signing in* (`SignInv`). One request at a time is between its check of the policy and
  its write, and what it checked still holds there (`SignLocked`), which is what
  `policyMu` is for; whoever has a local session while that is not allowed is an
  administrator, or was one (`SignEscapes`); an invitation that was just claimed was
  not used (`SignSpent`); a client whose token is being exchanged has none
  (`SignTokens`); a sign-in from before an unlinking is not fresh (`SignOld`). References
  are to accounts that exist (`SignAccounts`), or a deleted user could leave a session
  that `SessionsFollowIdentity` forbids.
- *Media accounts* (`MediaKept`). A claimed account has one user (`MediaClaims`); before
  the server is asked for a change the row says that it is in doubt (`MediaPlace`), so
  a settled row is true, as is one about to be settled (`MediaSettled`); whoever has
  just made an account is alone with it until it is recorded or taken back
  (`MediaAlone`, `MediaRecorded`), and it is there (`MediaExists`). `Media` and `Moves` share
  their variables, so the steps are treated for any set of users and accounts.

`ServicesTypeCorrect` collects the type invariant of each part from its inductive
invariant; for most services the types are not inductive alone.

## 6. Disagreements found

Each of the first five has a run whose counterexample shows it.

- `DispatchReplay` — a manual retry resets `attempts` and `code`, the two values
  that decide whether an attempt first looks for an import an earlier lost reply
  may hide (`request/dispatch_worker.go:232-239`, `dispatch_actions.go:183`).
  The durable marker that remembers the earlier write is not consulted. The
  ignored error of the same query (line 237) has the same effect.
- `DispatchStaleDeny` — `DenyRequest` reads `park_reason` before its transaction
  (`request/service.go:4903`); an attempt that finishes in between parks the
  request on an import which the denial then leaves running.
- `QuotaNoOp` — a subscriber who joins a pending row pays for a format of it that
  was already found available (`request/dispatch.go:265-268`), where
  `src/docs-site/src/content/docs/admin/request-policy.md:52` says such work does
  not charge.
- `RemediationRestart` — a run that was parked before a restart keeps the old
  `proc_generation` when it is resumed (`remediation/runner.go:1561`), so the
  recovery ticker takes it for one of the process before and aborts it under its
  worker (`worker.go:110`).
- `RemediationLate` — a decision is staged for its run if run and issue wait for an
  approval (`stageResumeResultTx`, `remediation/approvals.go:706`), whichever of the
  run's actions they wait for; the recovery pass asks for the latest (line 645),
  but before it begins to stage. A hand-over overtaken by another one meets the
  run's next gate and resumes the run while its next fix is executing. The run
  proposes once more, both fixes execute at a time, one ends with an unknown
  outcome, and the cancelled other one (`cancelExecutingForRecovery`) takes the issue
  back from the administrator. The comment at line 591 says that unknown outcomes
  "are never model-resumable". It takes a hand-over that lasts longer than a turn
  of the agent.

Met while modelling, and described only. Where a property below is named, it is
defined in the module and no run checks it; the others follow from reading the
code, and the models' properties are stated so as not to depend on them.

- *Delivery.* A request of which one format waits for an import and another needs
  attention is not parked (`dispatch_worker.go:392`), so closing it leaves the
  import armed (`DeniedPartialWaitCancelsImport`). Between the sibling check and
  the deletion of an import (`service.go:4194-4198`) a second request may start to
  wait on it (`DenialsSpareSiblings`).
- *Series.* A season that was already monitored, or whose attempt is resumed after
  the search phase was saved, may be delivered without a search
  (`DeliveredIsSearched`; `request/tv_dispatch.go:527-545`, `600-640`; the test at
  `service_tv_test.go:287-288` expects one).
- *Remediation.* A fresh run may start over a hand-off that was staged after the
  count was read; a late `appendResumeResult` writes to a run that ended; a
  proposal can be superseded between `ProposeAction` and the park; the
  compare-and-swap of an automatic approval does not re-check its rule.
- *Follows.* A crash that leaves an unowned episode `searching`, followed by a
  manual unmonitor, leads to a second search; a crash between
  `UpdateSeriesMonitoring` and `series_owned=2` lets Cantinarr undo a later manual
  unmonitor of the series. `touched` excludes the former. Two searches for an episode
  may overlap with three follows: when other follows have both a known and an uncertain
  search for it, `reuseTVEpisodeWork` looks at the known one alone
  (`request/tv_follow.go:878`), and searches again once that one has ended. The first
  proof of `SearchesDoNotOverlap` failed here; the property now says so (`Known`).
- *Grok.* Unlinking during a refresh puts the new pair into memory
  (`grokoauth/manager.go:557-560`), and a link made after that is overwritten by
  the old grant at the next call (526-533); a poll in flight while the user
  unlinks still links. `gone` excludes such grants.
- *Discord.* A 429 whose cooldown cannot be saved ends as unconfirmed.
- *Media access.* The mutex is per user, so two users who invite one address at
  once may leave a share that nobody revokes; a deleted user's late switch-off may
  disable an account linked to somebody else since; a failed roll-back, a lost
  reply to a create or a failed deletion hook leaves an account. `astray` and
  `touched` exclude these.
- *Accounts.* `SetPassword` (`auth/service.go:325-348`) reads whether passwords
  are allowed before the slow hash and writes unconditionally, and finishing a
  passkey registration does not check again: the credential outlives the method's
  being switched off, and works when it is switched on again.
  `RedeemConnectToken` spends the link before the statements that make the
  session, so a failure spends it for nothing (the single sign-on path uses one
  transaction). A demoted administrator's local session is refused, not revoked,
  while single sign-on is required, and works again after (`kept`).

## 7. What is only model-checked, and what is not modelled

Every safety property that a run checks and finds to hold is proved, invariants and
action properties, for all the constants. Liveness (`DeliveryEnds`, `ServicesEnd`,
`OutboxesDrain`, `WorkIsTaken`, `HandoffsResume`, `DecisionsAreHandedOver`) is only
model-checked, for the prover has no support for fairness and ENABLED. The promise that a service converges is thus checked for
two actors and one fault, and its safety is known for any number.

Left out of the modelled components, besides the abstractions named in section 2:
rows saved by versions before durable delivery and their sweep, libraries without
a pending-import API, the search after monitoring, status views, pilots' and other media's units of allowance, the exact times in a
preview, movies (one add and no phases), the creation of standing rules and batch
approvals, how a snapshot of the library is judged, alert queues, the push outbox
and the websocket hub, Codex (its tokens belong to a helper process), custom
formats and the agent's other tools.

Not modelled components, with the reason for each, are in `PROJECT.json`
(`components`). In short: metadata and library clients, migrations and the app
keep no state of interest here; the others are in the plan.

## 8. Plan

Done: delivery with its promise and its lease proofs, allowances, remediation with
its ledger, tags, series and follows, provider tokens, the Discord outbox, profile
changes, media access, sign-in, and their liveness; the proofs of all their safety,
and that delivery and remediation implement their promises. Next, in this order:

1. **`RequestDelivery`** — composition of delivery and allowances over the same
   rows, so that refunds meet leases and lost replies.
2. **What remains** — admission of chat turns, the websocket hub, push, instances
   and webhooks, the availability cache.

## 9. How to run it

    tlc -config DispatchBook.cfg MCRequestDispatch
    tlc -config QuotaShared.cfg MCRequestQuota
    tlc -config Remediation.cfg MCRemediation
    tlc -config Services.cfg MCServices
    tlc -config ServicesLive.cfg MCServicesLive
    tlapm RequestDispatchProofs.tla
    tlapm RequestSettlementProofs.tla
    tlapm RequestQuotaProofs.tla
    tlapm RemediationProofs.tla
    tlapm RemediationFinalProofs.tla
    tlapm LibraryServicesProofs.tla
    tlapm AccountServicesProofs.tla
    tlapm ServicesProofs.tla

`Services` is the largest and takes a few minutes on two cores. `PROJECT.json`
lists for every run its module, configuration, properties and expected verdict,
and for every modelled definition the lines it stands for.
