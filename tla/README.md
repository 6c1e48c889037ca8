# A TLA+ model of the cloud controller

The cloud controller (`src/`) is the Rails 3.0 application that runs a hosting
platform: it keeps apps, deployments, routes, services and tasks in PostgreSQL,
serves an XML API with four unicorn workers, and drives agents on other
machines through [Ruote](http://ruote.rubyforge.org) processes and Resque jobs.
The pages it serves come with their own scripts: jQuery 1.6.1, jquery_ujs.js and
the ruote-fluo editor of process definitions are part of the repository. This
directory holds TLA+ modules that model the core of both sides, the TLC
configurations that check them on small instances, and proofs that TLAPS checks.

Paths below are relative to `src/`; `deployment.rb` is
`app/models/deployment.rb`, `participants` is `lib/ruote_participants.rb`,
`jquery.js` and `jquery_ujs.js` are in `public/javascripts/`, `ruote-fluo.js` and
`ruote-fluo-editor.js` in `public/_ruote/javascripts/`.

## 1. Inventory

How the parts talk to each other:

    API client --HTTP--> unicorn workers (x4) --SQL--> PostgreSQL <--SQL--+
                              |                                           |
                              | RuoteEngine.launch                        |
                              v                                           |
                       Ruote storage (table cc_state)                     |
                              ^                                           |
                              | process, dispatch, reply                  |
                  rake ruote:run_worker: participants --------------------+
                              |                            (one thread each)
                              | Resque-status jobs (Redis)
                              v
       agents (AppHost), environment builder, HTTP gateways: run the jobs
                              |
                              | job status in Redis
                              v
       rake ruote:run_rrs_worker: polls the statuses once a second, hands
       results to the engine (receive) or its error handler, removes them

| component | state | operations | interacts with | hard behaviour |
|---|---|---|---|---|
| **Deployments and workflows** (`deployment.rb`, `participants`, `deployment_install.rb`) | rows of `deployments` (state, envtype, tokens) and `deployment_installs`; Ruote processes; jobs and their statuses; what agents run; what gateways route | RUOTE_DEFINITION, UNDEPLOY_..., COMMIT_STAGING_RUOTE_DEFINITION and sixteen participants | engine, agents, builder, gateways, result worker | concurrent branches and processes on the same rows; failing and late jobs; cancelled branches that go on; time-outs of 5 and 30 s; a dying worker |
| **Deployment requests** (`deployments_controller.rb`, `deployment.rb`) | copies of rows in the workers | create, deploy, undeploy, commit_staging | table, engine | check-then-act without locks; launch before save!; workers killed after 15 s |
| **Result worker** (`lib/tasks/ruote.rake`) | statuses in Redis, failure list | receive + remove, report failure + remove | engine, Redis | crash between the two steps, expressions that are gone, exceptions that repeat |
| **Routes, gateways** (`route.rb`) | rows of `routes` | create, update, destroy; each launches a gateway update | engine, active deployment | stale job_token; launch inside the transaction |
| **Key material** (`key_material.rb`) | certificates, routes' `key_material_id` | save, match?, two-way auto-assignment | routes | order of the two assignments |
| **Domains, DNS** (`domain.rb`, `lib/dns_verify_helper.rb`) | `verified`, last log | verify_dns!, destroy with routes | resolver | error paths that keep an old result |
| **Services, instances** (`service.rb`, `service_instance.rb`, `service/*.rb`) | instances, ports | create (saves twice), update, destroy | engine, agents | port allocation race, exhaustion inside after_create |
| **Tasks, commands** (`task.rb`, `periodic_task.rb`, `command.rb`, `lib/tasks/periodictask.rake`) | tasks, last_run, commands | the 30 s loop, dispatch!, replace_from_procfile! | active deployment, agents | dispatch before ran!, the clock, one failure ends the pass |
| **Log drain** (`lib/support.rb`) | Redis list and position key | drain!, expiry | agents append | read-modify-write in three calls |
| **Apps, users** (`app.rb`, `user.rb`) | names, quota | create with retry, update | | quota and uniqueness checked before the save |
| **Billing API** (`user_controller.rb`) | users | create, modify, delete, list | billing system | attribute-wise saves before the final one |
| **Agent API** (`agent/v1/apps_controller.rb`) | none | find_ssh_instance (read-only) | table | reads while an undeploy runs |
| **Administration, sign-in, plumbing, assets** | rows without interaction | CRUD | | none of its own |
| **Ajax calls** (`jquery.js` 960-1100, 6700-7330) | the closure of each call, its deferreds, `jQuery.active` | ajax, abort, done/fail/complete | browser, handlers | answer, time-out and abort race; handlers throw |
| **Remote forms and links** (`jquery_ujs.js`) | disabled buttons and their kept labels, a 13 ms timer | submit, disable, enable, handleMethod | ajax calls, page handlers | the button must come back however the call ends |
| **Events** (`jquery.js` 2440-3640) | handlers of elements, live handlers, `jQuery.cache` | bind, one, live, unbind, die, trigger, dispatch | browser, handlers | handlers change the handlers, or raise events, while an event is dispatched |
| **Selectors and matched sets** (`jquery.js` 3690-5480, 7900-8060) | marks on elements, the set, kept display values | find, filter, not, closest, parents, ..., show, hide, classes, moves | browser's querySelectorAll | marks of earlier searches, order, two engines |
| **Editor and canvas** (`ruote-fluo-editor.js`, `ruote-fluo.js`) | the shown tree, the drawn tree, undo stack, clipboard, cached sizes | add, cut, paste, move, edit, undo, toggles | each other, through shared trees | the canvas changes the trees that undo goes back to |
| **Other scripts** (`jquery.sparkline.js`, `ranger.js`, `application.js`, rest of jQuery) | | drawing, polling, DOM access | | polls that never come again |

What makes each component correct, in the order of importance:

* *Deployments*: a row follows the life cycle working, then success or failure,
  then perhaps removed, and only one row of an app is working; a success is
  complete (every host runs it, has its row, is known to the gateways); no host
  runs a finished deployment that the table does not know of; replacing a
  deployment does not interrupt the service; launched processes end; removed
  deployments stop.
* *Requests*: the table never claims what has not happened, also when workers
  interleave or die.
* *Result worker*: every finished job reaches the engine, once.
* *Routes and key material*: the gateways end up with the routes and hosts of
  the table; an HTTPS route has a certificate, or no route of the app can be
  sent.
* *Service instances*: no two instances of a service share a port; the agents
  end up running what is in the table.
* *Tasks*: an hourly task runs once in an hour, no task is passed over for ever.
* *Log drain*: no message is skipped, none is shown twice.
* *Ajax calls and forms*: a call ends once; a form's button comes back.
* *Events*: a handler runs when it is registered, once per event, in order; the
  registries agree.
* *Selectors*: what is found is what the selector means, in order and once.
* *Editor*: undo restores, the canvas draws what the editor shows.
* *Domains*: verified means the last complete look-up succeeded. *Accounts*: no
  user exceeds the quota; a failed modify changes nothing. (Not modelled.)

## 2. Plan

In the order of importance; steps 1 to 8 are done.

1. `DeploymentLifecycle` (abstract) and `DeployWorkflow` (the three processes),
   with the inductive invariant and its proofs.
2. `DeploymentApi`: requests split at their database accesses, with proofs.
3. `JobReply` (abstract) and `Backchannel`: the result worker between job
   statuses and the engine, with crashes, with proofs. It justifies that
   `DeployWorkflow` takes end of job and reply as one step.
4. `LogDrain` and `PeriodicTasks`, with proofs of their safety properties.
5. `GatewayRoutes`, and `ServiceInstances` with a proof that ports are distinct.
6. The scripts of the pages: `AjaxCall` (abstract), `JQueryAjax`, `RemoteForms`;
   `JQueryEvents`; `FluoEditor`; `Sizzle` and `MatchedSet`.
7. The proofs of `GatewayRoutes`, of the agent in `ServiceInstances`, of
   `NoDowntime`, and of `RemoteForms` with the calls of `JQueryAjax`.
8. The proofs of `JQueryEvents` (the registries agree, nobody runs twice) and of
   `FluoEditor` (the shape of its trees, undo, what the canvas highlights).
9. Left: `Accounts` (quota, billing), `Procfile` and `DnsVerify`, which are small
   and mostly sequential; `BoxesFit` and the selector engine stay with TLC.

Three abstract specifications are stated and implemented: the life cycle of
deployments (by `DeployWorkflow`, and by `DeploymentApi` as long as requests
come in turn), the reply to a job (by `Backchannel`), the end of a call (by
`RemoteForms`).

## 3. Modules

| module | what it is |
|---|---|
| `DeploymentLifecycle` | what the table of deployments promises: Create, Finish, Remove |
| `DeployWorkflow` | the three workflows, participant by participant |
| `DeployWorkflowProofs` | theorems about it |
| `DeploymentApi`, `DeploymentApiProofs`, `MCDeploymentApi` | the four requests, database access by database access; theorems; a symmetry set |
| `JobReply` | what a participant that creates a job relies on |
| `Backchannel`, `BackchannelProofs` | statuses in Redis, the result worker, the engine's inbox; theorems |
| `LogDrain` | drain!, call by call |
| `PeriodicTasks`, `MCPeriodicTasks` | the worker of periodic tasks on a clock; start hours outside the day |
| `TasksProofs` | theorems about both |
| `GatewayRoutes`, `GatewayRoutesProofs`, `MCGatewayRoutes` | routes, a certificate, a domain, the gateway and a replaced deployment; theorems; a symmetry set |
| `ServiceInstances`, `ServiceInstancesProofs`, `MCServiceInstances` | ports and the agent; theorems; a symmetry set |
| `AjaxCall` | what jQuery.ajax promises of a call |
| `JQueryAjax` | deferreds and the end of a call |
| `RemoteForms`, `RemoteFormsProofs` | jquery_ujs.js on top of `JQueryAjax`; theorems about both |
| `JQueryEvents`, `MCJQueryEvents` | the event layer; a symmetry set |
| `FluoEditor`, `MCFluoEditor` | editor and canvas; definitions to open |
| `ScriptsProofs` | theorems about `JQueryEvents` and `FluoEditor` |
| `Sizzle` | the selector engine as operators on a page |
| `MatchedSet`, `MCMatchedSet` | the jQuery object on top of `Sizzle`; pages and selectors for TLC |

Some operators have a twin marked `Mutant:` before them: the same operator with
a plausible bug. With the bug in its place the run named in `PROJECT.json` finds
its property violated, which shows that the property depends on that code.

### DeployWorkflow

One app with the deployments `1..N` (the order of creation). Its variables are
the columns, rows, workitem fields and queues of the code:

| variable | in the code |
|---|---|
| `state`, `env` | columns `state` ("absent" before the insert) and `envtype` of a deployment |
| `pc` | where the process of RUOTE_DEFINITION is; "none" is `task_token.nil?` |
| `build`, `services` | the two branches of its first concurrence |
| `hosts`, `primary` | fields `primary_app_host`, `other_app_hosts` |
| `step` | per host: DeployAppJob queued, then store_deployment_install |
| `running` | deployments the agents run (external) |
| `installs` | rows of `deployment_installs` |
| `sent`, `routed` | `agent_ips` of the last UpdateGatewayRouteJob, and of the last one applied |
| `jobs`, `undeployed`, `broken` | UndeployAppJobs with their statuses |
| `unroute`, `removal` | http_gateway_update :remove_routes and remove_deployment_installs of a removal |
| `commit`, `calls`, `setState`, `successor` | the process of COMMIT_STAGING_RUOTE_DEFINITION |

Each participant is an action that does everything its `consume` does up to the
next wait, and the end of each wait is an action of its own. So
`HttpGatewayUpdate` sends the jobs and `WaitForGateways` is the end of
`wait_for_jobs(jobs, 5)`; `CleanupOldDeployments` creates the undeploy jobs and
`CleanupWait` is the loop after it. Some lines have effects that are easy to
miss, and the actions keep them:

* `run_configure_script` (participants:50-67) does not reply. It creates a job,
  whose end replies, only for the first deployment of an "application"
  template. Otherwise the process parks (`RunConfigureScript`).
* In the engine's process `Resque::Status.remove_one` (participants:198) does
  not exist: `lib/tasks/ruote.rake` defines it in the result worker only. The
  first completed job of a cleanup thus destroys its row and ends the loop
  through its rescue (`CleanupWait`).
* `remove_deployment_installs` (participants:215-244) keeps the status of a
  completed job. Unless all jobs complete between two looks, the next look
  searches the row it has destroyed, and `find` raises (`PollJobs`).
* `cancel` only logs (participants:3-7). A queued DeployAppJob of a failed
  deployment still runs (`DeployApp`, "dropped"), and a thread in
  `store_deployment_install` still writes its row.

Faults are chosen per instance by the constant `Faults`: failing jobs, failing
undeploy jobs, slow gateways, participants that raise, and a worker that dies
with the workitem it holds. The API requests are single steps here.

### DeploymentApi

The same requests split at every access to the database or the engine: load the
row, check, insert or launch, save!. A copy of a row is what a worker knows of
it. `deployment_call_deploy`, which runs in the engine, is one more client that
asks for a deploy!. Of a deploy process only its last write to the row is kept.
`Crash` is the worker being killed by unicorn's 15 s time-out or dying.
`orderly` is false once two requests have been under way at a time or one has
been killed; what the code can only promise before that is stated with it.

### Backchannel

The way of a result from a job back to the expression that waits for it
(`lib/tasks/ruote.rake:37-90`). `job` is what has become of a job, `kept` the
statuses in Redis, `expr` the waiting expressions, `inbox` the messages in the
engine's storage. The worker reads all statuses (`BeginPass`, into `pass`) and
looks at each: `Skip`, `Receive` or `Report`, then `Remove`; `holding` is the
job between the last two. The statuses of a pass are taken in any order. `Raise`
is a result that raises in every pass (for example because the search in
`Resque::Failure` meets an entry without arguments), `PassingError` one that
raises once, `Crash` the death of the worker, which its supervisor starts again
(`services/hs-cloudcontroller-rrs-worker/run`). `Take`, the engine, is external.

`DeployWorkflow` builds on `JobReply`: its steps for the end of a job
(`BuildEnvroot`, `DeployApp`, `Configured`, ...) are Perform and Answer at once.
That is sound for its properties: between the two nothing but the answer reads
the outcome, and a job whose answer comes after the cancellation of its branch is
the same as one that ends after it (`DeployApp`, "dropped").

### LogDrain and PeriodicTasks

`LogDrain` has one log and the requests `Drain` that read it. `drain!`
(`lib/support.rb:162-170`) is three calls to Redis: get the position, read the
list from there, set the position. They are the steps of `pc`; a killed request
loses what it had in hand. The list of a task expires with all its messages, the
position key does not.

`PeriodicTasks` puts the 30 s loop on a clock of `HoursPerDay` hours of
`TicksPerHour` ticks; a pass fits between two ticks (`clock`). The pass loads all
enabled tasks (`copy`), dispatches those that are due and saves each. `next_run`
looks at the hour of the clock, and for daily tasks not at `last_run`. Edits of a
client load a row and save it later, with the whole serialized `config`, as
ran! does. A task that raises ends the pass (`periodictask.rake:16`). `start_hour`
is whatever a client has set (periodic_task.rb:18 takes any number): the constant
`StartHour` has hours before, in and after the day. `Time.local` raises for an
hourly task whose first hour is not in 0..24 (`NextRunRaises`); a daily one past
the end of the day raises nothing and is never due.

### GatewayRoutes

The routes, the key material and the domain of an app, two clients whose
requests are open transactions, the processes that the saves launch *inside*
these transactions (route.rb:81) and that may run before the commit, and the
gateway that applies jobs in order. Deployment 2 is being deployed meanwhile and
replaces deployment 1: its process updates the gateway too, and may fail before
(`BuildRoutesRaises`, `UpdateRaises`) or after it (`DeploymentFails`: the wait for
the gateway, the creation of an undeploy job, which is outside the rescue of
participants:189, or the logs raise). Four ghosts remember the circumstances in
which the code does not keep its promise. `raced`, three races of gateway updates,
and `failed`, an update that was lost or a deployment that failed after its own,
are the exceptions of GatewayFollows; `failed` lasts until routes are read again.
`overlapped` and `withdrawn`, requests at once and a destroyed key, are those of
SentUnless.

### ServiceInstances

Instances of a service with ports. `after_create` takes the first free port and
saves the row again inside the save, so that two update processes are launched;
with no port left the instance destroys itself, which queues the undeploy job,
and raises, which rolls the row back. An update process creates its job some
time later, the agent runs jobs in order. `rivals` are instances created while
the transaction of another was open, `late` those updated behind their undeploy
job, `revived` those whose destroy was rolled back.

### JQueryAjax, RemoteForms

`JQueryAjax` models a call of `jQuery.ajax` as a record: readyState of the jqXHR,
its three deferreds (callbacks that are left, fired, cancelled), listener, timer
and transport. Everything that runs between two returns to the browser is one
step: `Begin` with the hook at which it stops (a handler vetoes, throws,
aborts), `Answer`, `TimeOut`, `Abort`, `Attach`. A handler may throw in any
callback: the rest of the list then stays in the deferred and runs with the next
`done()`.

`RemoteForms` adds the submit button of each form (disabled, label, the label
kept in the element's data) and what jquery_ujs does with it at `ajax:send` and
`ajax:complete`. `spoilt` are forms with which a page handler has interfered
(stopped an event, vetoed late, thrown), `scripted` those a script has submitted
while their button was disabled.

### JQueryEvents

One type of event, a button in a form in a document. `events` are the handlers
per element, `live` the list `events.live` of the document, in which each entry
has a liveHandler under `events["document"]` with the same guid. `stack` are the
events under way, the innermost first: where it is, the snapshot of handlers
still to run, live handlers still to run, and the flags of the event object.
A registration gets the next id, and lists are sets in the order of ids: that is
the order in which the code appends to them and walks them. A live handler that
stops the event drops the live handlers further out, and those only
(jquery.js:3645-3665). `odd` notes what the properties exclude, and `excuses`
what they do not hold after: events raised within events, and liveHandlers
unbound by hand. Neither influences any step.

### FluoEditor

A definition is a function from paths (the "expid" of the code) to nodes. `dom`
is what the editor shows, `current` the tree the canvas draws, `undoStack` the
trees for undo. The same tree is handed to the canvas and pushed on the stack, so that
what the canvas does to it is there after an undo: an "if" without a condition
takes its first child for one and gets a missing branch (`Adjust`), a subprocess
with one child gets that child as its attribute "ref" (`Referring`). `touched` says
that a tree has other heads than the editor gave it, `taken` that it has other
names or paths, which is what misleads the pointer after an undo (`astray`), and
`missed` that a toggle has passed over it. The editor opens one of `Flows`, any
finite trees. Sizes are computed as the code does, with text of a fixed width.

### Sizzle, MatchedSet

`Sizzle` evaluates a selector, given as data, on a page: from right to left,
with filters, relations and positions in the order of the code, and the marks
(`memo`) it leaves on the elements for the next search. `Matches` is the
reference: what the selector means. `MatchedSet` is the jQuery object: the set,
the last call, and operations that follow each other in any order, also changes
of the page. With `qsa` the browser's own engine answers what it knows. `first` is
how each element was displayed at first, which ShownShows compares with what
show() makes of it.

## 4. Runs

| run | instance | question |
|---|---|---|
| `deploys` | 2 deployments, 1 host, 1 service instance, undeploy and commit, all faults | do rows follow the life cycle, and does no host lose its row, when three processes write them and anything fails? |
| `live` | 2 deployments, 2 hosts, undeploy, failing jobs, fair | is a success complete, does what is launched end, what is removed stop, what is served stay served? |
| `requests` | 2 rows, 2 launches per row, two clients that may die | what does the table claim when requests interleave, and what when they come in turn? |
| `results` | 3 jobs, 1 unreadable, 2 faults, fair | does every result reach its expression, once, whatever the worker suffers? |
| `logs` | 3 messages, 2 drains, 1 killed | are messages skipped or shown twice? |
| `tasks` | 2 tasks of any schedule, days of 2 hours of 2 ticks, start hours from -1 to 2, 1 edit, 1 crash, fair | does a task run too often, or never again? |
| `routes` | 2 routes (one matched by the certificate), 2 clients, 2 updates, a deployment that succeeds or fails at each step | does the gateway end up with the table? |
| `instances` | 2 instances, 1 port, 1 save, 1 rollback | are ports shared, does the agent run what the table says? |
| `forms` | a remote form, a plain form, links, 2 calls (one with a timeout, held by a script) | does a call end once, and the button come back? |
| `events` | 2 functions, 2 registrations, 2 events | who is called, how often, in which order? |
| `editor` | a definition with an "if" or one with a subprocess, 4 expressions at most after 3 changes; and definitions of 11 and 12 children and loops of 23 and 24, which are only drawn | do the tree, the undo stack and the drawing agree, and do the boxes hold what is drawn in them? |
| `selectors` | every page of a list, two items and a box, 10 selectors, 2 calls, 1 change; and elements hidden by their own style, the style sheet, both or neither, 3 changes, 1 call | are the answers right, in order, once? does show() show what was hidden, however and however often? |

All runs pass. The properties are in section 5.

**Bounds.** `N` = 2 gives every pair of an old and a new deployment, of a
deployment and its successor by commit_staging!, and of two processes on the
same rows; processes refer only to their own deployment and to "all others", so
a third one repeats the role of the first. Two hosts give a primary and another
one, and a removal that sees one of its jobs completed and not the other. In
`deploys` one host is enough for the races of processes over one row with all
faults on; `HostsAccounted` is proved for any number. A deployment is committed
at most once (guard of `CommitStaging`). `MaxLaunches` = 2 shows a second
process. In `Backchannel` the third job is the unreadable one, so that two others
can be finished, cancelled and delivered around it. In `logs` three messages
allow one before, between and after two drains. In `tasks` two hours with two
ticks distinguish "this hour", "the next hour" and "a day later"; times further
back than matter are cut off (`age`, `since`). One port for two instances makes
every creation a conflict or an exhaustion. Two calls suffice for overlapping
submissions of a form; a third repeats the second. Two registrations and two
events give one handler that disturbs another within a nested event. Four
expressions are an "if" with two branches, or a sequence, at every place; three
changes are a change, an undo and a change, or a cut, a paste and an undo. Boxes
are a matter of width: four wider definitions lie on both sides of where boxes
begin to overflow. A
selector run of two calls and a change between them is the shortest in which a
mark of an earlier search can mislead a later one. Three changes
of what is hidden allow a show(), a hide() or toggle() and a show() again. Bounds on counters are
guards named in the modules with "(bound)"; a form that is not remote is
submitted by clicks only, since no property is about its button. The symmetry
sets (clients, instances, functions of the page) are sound because nothing orders
or names their members and no temporal property is checked with them except
`OrderlyLifecycle`, a safety property without reference to a client.

**Deadlock** is checked in `editor`, where a toggle is always possible. The other
systems may stop: when no client asks any more, the page is gone, or the bounds on
calls and events are used up.

**Fairness.** `DeployWorkflow`: weak fairness for the processes, the removals and
the agents' undeploy jobs, each as a group. The code justifies it: the engine's
worker dispatches whatever is in its storage, agents take jobs from their queue,
the waiting loops have a time-out, and no step of such a group can be repeated
for ever, so that nothing starves while the group goes on. `Backchannel`: the
result worker and the engine's worker are endless loops that catch errors and are
restarted; that job queues are served is not assumed. `PeriodicTasks`: time
passes and the worker's supervisor starts it again. `RemoteForms`: the browser
answers every request at last, if only with a network error. Clients, users and
faults have no fairness. `EndsOrParks` and `RemovedStops` have the form
"eventually always": with finitely many deployments, each launched and removed at
most once, this says the same as "every launched process ends" and is cheaper to
check.

## 5. What the properties say

Each is stated above its definition; what is worth knowing besides:

* **SuccessServes** (action property): the step from working to success happens
  only when all selected hosts run the deployment and have their rows, and the
  gateways were sent exactly these hosts. It needs the joins of the workflow to
  be right, and that no cleanup or undeploy of another deployment touches a
  working one.
* **HostsAccounted**: a host that runs a finished or removed deployment has its
  row. Three kinds of participants destroy rows; none may do it before the agent
  has stopped the deployment. (It says nothing of failed deployments: there it is
  false, section 7.)
* **NoDowntime** (action property): an environment that the gateways route to
  running hosts stays served until a client removes one of its deployments. This
  holds, and is proved, with gateways that answer within five seconds; with slower
  ones the code accepts an interruption.
* **LifecycleSpec**, **OrderlyLifecycle**: the rows implement
  `DeploymentLifecycle`; on the level of requests only as long as they come in
  turn, which is the race of deployment.rb:81.
* **EndsOrParks**, **RemovedStops**: processes end, but for those that wait for a
  configure script nobody runs. A removal often stops with an error; the hosts
  stop all the same, because the jobs are created before the wait.
* **OutcomesBacked**: success and failure have a process that ended, a token a
  process that was launched, removed a process that removes. It holds for
  concurrent requests and crashes because the code launches first and saves
  second, in every request. **RequestsComplete**: in turn, token and process
  agree between requests, and a row has one process.
* **ResultKept**: while an expression waits for a job that has ended, its result
  is in Redis or in the engine's storage. **ReplySpec**: repeated, late and
  unwanted results do no harm. **ResultsDelivered**: all readable results arrive
  and leave Redis, also next to one that raises in each pass.
* **NothingSkipped**, **OnceAlone**: no message before the position is missing,
  but for the reply of a killed request, and for as many as an expired list had
  (task.rb:24); none is shown twice but by overlapping drains.
* **HourlyOnce**: at least an hour between two dispatches, unless `last_run` was
  lost to a crash before ran! or to the save of an older copy. **RunsAgain**:
  when nothing raises any more, every enabled task whose start hour the clock
  reaches runs again and again; while something raises, the tasks behind it wait
  (periodictask.rake:16), and a start hour past the end of the day is never reached
  (periodic_task.rb:40). Both are named, not excluded by the model.
* **GatewayFollows**, **SentUnless**: see section 3; the first says that when
  all is quiet and the routes can be sent, the gateway has the table, unless one
  of four things has happened: three races, and a failure nobody made good.
* **PortsDistinct**, **NoPortClash**, **AgentFollows**: the table and the agent,
  with the named exceptions `rivals`, `late` and `revived`.
* **OnceSpec**: each call implements `AjaxCall`. **CallsInOrder**: `jQuery.active`
  is the number of open calls as long as nothing throws. **ButtonBack**: with no
  call under way the button of a remote form is enabled and has its own label;
  **ButtonReturns**: it will be, once a call is made.
* **RegistryExact**: the live list, the liveHandlers of the document and
  `jQuery.cache` agree. **RunsOnce**, **NoStray**, **InsideOut**: nobody runs
  twice, nobody runs who was unbound before, live handlers run from the target
  outwards.
* **HoverRight**, **UndoRestores**, **SizesFresh**, **BoxesFit** and the part
  EndShown of `EditorTypeOK`: what the editor shows, what the canvas highlights and
  draws, and what undo brings back belong together. BoxesFit compares the offsets
  of `render` with `getHeight` and `getWidth`, two computations that the code
  keeps apart; the boxes it excepts are named by `Crowded` (twelve children, or
  twenty-four in a loop) and `Sunken` (beside an empty sequence). UndoRestores
  excepts the trees to which the canvas has done something, an "if" or a
  subprocess, and no others: what is on the stack is shared with the canvas.
* **AnswersRight**: find, filter, not and closest against the reference
  `Matches`; find is complete but for two weaknesses of the engine (section 7).
  **OnceInOrder**: document order, or its reverse for parents and prevAll.
  **ShownShows**: after show() an element is displayed as it was at first, or
  else as style sheet or tag say, whatever hid it and however often.

## 6. Proofs

The theorems hold for every value of the constants that satisfies the named
ASSUMEs of the module.

| module | theorems |
|---|---|
| `DeployWorkflowProofs` | `TypeCorrect` ([]TypeOK), `Inductive` ([]IInv), `Accounted` ([]HostsAccounted), `SuccessServed` (SuccessServes), `LifecycleImplemented` (LifecycleSpec), `NoDowntimeOfItsOwn` (NoDowntime, if "gateway" is not in `Faults`) |
| `DeploymentApiProofs` | `Inductive`, `TypeCorrect` ([]TypeOK), `TableBacked` ([]OutcomesBacked), `CompleteInTurn` ([]RequestsComplete), `OrderlyLifecycleImplemented` (OrderlyLifecycle) |
| `BackchannelProofs` | `Inductive`, `NothingLost` ([]ResultKept), `ReplyImplemented` (ReplySpec) |
| `TasksProofs` | of `LogDrain`: `LogInductive`, `SkipsNothing` ([]NothingSkipped), `ShowsOnce` ([]OnceAlone); of `PeriodicTasks`: `Inductive`, `RunsHourlyOnce` (HourlyOnce) |
| `GatewayRoutesProofs` | `Inductive`, `TypeCorrect` ([]TypeOK), `SentOneAtATime` ([]SentUnless), `FollowsUnlessRacedOrFailed` ([]GatewayFollows) |
| `ServiceInstancesProofs` | `Inductive`, `GivesDistinctPorts` ([]PortsDistinct), `GivesNoClash` ([]NoPortClash), `AgentFollowsTable` ([]AgentFollows) |
| `RemoteFormsProofs` | `Inductive`, `CallsCorrect` ([]CallsInOrder), `ButtonComesBack` ([]ButtonBack), `OnceImplemented` (OnceSpec) |
| `ScriptsProofs` | of `JQueryEvents`: `Inductive`, `RegistryCorrect` ([]RegistryExact), `HandlersRunOnce` ([]RunsOnce), `UnboundStaysSilent` ([]NoStray), `LiveInsideOut` ([]InsideOut); of `FluoEditor`: `EditorInductive`, `EditorTypeCorrect` ([]EditorTypeOK), `HoverStaysRight` ([]HoverRight), `SizesStayFresh` ([]SizesFresh), `UndoesRight` (UndoRestores) |

None of the properties is inductive. *DeployWorkflow*: HostsAccounted, for one,
breaks when a completed undeploy job is left over for a host that runs its
deployment again; that this cannot be is a fact about jobs, which rests on one
about the branches of the deploy process, which rests on how process and row
agree. `IInv` has one named part per such fact:

1. `ProcessOwnsRow`, `OneWorking`, `RemovalFollowsSuccess`: a process that has
   not ended has a working row, and removals exist only for successes
   (`RowInv` in the proofs).
2. `StepsFollowProcess`: how far the branches of the hosts are at each position
   of the process; `RowsFollowSteps`: a running host has its row, or the thread
   that writes it has not yet; `JobsFollowRows`: undeploy jobs are for rows of
   finished deployments, and a completed one stays completed (`StepInv`).
3. `SentFollowsProcess`: from the gateway update on, the gateways were sent the
   hosts of the process.

The proofs follow these layers. Each layer is preserved by each group of actions
under the layers below; lemmas group the actions that only move a process
(`DeployMoves`, `FaultMoves`), so that an action is looked at closely only where
it disturbs something. `SuccessServed` then reads off `StepsFollowProcess`,
`RowsFollowSteps` and `SentFollowsProcess` at position "info";
`LifecycleImplemented` uses `ProcessOwnsRow` for Finish, `RemovalFollowsSuccess`
for Remove.

`NoDowntimeOfItsOwn` needs a second invariant, `ServeInv`, and the hypothesis that
gateways answer before `wait_for_jobs` gives up (participants:119-131: "assume
gateways will catch up anyway"); without it a cleanup may stop what the gateways
still route to. Who stops a host is named
by its undeploy job, so the invariant is about jobs: a job is there for a cleanup
of the same environment or because a client asked (`JobsAreDue`), and once a
cleanup stops hosts of an environment, some deployment of it is served that no
cleanup stops (`Replaced`): the one that cleans up has passed the gateway update,
so that the gateways route to its hosts (`RoutedFollowsSent`), and a later one
that stops it has passed the same point before. The gateways lose the hosts of a
deployment only to a removal (`RemovalsGone`).

*DeploymentApi*: what holds in every interleaving rests on the order of the code,
launch first and save second. `LaunchedFirst` says that what a copy of a row is
about to save is true of the engine; processes end but are not forgotten, so it
stays true while the copy gets stale, and OutcomesBacked follows. The rest
(`OrderlyInv`) holds as long as `orderly`: one request is under way, each row has
one process and its token says so (`TokenTells`, but for the request between
launch and save!), and a row is inserted next to no working one (`WorksAlone`),
which is the check of deployment.rb:81 that two requests can both pass.

*Backchannel*: the invariant adds to ResultKept what the worker knows
(`PassTrue`: a status it has read is still in Redis, and an outcome it has read is
final; `HandedOver`: before it removes a status, the message is in the engine's
storage or no longer needed) and that messages are true (`MessagesTrue`). The
removal of a status is safe by HandedOver, which is stable because only the
engine takes messages, and it answers the expression when it does.

*LogDrain*: what a request knows between its calls may be stale, so the invariant
says of it what remains true: the position it read reaches no further than the
list or the longest expired one (`InReach`), and before it nothing is missing
(`NothingSkippedBefore`). `OneAfterTheOther` is the stronger statement while
requests do not overlap, from which ShowsOnce follows.

*PeriodicTasks*: HourlyOnce is about the distance between two dispatches, the
code about the age of `last_run`. `LastRunKept` connects them: `last_run`, in the
row and in the copy of a pass, is not older than the last dispatch, except for the
task at hand; ran! makes that one true again before the next is taken.

*GatewayRoutes*: routes that cannot be sent stop the update, so SentUnless comes
first. A request decides with what it has read; `LeavesSound` says that its
transaction will leave routes that can be sent if nobody overtakes it, and
`Alone` that nobody does unless `overlapped`. For GatewayFollows, `RaceInv` says
of every state that has not `raced`: the process of an open transaction has not
run (`Waits`), one process at a time reads (`OneReads`), and, unless `failed`, the
last job sent is for the hosts of the deployment that is due (`SentTo`), as long as
nobody is about to send another, and says what the table says unless some process
is still to read it (`Fresh`). A failure of deployment 2 after its update makes
SentTo false for good; the next process that reads the routes sends them for the
active deployment, which is why `failed` ends there. When all is quiet nobody
reads, the queue is empty, and SentTo and Fresh are GatewayFollows. That the queue is bounded by the number of
processes, for `TypeOK`, is a count of those that have ended.

*ServiceInstances*: the port is chosen from rows the transaction can see, so
PortsDistinct is about pairs: two committed rows, or an open and a committed one,
share a port only when they are rivals. What the agent runs depends on the order
of the jobs in its queue, and the invariant speaks of that order: a job names a
committed row and its port (`JobsTrue`), the undeploy job of a row that goes is
behind all that starts it (`EndAnnounced`), between two rows on one port the first
is stopped (`Separated`), and a row that stays is not stopped (`ToldRuns`). A step
puts a job at the end of the queue or takes the first; NoPortClash and
AgentFollows are what is left when the queue has been taken.

*RemoteForms*: OnceSpec is about what runs, the code about lists that are emptied
as they are run, also by a callback that throws in their midst. `Sound` ties the
two together for one call: what a list holds has not run (`Waiting`), what has run
belongs to a list that fired (`Heard`), one of done and fail fires and the other is
cancelled (`OneEnd`), and a call under way still has the complete callback of the
options (`UnderWay`), whether or not answer, time-out and abort are still to meet.
Lemmas about `_Deferred` (`FireWaits`, `DoneWaits`) lead to those about done()
(`FinishedSound`) and from there to every way a call is made, ended or added to
(`BeginStep`, `EndStep`, `AttachStep`); they hold for callbacks that throw
anywhere. A step of a call thus extends what has run by callbacks of the list that
fired, each new, which is a step of `AjaxCall`. `CallsInOrder` counts the calls
that are open before and after a step. `ButtonInv` says when a button is disabled:
the end of a call that was sent runs the complete callback unless a handler throws
before it, and calls that were never sent have none that could enable the button
of another (their third conjunct).

*JQueryEvents*: what runs is decided by snapshots, and the properties are about
lists; handlers change the lists while a snapshot is under way, and may start
another event. So the invariant is about every event of the stack and not about
the first alone: `SnapshotInv` says whose handlers its snapshots hold (those of
the element at hand, and live ones from the target outwards), `DeadInv` that
nothing which had been unbound before it was raised is in a snapshot or a list,
`RanInv` that nothing it has run is still ahead of it, in a snapshot, in
`events.live` before that is looked at, or on an element further up. These need
that an id stands for one registration on one element, wherever it is still
held (`RegistryInv`), and that a one() handler which has run is bound nowhere
(`OnceInv`, until events nest). `odd = {}`, which is RunsOnce, NoStray and
InsideOut at once, is read off when a handler is about to run (`NothingOdd`).
The steps are divided into what a handler does to the registrations
(`OperationKept`: it makes at most one and brings none back), what becomes of the
event at hand, and what this leaves of the events below, so that the dozen ways on
are not multiplied by the ten operations.

*FluoEditor*: editor and canvas change the same trees by moving subtrees, and
paths are names. `EditorInv` has what HoverRight, SizesFresh and UndoRestores
rest on: every tree has its root and finitely many paths, an expid is in a tree at
most once, a tree on the stack that the canvas has not touched has the heads that
were shown, and the tree drawn is sized by the present mode. `FlowsAssumption` is
what is known of the definitions opened: finite trees with all their paths, not
yet drawn. The canvas may take an "if" apart at any time, so the lemmas about
`Adjust` say what it keeps: names and expids of what was there; those about
`Referring`, that it changes attributes only. HoverRight does not follow from the expids of the
tree drawn now, but from their agreement with what is shown (`Tells`), which undo
loses for a tree whose names or paths were changed (`taken`, then `astray`).
EditorTypeOK needs more of `Without` and `With`: that a tree with all elder siblings
has them after a subtree was cut out and the younger moved up, or one was put in
and they moved down. `WithoutView` and `WithView` say what is at each path after
that, in terms of `Shift` back to the tree before; `MovedFront`, `MovedSibling`
and `MovedChild` that moving commutes with parent, sibling and child;
`CountsChildren` that `Arity`, a cardinality, is the number of the last child. The
word "end" (`Layout`) is then right below every node but the parent of what was
cut or put in (`WithoutLayout`, `WithLayout`), which is the node whose "end" the
code sets (`AddLayout`, `RemoveLayout`) or need not (`MoveLayout`,
`InsertLayout`).

The type invariants of `DeploymentApi`, `GatewayRoutes`, `FluoEditor`, `MatchedSet`,
`JQueryEvents` (a part of RegistryExact) and `RemoteForms` (a part of CallsInOrder)
are checked by their runs as well; those of the other five modules are conjuncts of
`IInv` and only proved. The inductive invariants were checked with TLC on the
instances of section 4 before they were proved. Only model-checked are:

* the liveness properties EndsOrParks, RemovedStops, ResultsDelivered, RunsAgain
  and ButtonReturns: fairness is out of the prover's reach;
* BoxesFit, of which every size and offset is a fold over the children drawn: that
  would be an induction over data, which the prover has no rule for;
* everything about `Sizzle` and `MatchedSet`: the engine is a set of recursive
  operators that call each other, and toggle() a fold over the set.

## 7. What the models showed

Where the code does not do what one would expect, the model does as the code
does, and a property that this concerns names the exception. On the server:

* participants:55: the process of a framework app, and of every deployment after
  the first of an application, waits in "configuring" for ever; its row stays
  working and blocks further deployments (EndsOrParks has "parks").
* participants:4: a host whose job was queued when its deployment failed runs it
  without a row, and no later cleanup reaches it (HostsAccounted leaves failures
  out).
* participants:233: two agents that answer in different seconds stop
  remove_deployment_installs with an error, and rows stay.
* deployment.rb:81: two requests at once create two working deployments.
  deployment.rb:163: a worker that dies between launch and save! lets deploy!
  launch a second process (`orderly`).
* periodic_task.rb:37: a daily task is due during its whole start hour, and is
  dispatched in every pass until the hour is over; so HourlyOnce is about hourly
  tasks only.
* periodic_task.rb:40: with a start_hour of 24 or more, which nothing validates,
  next_run of a daily task is always tomorrow or later, and it never runs
  (`Reached`); an hourly task whose first hour is not in 0..24 raises in each pass.
* task.rb:24: after the expiry of a task's log as many new messages are skipped
  as had been read.
* route.rb:74, 81: the gateway keeps an old state when a process reads before the
  commit, beside another, or carries a replaced deployment (`raced`).
* participants:181, 288: a deployment that fails after its gateway update, for one
  because an undeploy job cannot be created, is stored as a failure and the
  gateway goes on routing to it, while the table has the old one active
  (`failed`); the next update of a route repairs it.
* memcached.rb:12 and service_instance.rb:45: two instances on one port, an
  instance that runs again after its end (`rivals`, `late`).

In the scripts:

* *Calls*: an abort in a handler of ajaxSend ends the call twice (jquery.js:7293);
  a handler that throws leaks `jQuery.active` and skips the complete callbacks;
  `status < 2` (7310) tests `window.status`. A veto of ajax:beforeSend by a later
  handler leaves the form disabled; disableSelector (jquery_ujs.js) has no
  `:not(:disabled)`, so that overlapping submits lose the label; the 13 ms timer
  of a plain form disables it also when a later handler prevented the submission;
  an exception on click submits the form natively too.
* *Events*: a handler of one() given a function without a guid cannot be unbound
  by that function (3417); unbinding document handlers silences live handlers or
  brings them back; handlers that were unbound during the dispatch still run
  (2906); a one() handler runs twice when it raises its own event.
* *Editor*: an "if" takes a branch again after each undo and change
  (ruote-fluo.js:758), and adds only one of two missing ones (770); the attribute
  "ref" that a subprocess gets from its only child (470) is written into the tree
  kept for undo and shows in the editor after it (`touched`); undo after a
  toggle shows stale sizes (1094); an empty sequence has a negative height (627);
  twelve children and more overflow the box, and twenty-four that of a loop
  (509-526, `Crowded`); a text child is lost in rendering.
* *Selectors*: without querySelectorAll the engine does not go back to another
  ancestor (4988-5060, `Loose`); `:not(.a.b)` before a comma takes away .a or .b
  (4257, `Hasty`); below an element only the first group is tied to it (4881); a
  positional selector may return an element twice; parents(':not(a, b)') is not
  reversed; toggle() of an element in a hidden parent shows nothing.

## 8. Not modelled

* **The components marked so** in section 1 and in `PROJECT.json`: billing, apps
  and users, domains' DNS look-ups, the agent look-up, administration, sign-in,
  sparklines, relative dates, the rest of jQuery, views. They are sequential or
  without state of their own. Two scripts have hazards that no module covers: the
  monitor page polls only after a success, so that one error ends its chain for
  ever, and a second call of get_servers starts a second chain; a poll of
  ranger.js replaces #main with the handlers bound in it.
* Of the modelled components: the generic update and destroy of the REST
  controllers (inherited_resources), which can set any column; the contents of
  jobs (URLs, recipes, credentials, log lines); replace_from_procfile!, which
  changes commands one by one without a transaction; the quota of app.rb:103,
  checked before the save like the rule of deployment.rb:81; the rescue of
  dns_verify_helper.rb:60, which keeps `verified` after a failed look-up;
  service instances of databases; an instance destroyed while a deploy process
  holds its id; the removal of the active deployment next to a route update.
* Of the scripts: parsing of selectors, text nodes, detached elements, XML,
  `:contains`, attribute operators, the Until variants; namespaces, special
  events and focus; data conversion, JSONP, prefilters, ETags; the memoized
  submit button after a declined submission; drawing primitives, colours and the
  text of heads. In `FluoEditor` a tree has one "if", and changes are upright
  text edits, no reordering of attributes; the list of major children, which is
  cached and not cleared (416-422), is computed afresh, since an "if" is adjusted
  before its list is first asked for and no other child list changes in a tree
  once drawn. In `MatchedSet` boxes have no children and a change is made only
  while a call is left. The document is no candidate of a selector: in the code it
  is handed to the filter as the parent of the root (jquery.js:4102-4114,
  5353-5355), so that parent(':first') of the root returns it and an attribute
  selector raises on it. In `JQueryEvents` the function of a bound one() handler
  changes no registrations in the run in which its wrapper unbinds it
  (3413-3416); handlers of the other kinds do.
* Ruote, Resque, Redis, the browser and the agents themselves, of which the
  models have what the code relies on: a launched process is executed, an error
  below `:on_error` cancels the branches and runs the handler, a queued job is run
  at some time and its status kept, a Redis call is atomic, handlers run to their
  end, requests end at last.
