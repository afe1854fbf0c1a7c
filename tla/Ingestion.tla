------------------------------ MODULE Ingestion ------------------------------
(***************************************************************************)
(* From GitHub to the index: organizations connect and disconnect           *)
(* installations of the GitHub App (usecase/github), repository events are  *)
(* published by them and by webhooks, and RepositoryEventController.handle  *)
(* resolves each event to an organization and indexes its repository for    *)
(* it.  The queue and the loops are those of Subscription; what an index    *)
(* run does is IndexWorker, of which only the repository row's owner is     *)
(* kept here.                                                               *)
(***************************************************************************)
EXTENDS Subscription

CONSTANTS Orgs, Installations, Repos, NoOrg,
          InstallationOf,   \* the installation that can access a repository
          Public,           \* repositories anybody can clone
          Jobs,             \* <<organization, repository>>: tokenless jobs that
                            \* the ingestion service may publish
          MaxChanges,       \* bound: connects, disconnects and uninstalls
          MaxFaults         \* bound: handler calls that fail by themselves

None == "none"   \* no installation

ASSUME IngestionAssumption ==
  /\ None \notin Installations
  /\ NoOrg \notin Orgs
  /\ InstallationOf \in [Repos -> Installations]
  /\ Public \subseteq Repos
  /\ Jobs \subseteq Orgs \X Repos
  /\ MaxChanges \in Nat
  /\ MaxFaults \in Nat

VARIABLES
  installation,  \* github_installation: organization -> installation, or None
  installed,     \* installations that exist on GitHub
  changes,       \* connects, disconnects and uninstalls so far
  owner,         \* repository rows: organization_id, NoOrg when there is none
  body,          \* the messages, by number
  request,       \* the index request being served: whose, and what is left
  step,          \* where the handler is
  tenant,        \* m.OrganizationID of the message in hand
  faults,        \* calls that failed by themselves so far
  connectedOnce, \* history: <<organization, installation>> ever connected
  excused        \* history: messages that were hopeless while they waited

githubVars == <<installation, installed, changes, connectedOnce>>
handlerVars == <<step, tenant, faults>>
vars == <<subscriptionVars, githubVars, owner, body, excused, request,
          handlerVars>>

-----------------------------------------------------------------------------
(* Messages.                                                               *)

Unreadable == [kind |-> "unreadable"]

\* FromProto fails on an event without a repository; the error is dropped and
\* the event is left with its zero values.
Malformed == [kind |-> "event", org |-> NoOrg, installation |-> None]

\* A push event: it names the installation, and no organization.
Webhook(r) == [kind |-> "event", org |-> NoOrg,
               installation |-> InstallationOf[r], repo |-> r]

FullIndex(o, i, r) == [kind |-> "event", org |-> o,
                       installation |-> i, repo |-> r]

\* A tokenless job: the organization it names is taken at its word.
Tokenless(o, r) == [kind |-> "event", org |-> o,
                    installation |-> None, repo |-> r]

Bodies == {Unreadable, Malformed}
            \cup {Webhook(r) : r \in Repos}
            \cup {FullIndex(o, InstallationOf[r], r) : o \in Orgs, r \in Repos}
            \cup {Tokenless(job[1], job[2]) : job \in Jobs}

OrgsOf(i) == {o \in Orgs : i # None /\ installation[o] = i}

\* An event nothing can be done about as things are: it cannot be read, it has
\* no installation to clone a private repository by, the App was uninstalled,
\* or a push comes from an installation no organization has.
Hopeless(m) ==
  \/ body[m] \in {Unreadable, Malformed}
  \/ body[m].installation = None /\ body[m].repo \notin Public
  \/ body[m].installation \notin installed \cup {None}
  \/ body[m].org = NoOrg /\ OrgsOf(body[m].installation) = {}

HopelessMessages == {m \in Messages \ rejected : Hopeless(m)}

NoRequest == [org |-> NoOrg, installation |-> None, todo |-> {}]

\* organization_id and installation_id are both UNIQUE.
Tables == {t \in [Orgs -> Installations \cup {None}] :
             \A o, other \in Orgs :
               t[o] = t[other] /\ o # other => t[o] = None}

IngestionTypeOK ==
  /\ SubscriptionTypeOK
  /\ installation \in Tables
  /\ installed \subseteq Installations
  /\ changes \in 0..MaxChanges
  /\ owner \in [Repos -> Orgs \cup {NoOrg}]
  /\ body \in [Messages -> Bodies]
  /\ excused \subseteq Messages
  /\ request \in [org : Orgs \cup {NoOrg},
                  installation : Installations \cup {None},
                  todo : SUBSET Repos]
  /\ step \in {"token", "resolve", "clone", "upsert", "index"}
  /\ tenant \in Orgs \cup {NoOrg}
  /\ faults \in 0..MaxFaults
  /\ connectedOnce \subseteq Orgs \X Installations

\* Any organizations may have connected before; nothing is indexed yet.
IngestionInit ==
  /\ SubscriptionInit
  /\ installation \in Tables
  /\ installed = Installations
  /\ changes = 0
  /\ connectedOnce = {c \in Orgs \X Installations : installation[c[1]] = c[2]}
  /\ owner = [r \in Repos |-> NoOrg]
  /\ body = <<>>
  /\ excused = {}
  /\ request = NoRequest
  /\ step = "token"
  /\ tenant = NoOrg
  /\ faults = 0

-----------------------------------------------------------------------------
(* Connections: the HTTP handlers of the dashboard.                        *)

\* The history notes which events have become hopeless.
Excuse == excused' = excused \cup HopelessMessages'

Change == changes < MaxChanges /\ changes' = changes + 1

\* Mutant: nothing keeps an installation to one organization.
UpsertShared(o, i) == installation' = [installation EXCEPT ![o] = i]

\* The organization's row is written or replaced; the unique index refuses an
\* installation that another organization holds.
UpsertInstallation(o, i) ==
  /\ \A other \in Orgs \ {o} : installation[other] # i
  /\ installation' = [installation EXCEPT ![o] = i]

\* GetInstallationAccount has to find the installation on GitHub.
Connect(o, i) ==
  /\ Running
  /\ Change
  /\ i \in installed
  /\ UpsertInstallation(o, i)
  /\ connectedOnce' = connectedOnce \cup {<<o, i>>}
  /\ UNCHANGED <<subscriptionVars, installed, owner, body, request,
                 handlerVars>>
  /\ Excuse

DeleteByOrganization(o) == installation' = [installation EXCEPT ![o] = None]

\* The row goes; the App stays installed on GitHub.
Disconnect(o) ==
  /\ Running
  /\ Change
  /\ installation[o] # None
  /\ DeleteByOrganization(o)
  /\ UNCHANGED <<subscriptionVars, installed, connectedOnce, owner, body,
                 request, handlerVars>>
  /\ Excuse

\* The App is uninstalled on GitHub, of which synthy is not told.
Uninstall(i) ==
  /\ Change
  /\ i \in installed
  /\ installed' = installed \ {i}
  /\ UNCHANGED <<subscriptionVars, installation, connectedOnce, owner, body,
                 request, handlerVars>>
  /\ Excuse

\* The repositories an installation can access.
ListRepositories(i) == {r \in Repos : InstallationOf[r] = i}

\* POST /index: the organization has an installation, which still exists.  (A
\* request for no repositories is answered at once.)
StartRequest(o) ==
  /\ Running /\ request = NoRequest
  /\ installation[o] \in installed
  /\ ListRepositories(installation[o]) # {}
  /\ request' = [org |-> o, installation |-> installation[o],
                 todo |-> ListRepositories(installation[o])]
  /\ UNCHANGED <<subscriptionVars, githubVars, owner, body, excused,
                 handlerVars>>

PublishBody(b) ==
  /\ Publish
  /\ body' = Append(body, b)
  /\ UNCHANGED <<githubVars, owner, handlerVars>>
  /\ Excuse

\* One event per repository, in the order GitHub listed them; after the last
\* one the request is answered.
PublishNext ==
  /\ Running /\ connected
  /\ \E r \in request.todo :
       /\ PublishBody(FullIndex(request.org, request.installation, r))
       /\ request' = IF request.todo = {r} THEN NoRequest
                     ELSE [request EXCEPT !.todo = @ \ {r}]

\* A publish fails, with some events already out.
EndRequest ==
  /\ request # NoRequest
  /\ ~ connected
  /\ request' = NoRequest
  /\ UNCHANGED <<subscriptionVars, githubVars, owner, body, excused,
                 handlerVars>>

\* The ingestion service publishes what the webhooks of GitHub tell it, and it
\* may publish jobs without an installation.
PublishEvent ==
  /\ \/ \E b \in {Unreadable, Malformed} : PublishBody(b)
     \/ \E r \in Repos :
          InstallationOf[r] \in installed /\ PublishBody(Webhook(r))
     \/ \E job \in Jobs : PublishBody(Tokenless(job[1], job[2]))
  /\ UNCHANGED request

-----------------------------------------------------------------------------
(* RepositoryEventController.handle.                                       *)

Event == body[hand]
Handling(s) == Running /\ at = "handler" /\ step = s

\* The subscriber decodes the event and the controller starts to handle it.
Receive ==
  /\ \/ TakeGarbled /\ Event = Unreadable /\ UNCHANGED <<step, tenant>>
     \/ Take /\ Event # Unreadable /\ UNCHANGED <<step, tenant>>
     \/ HandOver /\ step' = "token" /\ tenant' = Event.org
  /\ UNCHANGED <<githubVars, owner, body, excused, request, faults>>

\* A call under the context of the loop: it fails once that is cancelled.
CallSucceeds == ~ ctxDone
GoOn(s) == step' = s /\ UNCHANGED <<subscriptionVars, faults>>
HandlerIdle == step' = "token" /\ tenant' = NoOrg

\* An installation token is minted; an event without an installation needs
\* none.
InstallationToken ==
  /\ Handling("token")
  /\ \/ /\ Event.installation = None
        /\ GoOn("resolve")
     \/ /\ Event.installation \in installed
        /\ CallSucceeds
        /\ GoOn("resolve")
  /\ UNCHANGED <<tenant, owner>>

\* Mutant: the row is not looked up by installation.
ResolveAnyRow ==
  /\ Handling("resolve")
  /\ \/ /\ tenant # NoOrg
        /\ UNCHANGED tenant
     \/ /\ tenant = NoOrg /\ Event.installation # None
        /\ CallSucceeds
        /\ tenant' \in {o \in Orgs : installation[o] # None}
  /\ GoOn("clone")
  /\ UNCHANGED owner

\* GetByInstallationId fills in the organization of a webhook's event.
ResolveOrganization ==
  /\ Handling("resolve")
  /\ \/ /\ tenant # NoOrg
        /\ UNCHANGED tenant
     \/ /\ tenant = NoOrg /\ Event.installation # None
        /\ CallSucceeds
        /\ tenant' \in OrgsOf(Event.installation)
  /\ GoOn("clone")
  /\ UNCHANGED owner

\* Without a token the clone is anonymous, which only a public repository
\* allows.
CanClone == IF Event.installation = None THEN Event.repo \in Public
                                         ELSE Event.installation \in installed

Clone ==
  /\ Handling("clone")
  /\ CallSucceeds
  /\ CanClone
  /\ GoOn("upsert")
  /\ UNCHANGED <<tenant, owner>>

\* upsertRepositoryRecord: the INSERT records the organization, the UPDATE of
\* a row that is there leaves it as it was.
UpsertRepository ==
  /\ Handling("upsert")
  /\ CallSucceeds
  /\ owner' = IF owner[Event.repo] = NoOrg
              THEN [owner EXCEPT ![Event.repo] = tenant]
              ELSE owner
  /\ GoOn("index")
  /\ UNCHANGED tenant

\* The rest of ProcessRepository, and handle returns nil.
IndexRepository ==
  /\ Handling("index")
  /\ CallSucceeds
  /\ HandlerReturns(TRUE)
  /\ HandlerIdle
  /\ UNCHANGED <<owner, faults>>

\* Mutant: the organization is required before it has been resolved.
CauseUnresolved ==
  \/ ctxDone
  \/ step = "token" /\ Event.installation \notin installed \cup {None}
  \/ step = "clone" /\ ~ CanClone
  \/ step = "resolve" /\ tenant = NoOrg

\* What makes handle return an error, apart from a call that fails by itself.
Cause ==
  \/ ctxDone
  \/ step = "token" /\ Event.installation \notin installed \cup {None}
  \/ step = "clone" /\ ~ CanClone
  \/ /\ step = "resolve"
     /\ tenant = NoOrg
     /\ OrgsOf(Event.installation) = {}

HandleFails ==
  /\ Running /\ at = "handler"
  /\ \/ Cause /\ UNCHANGED faults
     \/ faults < MaxFaults /\ faults' = faults + 1
  /\ HandlerReturns(FALSE)
  /\ HandlerIdle
  /\ UNCHANGED owner

Handle ==
  /\ \/ InstallationToken \/ ResolveOrganization \/ Clone
     \/ UpsertRepository \/ IndexRepository \/ HandleFails
  /\ UNCHANGED <<githubVars, body, excused, request>>

-----------------------------------------------------------------------------
(* The composition.                                                        *)

Github ==
  \/ \E o \in Orgs : Disconnect(o) \/ StartRequest(o)
  \/ \E o \in Orgs, i \in Installations : Connect(o, i)
  \/ \E i \in Installations : Uninstall(i)

Loops ==
  /\ Deliver \/ GiveBack \/ DropBuffered \/ EndLoop \/ Ack \/ Fail
  /\ UNCHANGED <<githubVars, owner, body, excused, request, handlerVars>>

\* Messages are not persistent where synthy publishes them; those of the
\* ingestion service may be.
Forgotten == {m \in Waiting : \E o \in Orgs, r \in Repos :
                               body[m] = FullIndex(o, InstallationOf[r], r)}

Process ==
  /\ \/ Shutdown \/ CloseChannel \/ Exit \/ Crash \/ Restart \/ ConnectionLost
     \/ \E S \in SUBSET Waiting : Forgotten \subseteq S /\ BrokerRestart(S)
  /\ IF Running' THEN UNCHANGED <<request, step, tenant>>
                 ELSE request' = NoRequest /\ HandlerIdle
  /\ UNCHANGED <<githubVars, owner, body, excused, faults>>

Consumer == Receive \/ Handle \/ Loops

Publisher == PublishNext \/ EndRequest \/ PublishEvent

Next == Github \/ Publisher \/ Consumer \/ Process

Spec == IngestionInit /\ [][Next]_vars

\* The goroutines are scheduled and the broker delivers, a shutdown that has
\* begun is carried through, and a dead process is started again.  Nothing is
\* owed of organizations, of GitHub or of the network.
FairSpec ==
  /\ Spec
  /\ WF_vars(Consumer)
  /\ WF_vars((CloseChannel \/ Exit \/ Restart) /\ Process)

-----------------------------------------------------------------------------
\* A repository belongs to an organization that had connected an installation
\* which can access it: no order of connecting, disconnecting, queueing and
\* redelivery indexes a repository for a stranger.  The one exception is a
\* public repository, which a tokenless job may give to any organization.
OwnerWasConnected ==
  \A r \in Repos :
    owner[r] # NoOrg =>
      \/ <<owner[r], InstallationOf[r]>> \in connectedOnce
      \/ /\ r \in Public
         /\ \E m \in Messages : body[m] = Tokenless(owner[r], r)

\* While no shutdown cancels a run, an event that was never hopeless between
\* its publication and its end is dead-lettered only for a call that failed,
\* and each such failure costs one event.  (A shutdown may cost several: until
\* the channel is closed both selects of the subscriber may prefer the next
\* delivery to the cancelled context.)
RejectedForCause ==
  shutdowns = 0 => Cardinality(rejected \ excused) <= faults
=============================================================================
