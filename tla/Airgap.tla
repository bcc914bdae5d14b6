------------------------------- MODULE Airgap -------------------------------
(***************************************************************************)
(* The controllers that keep Manifests up to date where there is no        *)
(* internet: the localartifactset controller merges the versions of        *)
(* LocalArtifactSets into the status of the Manifests of the same release; *)
(* the manifest controller copies the local services into their spec and   *)
(* the image of the spray job into their status.                           *)
(*                                                                         *)
(* The first finds Manifests in a registry that the informer's handlers    *)
(* fill with pointers to cached objects, and merges into these objects     *)
(* before it writes; the second lists Manifests from the API server.  Both *)
(* run in one process, each with one worker, and every API call is a step. *)
(*                                                                         *)
(* A resourceVersion only tells whether a copy is still what is stored,    *)
(* which is kept as such.  Lists of versions are sets.                     *)
(***************************************************************************)
EXTENDS Integers, FiniteSets

CONSTANTS
    Names,      \* of Manifests: numbers, in the order of the API server's lists
    Sets,       \* names of LocalArtifactSets
    Releases,   \* values of the label sprayRelease
    Kinds,      \* of versions: component, docker
    Numbers,    \* version numbers
    Prefixes,   \* whether a set writes v before the number: booleans
    Repos,      \* image repositories of the local services
    Schemes,    \* their schemes: http, https, or none when left out
    Registry,   \* SPRAY_JOB_IMAGE_REGISTRY in kubean-config
    Initial,    \* bound: the labels, or none, of the objects that are there at the start
    MaxEdits,   \* bound: changes made by users
    MaxFaults   \* bound: failed calls and restarts of the process

ASSUME NamesAssumption == IsFiniteSet(Names) /\ Names \subseteq Nat \ {0}
ASSUME ReleasesAssumption == "master" \in Releases /\ "none" \notin Releases
ASSUME KindsAssumption == Kinds \subseteq {"component", "docker"}
ASSUME PrefixesAssumption == Prefixes \subseteq BOOLEAN
ASSUME ReposAssumption == "none" \notin Repos
ASSUME SchemesAssumption == Schemes \subseteq {"none", "http", "https"}
ASSUME RegistryAssumption == Registry \notin {"none", "default"}
ASSUME BoundsAssumption == MaxEdits \in Nat /\ MaxFaults \in Nat

Version == [kind: Kinds, number: Numbers, v: BOOLEAN]
Contents == SUBSET {x \in Version : x.v \in Prefixes} \ {{}}
Labels == Releases \cup {"none"}
ASSUME InitialAssumption == Initial \subseteq Labels
Images == {"none", "default", Registry}

LocalServices == [repo: Repos, scheme: Schemes]
NoService == [repo |-> "none", scheme |-> "none"]

\* The API server fills in the default of imageRepoScheme.
Stored(s) == [s EXCEPT !.scheme = IF @ = "none" THEN "https" ELSE @]

Manifest == [exists: BOOLEAN, release: Labels, image: Images, avail: SUBSET Version,
             service: {NoService} \cup {Stored(s) : s \in LocalServices}]
NewManifest(r) == [exists |-> TRUE, release |-> r, image |-> "none", avail |-> {},
                   service |-> NoService]
NoManifest == [exists |-> FALSE, release |-> "none", image |-> "none", avail |-> {},
               service |-> NoService]

WithStatus(o, image, avail) == [o EXCEPT !.image = image, !.avail = avail]

ArtifactSet == [release: Labels, content: Contents \cup {{}}]
NoSet == [release |-> "none", content |-> {}]

VARIABLES
    manifest,   \* manifest[m]: the Manifest m in the API server
    sets,       \* sets[a]: the LocalArtifactSet a in the API server
    local,      \* the ConfigMap kubean-localservice, NoService if there is none
    pending,    \* Manifests that changed since their handler was called
    held,       \* held[m]: the cached object of m that the handler was given
    created,    \* the registry has been created
    lost,       \* Manifests recorded in a registry that nobody reads
    dropped,    \* history: Manifests whose object has versions that could not be written
    seen,       \* seen[a]: the LocalArtifactSet a in the cache
    merge,      \* the pass of the localartifactset controller
    info,       \* the pass of the manifest controller
    current,    \* copies of Manifests, by holder, that are still what is stored
    published,  \* history: the versions that sets have had, by release
    worn,       \* history: the releases that Manifests have had
    bounds      \* edits and faults so far

vars == <<manifest, sets, local, pending, held, created, lost, dropped, seen,
          merge, info, current, published, worn, bounds>>
registry == <<held, created, lost, dropped>>
history == <<published, worn>>

Merges == [at: {"idle", "walk", "get", "write"}, release: Labels, content: Contents \cup {{}},
           todo: SUBSET Names, name: Names \cup {0},
           image: Images, avail: SUBSET Version]
NoMerge == [at |-> "idle", release |-> "none", content |-> {}, todo |-> {}, name |-> 0,
            image |-> "none", avail |-> {}]

Infos == [at: {"idle", "online", "service", "update", "image", "images"},
          listed: [Names -> Manifest], name: Names \cup {0},
          service: {NoService} \cup LocalServices, image: Images]
NoInfo == [at |-> "idle", listed |-> [m \in Names |-> NoManifest], name |-> 0,
           service |-> NoService, image |-> "none"]

TypeOK ==
    /\ manifest \in [Names -> Manifest]
    /\ sets \in [Sets -> ArtifactSet] /\ seen \in [Sets -> ArtifactSet]
    /\ local \in {NoService} \cup LocalServices
    /\ pending \subseteq Names
    /\ held \in [Names -> Manifest] /\ created \in BOOLEAN
    /\ lost \subseteq Names /\ dropped \subseteq Names
    /\ merge \in Merges /\ (merge.at \in {"get", "write"} => merge.name \in Names)
    /\ info \in Infos /\ (info.at = "update" => info.service # NoService)
    /\ current \subseteq {"merge", "info"} \X Names
    /\ published \subseteq Releases \X Version
    /\ worn \subseteq Names \X Releases
    /\ bounds \in [edits: Nat, faults: Nat]

Exists(m) == manifest[m].exists
SetExists(a) == sets[a].content # {}

Publications(s) == IF s.release = "none" THEN {} ELSE {s.release} \X s.content
Wears(m, r) == IF r = "none" THEN {} ELSE {<<m, r>>}

\* The operator starts where some Manifests and sets are there already.
Init ==
    /\ manifest \in [Names -> {NoManifest} \cup {NewManifest(r) : r \in Initial}]
    /\ sets \in [Sets -> {NoSet} \cup [release: Initial, content: Contents]]
    /\ local \in {NoService} \cup LocalServices
    /\ pending = {m \in Names : manifest[m].exists}
    /\ held = [m \in Names |-> NoManifest] /\ created = FALSE
    /\ lost = {} /\ dropped = {}
    /\ seen = sets
    /\ merge = NoMerge /\ info = NoInfo /\ current = {}
    /\ published = UNION {Publications(sets[a]) : a \in Sets}
    /\ worn = UNION {Wears(m, manifest[m].release) : m \in Names}
    /\ bounds = [edits |-> 0, faults |-> 0]

\* A write to the API server: if it changes the Manifest, the handler will be
\* called, and no copy read before is current any more.
Put(m, o) ==
    /\ manifest' = [manifest EXCEPT ![m] = o]
    /\ IF o = manifest[m] THEN UNCHANGED <<pending, current>>
       ELSE /\ pending' = pending \cup {m}
            /\ current' = {c \in current : c[2] # m}

-----------------------------------------------------------------------------
(* The registry. *)

\* The Manifests that the registry has under a release.
Entries(r) == {m \in Names \ lost : held[m].exists /\ held[m].release = r}

\* The handler removes the old entry of m and appends the new one, in place:
\* a walk along the same list may meet m again instead of one it has not met.
Shifted(m) ==
    {merge.todo} \cup IF merge.at = "idle" \/ m \notin Entries(merge.release) THEN {}
                      ELSE {(merge.todo \ {n}) \cup (IF Exists(m) THEN {m} ELSE {}) :
                              n \in merge.todo}

\* Mutant: an update of a known Manifest keeps the old object.
Handle_Keeps(m) ==
    /\ m \in pending
    /\ pending' = pending \ {m}
    /\ held' = IF Exists(m) /\ held[m].exists THEN held ELSE [held EXCEPT ![m] = manifest[m]]
    /\ created' = TRUE /\ lost' = lost \ {m} /\ dropped' = dropped \ {m}
    /\ UNCHANGED <<manifest, sets, local, seen, merge, info, current, history, bounds>>

\* The add, update and delete handlers.
Handle(m) ==
    /\ m \in pending
    /\ pending' = pending \ {m}
    /\ held' = [held EXCEPT ![m] = manifest[m]]
    /\ created' = TRUE /\ lost' = lost \ {m} /\ dropped' = dropped \ {m}
    /\ \E todo \in Shifted(m) : merge' = [merge EXCEPT !.todo = todo]
    /\ UNCHANGED <<manifest, sets, local, seen, info, current, history, bounds>>

\* GetVersionedManifest has no lock: when the worker looks for the registry
\* while the first handler creates it, each creates one, and one is lost.
HandleRaced(m) ==
    /\ m \in pending /\ Exists(m) /\ ~created
    /\ merge.at = "idle" /\ \E a \in Sets : seen[a].release # "none"
    /\ pending' = pending \ {m}
    /\ held' = [held EXCEPT ![m] = manifest[m]]
    /\ created' = TRUE /\ lost' = lost \cup {m} /\ UNCHANGED dropped
    /\ UNCHANGED <<manifest, sets, local, seen, merge, info, current, history, bounds>>

-----------------------------------------------------------------------------
(* The localartifactset controller. *)

UnifyVersions(S) == {IF x.kind = "component" THEN [x EXCEPT !.v = FALSE] ELSE x : x \in S}

\* MergeSoftwareInfo, MergeDockerInfo and UnifyVersions.
Merged(avail, content) == IF content \subseteq avail THEN avail
                          ELSE UnifyVersions(avail \cup content)

MergeAt(s) == merge.at = s
Walk(r, c, todo) == [at |-> "walk", release |-> r, content |-> c, todo |-> todo, name |-> 0,
                     image |-> "none", avail |-> {}]
NextManifest == Walk(merge.release, merge.content, merge.todo \ {merge.name})

\* Mutant: all Manifests are merged into, whatever their release.
Reconcile_AnyRelease(a) ==
    /\ MergeAt("idle") /\ seen[a].release # "none"
    /\ created' = TRUE
    /\ LET todo == {m \in Names \ lost : held[m].exists}
       IN merge' = IF todo = {} THEN NoMerge
                   ELSE Walk(seen[a].release, seen[a].content, todo)
    /\ UNCHANGED <<manifest, sets, local, pending, held, lost, dropped, seen, info, current,
                   history, bounds>>

\* Read the set from the cache and look up the Manifests of its release.
Reconcile(a) ==
    /\ MergeAt("idle") /\ seen[a].release # "none"
    /\ created' = TRUE
    /\ merge' = IF Entries(seen[a].release) = {} THEN NoMerge
                ELSE Walk(seen[a].release, seen[a].content, Entries(seen[a].release))
    /\ UNCHANGED <<manifest, sets, local, pending, held, lost, dropped, seen, info, current,
                   history, bounds>>

\* A set without the label belongs to master, unless it has changed since it was read.
LabelSet(a) ==
    /\ MergeAt("idle")
    /\ seen[a] = sets[a] /\ SetExists(a) /\ sets[a].release = "none"
    /\ sets' = [sets EXCEPT ![a].release = "master"]
    /\ published' = published \cup Publications(sets'[a])
    /\ UNCHANGED <<manifest, local, pending, registry, seen, merge, info, current,
                   worn, bounds>>

\* Mutant: whether there is something to write is decided after the merge.
MergeNext_ComparesLate ==
    /\ MergeAt("walk")
    /\ \/ merge.todo = {} /\ merge' = NoMerge /\ UNCHANGED held
       \/ \E m \in merge.todo :
            /\ merge' = Walk(merge.release, merge.content, merge.todo \ {m})
            /\ held' = [held EXCEPT ![m].avail = Merged(held[m].avail, merge.content)]
    /\ UNCHANGED <<manifest, sets, local, pending, created, lost, dropped, seen, info, current,
                   history, bounds>>

\* The versions are merged into the cached object of the next Manifest.
MergeNext ==
    /\ MergeAt("walk")
    /\ \/ merge.todo = {} /\ merge' = NoMerge /\ UNCHANGED held
       \/ \E m \in merge.todo :
            LET avail == Merged(held[m].avail, merge.content)
            IN IF merge.content \subseteq held[m].avail
               THEN /\ merge' = Walk(merge.release, merge.content, merge.todo \ {m})
                    /\ UNCHANGED held
               ELSE /\ merge' = [merge EXCEPT !.at = "get", !.name = m,
                                   !.image = held[m].image, !.avail = avail]
                    /\ held' = [held EXCEPT ![m].avail = avail]
    /\ UNCHANGED <<manifest, sets, local, pending, created, lost, dropped, seen, info, current,
                   history, bounds>>

\* The Manifest is read again for its resourceVersion; one that is gone is skipped.
GetManifest ==
    /\ MergeAt("get")
    /\ IF Exists(merge.name)
       THEN /\ merge' = [merge EXCEPT !.at = "write"]
            /\ current' = current \cup {<<"merge", merge.name>>}
       ELSE merge' = NextManifest /\ UNCHANGED current
    /\ UNCHANGED <<manifest, sets, local, pending, registry, seen, info, history, bounds>>

\* Its whole status becomes that of the cached object; a refused write ends the pass.
UpdateMerged ==
    /\ MergeAt("write")
    /\ IF <<"merge", merge.name>> \in current
       THEN /\ Put(merge.name, WithStatus(manifest[merge.name], merge.image, merge.avail))
            /\ merge' = NextManifest
       ELSE merge' = NoMerge /\ UNCHANGED <<manifest, pending, current>>
    /\ UNCHANGED <<sets, local, registry, seen, info, history, bounds>>

MergeStep == MergeNext \/ GetManifest \/ UpdateMerged

-----------------------------------------------------------------------------
(* The manifest controller. *)

InfoAt(s) == info.at = s
InfoGoto(s) == info' = [info EXCEPT !.at = s]
First(S) == CHOOSE m \in S : \A n \in S : m <= n

ListManifests ==
    /\ InfoAt("idle") /\ \E m \in Names : Exists(m)
    /\ info' = [NoInfo EXCEPT !.at = "online", !.listed = manifest]
    /\ current' = {c \in current : c[1] # "info"}
                    \cup {<<"info", m>> : m \in {n \in Names : Exists(n)}}
    /\ UNCHANGED <<manifest, sets, local, pending, registry, seen, merge, history, bounds>>

\* Without any LocalArtifactSet the local services do not matter.
IsOnlineENV ==
    /\ InfoAt("online")
    /\ InfoGoto(IF \E a \in Sets : SetExists(a) THEN "service" ELSE "image")
    /\ UNCHANGED <<manifest, sets, local, pending, registry, seen, merge, current,
                   history, bounds>>

\* Mutant: only the first of the listed Manifests is compared.
Differing_First(s) ==
    {m \in Names : /\ info.listed[m].exists /\ info.listed[m].service # s
                   /\ m = First({n \in Names : info.listed[n].exists})}

Differing(s) == {m \in Names : info.listed[m].exists /\ info.listed[m].service # s}

\* Mutant: a ConfigMap that is not there ends the pass.
FetchLocalServiceCM_Ends ==
    /\ InfoAt("service")
    /\ IF local = NoService THEN info' = NoInfo
       ELSE IF Differing(local) = {} THEN InfoGoto("image")
       ELSE info' = [info EXCEPT !.at = "update", !.name = First(Differing(local)),
                                 !.service = local]
    /\ UNCHANGED <<manifest, sets, local, pending, registry, seen, merge, current,
                   history, bounds>>

\* UpdateLocalService: the first Manifest that differs is the only one to be updated.
FetchLocalServiceCM ==
    /\ InfoAt("service")
    /\ IF local = NoService \/ Differing(local) = {} THEN InfoGoto("image")
       ELSE info' = [info EXCEPT !.at = "update", !.name = First(Differing(local)),
                                 !.service = local]
    /\ UNCHANGED <<manifest, sets, local, pending, registry, seen, merge, current,
                   history, bounds>>

\* The pass ends, whether or not the update was accepted.
UpdateLocalService ==
    /\ InfoAt("update")
    /\ IF <<"info", info.name>> \in current
       THEN Put(info.name, [manifest[info.name] EXCEPT !.service = Stored(info.service)])
       ELSE UNCHANGED <<manifest, pending, current>>
    /\ info' = NoInfo
    /\ UNCHANGED <<sets, local, registry, seen, merge, history, bounds>>

FetchKubeanConfigProperty ==
    /\ InfoAt("image")
    /\ info' = [info EXCEPT !.at = "images", !.image = Registry]
    /\ UNCHANGED <<manifest, sets, local, pending, registry, seen, merge, current,
                   history, bounds>>

WrongImages == {m \in Names : info.listed[m].exists /\ info.listed[m].image # info.image}

\* Mutant: the status is written whatever has happened to the Manifest since.
UpdateLocalAvailableImage_Forces ==
    /\ InfoAt("images")
    /\ \/ WrongImages = {} /\ info' = NoInfo /\ UNCHANGED <<manifest, pending, current>>
       \/ \E m \in WrongImages :
            /\ m = First(WrongImages)
            /\ IF Exists(m)
               THEN /\ Put(m, WithStatus(manifest[m], info.image, info.listed[m].avail))
                    /\ info' = [info EXCEPT !.listed[m].image = info.image]
               ELSE info' = NoInfo /\ UNCHANGED <<manifest, pending, current>>
    /\ UNCHANGED <<sets, local, registry, seen, merge, history, bounds>>

\* The listed Manifests in turn; the first refused write ends the pass.
UpdateLocalAvailableImage ==
    /\ InfoAt("images")
    /\ \/ WrongImages = {} /\ info' = NoInfo /\ UNCHANGED <<manifest, pending, current>>
       \/ \E m \in WrongImages :
            /\ m = First(WrongImages)
            /\ IF <<"info", m>> \in current
               THEN /\ Put(m, WithStatus(manifest[m], info.image, info.listed[m].avail))
                    /\ info' = [info EXCEPT !.listed[m].image = info.image]
               ELSE info' = NoInfo /\ UNCHANGED <<manifest, pending, current>>
    /\ UNCHANGED <<sets, local, registry, seen, merge, history, bounds>>

InfoStep == \/ ListManifests \/ IsOnlineENV \/ FetchLocalServiceCM \/ UpdateLocalService
            \/ FetchKubeanConfigProperty \/ UpdateLocalAvailableImage

-----------------------------------------------------------------------------
(* The cache, failed calls, restarts and the users. *)

SetSync(a) ==
    /\ seen[a] # sets[a]
    /\ seen' = [seen EXCEPT ![a] = sets[a]]
    /\ UNCHANGED <<manifest, sets, local, pending, registry, merge, info, current,
                   history, bounds>>

Fault == bounds.faults < MaxFaults /\ bounds' = [bounds EXCEPT !.faults = @ + 1]

\* Mutant: the default registry is missing.
FailedCall_NoDefault ==
    /\ Fault
    /\ InfoAt("image") /\ info' = [info EXCEPT !.at = "images", !.image = ""]
    /\ UNCHANGED <<manifest, sets, local, pending, registry, seen, merge, current, history>>

\* A failed call ends a merge: the cached object keeps what could not be written, and
\* so may not be merged into again.  The manifest controller takes a failed list of sets
\* for being online, and a failed read of the configuration for an empty one.
FailedCall ==
    /\ Fault
    /\ \/ /\ merge.at \in {"get", "write"}
          /\ merge' = NoMerge
          /\ dropped' = dropped \cup {m \in {merge.name} : ~(held[m].avail \subseteq manifest[m].avail)}
          /\ UNCHANGED info
       \/ info.at \in {"online", "service"} /\ InfoGoto("image") /\ UNCHANGED <<merge, dropped>>
       \/ InfoAt("image") /\ info' = [info EXCEPT !.at = "images", !.image = "default"]
                          /\ UNCHANGED <<merge, dropped>>
       \/ info.at \in {"update", "images"} /\ info' = NoInfo /\ UNCHANGED <<merge, dropped>>
    /\ UNCHANGED <<manifest, sets, local, pending, held, created, lost, seen, current, history>>

Crash ==
    /\ Fault
    /\ merge' = NoMerge /\ info' = NoInfo /\ current' = {}
    /\ held' = [m \in Names |-> NoManifest] /\ created' = FALSE
    /\ lost' = {} /\ dropped' = {}
    /\ pending' = {m \in Names : Exists(m)}
    /\ seen' = sets
    /\ UNCHANGED <<manifest, sets, local, history>>

Edit == bounds.edits < MaxEdits /\ bounds' = [bounds EXCEPT !.edits = @ + 1]

\* A Manifest is created, gets another release, or is deleted.
EditManifest(m, r) ==
    /\ Edit
    /\ \/ Put(m, IF Exists(m) THEN [manifest[m] EXCEPT !.release = r] ELSE NewManifest(r))
          /\ worn' = worn \cup Wears(m, r)
       \/ Exists(m) /\ Put(m, NoManifest) /\ UNCHANGED worn
    /\ UNCHANGED <<sets, local, registry, seen, merge, info, published>>

EditSet(a, s) ==
    /\ Edit
    /\ s # sets[a]
    /\ sets' = [sets EXCEPT ![a] = s]
    /\ published' = published \cup Publications(s)
    /\ UNCHANGED <<manifest, local, pending, registry, seen, merge, info, current, worn>>

EditLocalService(s) ==
    /\ Edit
    /\ s # local
    /\ local' = s
    /\ UNCHANGED <<manifest, sets, pending, registry, seen, merge, info, current, history>>

Users == \/ \E m \in Names, r \in Labels : EditManifest(m, r)
         \/ \E a \in Sets, r \in Labels, c \in Contents :
              EditSet(a, [release |-> r, content |-> c])
         \/ \E a \in Sets : EditSet(a, NoSet)
         \/ \E s \in {NoService} \cup LocalServices : EditLocalService(s)

Next ==
    \/ \E m \in Names : Handle(m) \/ HandleRaced(m)
    \/ \E a \in Sets : Reconcile(a) \/ LabelSet(a) \/ SetSync(a)
    \/ MergeStep \/ InfoStep \/ FailedCall \/ Crash \/ Users

Spec == Init /\ [][Next]_vars

\* Both workers go on, each set has its turn (the queue is first in, first out, and
\* every pass asks for another one), and the informers deliver.
Fairness ==
    /\ WF_vars(MergeStep) /\ WF_vars(InfoStep)
    /\ \A a \in Sets : SF_vars(Reconcile(a)) /\ SF_vars(LabelSet(a)) /\ WF_vars(SetSync(a))
    /\ \A m \in Names : WF_vars(Handle(m) \/ HandleRaced(m))

FairSpec == Spec /\ Fairness
=============================================================================
