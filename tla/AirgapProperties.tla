-------------------------- MODULE AirgapProperties --------------------------
(***************************************************************************)
(* The properties of Airgap.                                               *)
(***************************************************************************)
EXTENDS Airgap

\* A version is reported as locally available only if some set of a release that
\* the Manifest has had has contained it: cached objects that are written into,
\* late writes and reused names never mix up the releases.
OnlyPublished ==
    \A m \in Names : \A x \in manifest[m].avail :
        \E r \in Releases : /\ <<m, r>> \in worn
                            /\ \E y \in Version : /\ <<r, y>> \in published
                                                  /\ x \in {y} \cup UnifyVersions({y})

\* The manifest controller writes the whole status from its list, and yet never
\* undoes what the other controller has merged in the meantime.
ImagesKeepVersions ==
    [][\A m \in Names : manifest[m].exists /\ manifest'[m].exists
                          /\ manifest'[m].avail # manifest[m].avail => MergeAt("write")]_vars

\* The merge that is about to write the status of m.
InFlight(m) == merge.at \in {"get", "write"} /\ merge.name = m

\* What the registry takes for the versions of a Manifest is stored, or is about to be:
\* the cached objects are merged into before anything is written, and yet only a failed
\* call, or an object that the handler is about to replace, leaves one ahead.
CachedIsStored ==
    \A m \in Names \ (pending \cup dropped) :
        held[m].exists /\ ~InFlight(m) => held[m].avail \subseteq manifest[m].avail

Complete(m) == \A a \in Sets :
                 Exists(m) /\ SetExists(a) /\ sets[a].release = manifest[m].release
                   => UnifyVersions(sets[a].content) \subseteq manifest[m].avail

\* In the end every Manifest has the versions of the sets of its release, in spite of
\* restarts, refused writes and overwritten status, but for the two ways to miss them:
\* being in the lost registry, and a failed call after the object was merged into.
VersionsArrive == <>[](\A m \in Names \ (lost \cup dropped) : Complete(m))

\* Every Manifest gets the image of the configured registry again and again,
\* although the other controller may write an older status over it.
ImagesArrive == \A m \in Names : []<>(Exists(m) => manifest[m].image = Registry)

\* In the end every Manifest has the local services, although a pass updates only
\* the first that differs, and may be refused or fail to read them.
LocalServiceArrives ==
    <>[]((\E a \in Sets : SetExists(a)) /\ local # NoService =>
           \A m \in Names : Exists(m) => manifest[m].service = Stored(local))

-----------------------------------------------------------------------------
(* What the repository says of the program and the program does not do. *)

\* offlineversion/controller.go:43: "MergeManifestsStatus merge the status of manifests
\* which has same sprayRelease label of the localartifactset", also after a failed call.
VersionsAlwaysArrive == <>[](\A m \in Names \ lost : Complete(m))

\* infomanifest/controller.go:159: "UpdateLocalService sync the content of local-service
\* configmap into spec", also one that leaves out the scheme of the image repository.
ServicesAlwaysArrive ==
    <>[]((\E a \in Sets : SetExists(a)) /\ local # NoService =>
           \A m \in Names : Exists(m) => manifest[m].service.repo = local.repo)

-----------------------------------------------------------------------------
(* The inductive invariant behind OnlyPublished and ImagesKeepVersions. *)

\* Versions that m may report, given what Manifests have worn and sets have published.
Due(w, p, m, S) ==
    \A x \in S : \E r \in Releases, y \in Version :
        <<m, r>> \in w /\ <<r, y>> \in p /\ x \in {y} \cup UnifyVersions({y})

\* Wherever a copy of a status is on its way, it has only such versions.
CopiesDue ==
    /\ \A m \in Names : /\ Due(worn, published, m, manifest[m].avail)
                        /\ Due(worn, published, m, held[m].avail)
                        /\ Due(worn, published, m, info.listed[m].avail)
    /\ merge.name # 0 => Due(worn, published, merge.name, merge.avail)

\* What is merged has been published, and is merged into Manifests of that release.
SourcesPublished ==
    /\ \A a \in Sets : /\ Publications(sets[a]) \subseteq published
                       /\ Publications(seen[a]) \subseteq published
    /\ \A m \in Names : /\ Wears(m, manifest[m].release) \subseteq worn
                        /\ Wears(m, held[m].release) \subseteq worn
    /\ merge.at # "idle" => /\ merge.release \in Releases
                            /\ {merge.release} \X merge.content \subseteq published
                            /\ \A m \in merge.todo : <<m, merge.release>> \in worn

\* A listed Manifest that is still current has the versions that are stored.
ListedCurrent ==
    info.at # "idle" => \A m \in Names : <<"info", m>> \in current =>
                                            info.listed[m].avail = manifest[m].avail

AirgapInv == TypeOK /\ CopiesDue /\ SourcesPublished /\ ListedCurrent

\* A cached object is ahead only while the merge that made it so can still write it: a
\* refused write means that the object has been replaced, or is about to be.
CacheInv ==
    \A m \in Names \ pending :
        held[m].exists =>
            /\ Exists(m)
            /\ \/ m \in dropped
               \/ held[m].avail \subseteq manifest[m].avail
               \/ /\ InFlight(m) /\ held[m].avail = merge.avail
                  /\ MergeAt("write") => <<"merge", m>> \in current
=============================================================================
