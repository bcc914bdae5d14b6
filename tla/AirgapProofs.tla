---------------------------- MODULE AirgapProofs ----------------------------
(***************************************************************************)
(* Releases are never mixed up, and the two controllers do not undo each   *)
(* other's writes, for any number of Manifests, sets, users' changes,      *)
(* failed calls and restarts.                                              *)
(***************************************************************************)
EXTENDS AirgapProperties, TLAPS, WellFoundedInduction

-----------------------------------------------------------------------------
(* The records. *)

Services == {NoService} \cup {Stored(s) : s \in LocalServices}

LEMMA ManifestFields ==
  \A o \in Manifest : /\ o.exists \in BOOLEAN /\ o.release \in Labels /\ o.image \in Images
                      /\ o.avail \in SUBSET Version
  BY DEF Manifest

LEMMA NewManifestType ==
  \A r \in Labels : /\ NewManifest(r) \in Manifest /\ NewManifest(r).avail = {}
                    /\ NewManifest(r).release = r
  BY DEF Manifest, NewManifest, Images

LEMMA NoManifestType ==
  /\ NoManifest \in Manifest /\ NoManifest.avail = {} /\ NoManifest.release = "none"
  /\ NoManifest.exists = FALSE
  BY DEF NoManifest, Manifest, Labels, Images

LEMMA WithStatusType ==
  ASSUME NEW o \in Manifest, NEW i \in Images, NEW v \in SUBSET Version
  PROVE  LET n == WithStatus(o, i, v)
         IN n \in Manifest /\ n.avail = v /\ n.release = o.release /\ n.exists = o.exists
  BY DEF WithStatus, Manifest

LEMMA WithAvail ==
  ASSUME NEW o \in Manifest, NEW v \in SUBSET Version
  PROVE  LET n == [o EXCEPT !.avail = v]
         IN n \in Manifest /\ n.avail = v /\ n.release = o.release
  BY DEF Manifest

LEMMA WithImage ==
  ASSUME NEW o \in Manifest, NEW i \in Images
  PROVE  LET n == [o EXCEPT !.image = i] IN n \in Manifest /\ n.avail = o.avail
  BY DEF Manifest

LEMMA WithService ==
  ASSUME NEW o \in Manifest, NEW s \in LocalServices
  PROVE  LET n == [o EXCEPT !.service = Stored(s)]
         IN n \in Manifest /\ n.avail = o.avail /\ n.release = o.release /\ n.exists = o.exists
  BY DEF Manifest

LEMMA WithRelease ==
  ASSUME NEW o \in Manifest, NEW r \in Labels
  PROVE  LET n == [o EXCEPT !.release = r]
         IN n \in Manifest /\ n.avail = o.avail /\ n.release = r /\ n.exists = o.exists
  BY DEF Manifest

LEMMA NoneTypes == NoMerge \in Merges /\ NoInfo \in Infos /\ NoMerge.name = 0
                   /\ NoMerge.at = "idle" /\ NoInfo.at = "idle"
                   /\ \A m \in Names : NoInfo.listed[m] = NoManifest
  BY NoManifestType DEF NoMerge, NoInfo, Merges, Infos, Labels, Images, Contents

LEMMA MergeFields ==
  \A g \in Merges : /\ g.at \in {"idle", "walk", "get", "write"} /\ g.release \in Labels
                    /\ g.content \in Contents \cup {{}} /\ g.todo \in SUBSET Names
                    /\ g.name \in Names \cup {0} /\ g.image \in Images
                    /\ g.avail \in SUBSET Version /\ g.content \in SUBSET Version
  BY DEF Merges, Contents

\* A pass that takes up the next Manifest.
Gets(g, n, i, v) == [g EXCEPT !.at = "get", !.name = n, !.image = i, !.avail = v]

LEMMA MergeGets ==
  ASSUME NEW g \in Merges, NEW n \in Names, NEW i \in Images, NEW v \in SUBSET Version
  PROVE  LET h == Gets(g, n, i, v)
         IN /\ h \in Merges /\ h.at = "get" /\ h.name = n /\ h.avail = v
            /\ h.release = g.release /\ h.content = g.content /\ h.todo = g.todo
<1> DEFINE e == [g EXCEPT !.at = "get", !.name = n]
           h == Gets(g, n, i, v)
<1>1. /\ e \in Merges /\ e.at = "get" /\ e.name = n
      /\ e.release = g.release /\ e.content = g.content /\ e.todo = g.todo
  BY DEF Merges
<1>2. \A f \in Merges : LET k == [f EXCEPT !.image = i, !.avail = v]
                        IN /\ k \in Merges /\ k.at = f.at /\ k.name = f.name /\ k.avail = v
                           /\ k.release = f.release /\ k.content = f.content /\ k.todo = f.todo
  BY DEF Merges
<1>3. h = [e EXCEPT !.image = i, !.avail = v]
  BY DEF Gets
<1> QED BY <1>1, <1>2, <1>3

LEMMA WalkType ==
  ASSUME NEW r \in Labels, NEW c \in Contents \cup {{}}, NEW t \in SUBSET Names
  PROVE  /\ Walk(r, c, t) \in Merges /\ Walk(r, c, t).at = "walk" /\ Walk(r, c, t).name = 0
         /\ Walk(r, c, t).release = r /\ Walk(r, c, t).content = c /\ Walk(r, c, t).todo = t
  BY DEF Walk, Merges, Images

LEMMA NextManifestType ==
  ASSUME merge \in Merges
  PROVE  /\ NextManifest \in Merges /\ NextManifest.at = "walk" /\ NextManifest.name = 0
         /\ NextManifest.release = merge.release /\ NextManifest.content = merge.content
         /\ NextManifest.todo = merge.todo \ {merge.name}
<1>1. /\ merge.release \in Labels /\ merge.content \in Contents \cup {{}}
      /\ merge.todo \ {merge.name} \in SUBSET Names
  BY MergeFields
<1> QED BY <1>1 DEF NextManifest, Walk, Merges, Images

LEMMA InfoFields ==
  \A i \in Infos : /\ i.at \in {"idle", "online", "service", "update", "image", "images"}
                   /\ i.listed \in [Names -> Manifest] /\ i.name \in Names \cup {0}
                   /\ i.service \in {NoService} \cup LocalServices /\ i.image \in Images
  BY DEF Infos

\* A pass that found a Manifest with other services.
Updates(i, m, s) == [i EXCEPT !.at = "update", !.name = m, !.service = s]

LEMMA InfoUpdates ==
  ASSUME NEW i \in Infos, NEW m \in Names, NEW s \in LocalServices
  PROVE  LET j == Updates(i, m, s)
         IN /\ j \in Infos /\ j.at = "update" /\ j.service = s
            /\ j.listed = i.listed
<1> DEFINE e == [i EXCEPT !.at = "update", !.name = m]
           j == Updates(i, m, s)
<1>1. e \in Infos /\ e.at = "update" /\ e.listed = i.listed
  BY DEF Infos
<1>2. \A f \in Infos : LET k == [f EXCEPT !.service = s]
                       IN /\ k \in Infos /\ k.at = f.at /\ k.service = s
                          /\ k.listed = f.listed
  BY DEF Infos
<1>3. j = [e EXCEPT !.service = s]
  BY DEF Updates
<1> HIDE DEF e
<1> QED BY <1>1, <1>2, <1>3

\* A pass whose copy of a Manifest gets the image it has written.
LEMMA InfoRelists ==
  ASSUME NEW i \in Infos, NEW m \in Names, NEW x \in Images
  PROVE  LET j == [i EXCEPT !.listed[m].image = x]
         IN /\ j \in Infos /\ j.at = i.at /\ j.service = i.service
            /\ \A n \in Names : j.listed[n].avail = i.listed[n].avail
<1> DEFINE l == [i.listed EXCEPT ![m].image = x]
           j == [i EXCEPT !.listed[m].image = x]
<1>1. i.listed \in [Names -> Manifest]
  BY InfoFields
<1>2. [i.listed[m] EXCEPT !.image = x] \in Manifest
      /\ [i.listed[m] EXCEPT !.image = x].avail = i.listed[m].avail
  BY <1>1, WithImage
<1>3. l \in [Names -> Manifest] /\ \A n \in Names : l[n].avail = i.listed[n].avail
  BY <1>1, <1>2
<1>4. j = [i EXCEPT !.listed = l]
  OBVIOUS
<1> HIDE DEF l
<1>5. j \in Infos /\ j.at = i.at /\ j.service = i.service /\ j.listed = l
  BY <1>3, <1>4 DEF Infos
<1> QED BY <1>3, <1>5

\* The first of the Manifests is one of them.
LEMMA FirstIn ==
  ASSUME NEW S, S \subseteq Names, S # {}
  PROVE  First(S) \in Names
<1> DEFINE Less == {p \in Nat \X Nat : p[1] < p[2]}
<1>1. IsWellFoundedOn(Less, Nat)
  BY NatLessThanWellFounded DEF OpToRel
<1>2. PICK m \in S : \A n \in S : <<n, m>> \notin Less
  BY <1>1, NamesAssumption, WFMin
<1>3. \A n \in S : m <= n
  <2> SUFFICES ASSUME NEW n \in S PROVE m <= n
    OBVIOUS
  <2>1. m \in Nat /\ n \in Nat /\ <<n, m>> \notin Less
    BY <1>2, NamesAssumption
  <2> QED BY <2>1
<1> QED BY <1>3 DEF First

LEMMA SetFields ==
  /\ NoSet \in ArtifactSet /\ NoSet.release = "none"
  /\ \A s \in ArtifactSet : s.release \in Labels /\ s.content \in SUBSET Version
                            /\ s.content \in Contents \cup {{}}
  /\ \A r \in Labels, c \in Contents : [release |-> r, content |-> c] \in ArtifactSet
  BY DEF NoSet, ArtifactSet, Labels, Contents

\* Neither merging nor the removal of prefixes leaves the versions.
LEMMA UnifyType == \A S \in SUBSET Version : UnifyVersions(S) \in SUBSET Version
<1> SUFFICES ASSUME NEW S \in SUBSET Version, NEW x \in S
             PROVE  (IF x.kind = "component" THEN [x EXCEPT !.v = FALSE] ELSE x) \in Version
  BY DEF UnifyVersions
<1> QED BY DEF Version

LEMMA MergedType ==
  \A S, T \in SUBSET Version : Merged(S, T) \in SUBSET Version
  BY UnifyType DEF Merged
-----------------------------------------------------------------------------
(* The types. *)

\* What TypeOK says of the two passes.
MergeOK(g) == g \in Merges /\ (g.at \in {"get", "write"} => g.name \in Names)
InfoOK(i) == i \in Infos /\ (i.at = "update" => i.service # NoService)

LEMMA NoneOK == MergeOK(NoMerge) /\ InfoOK(NoInfo)
  BY NoneTypes DEF MergeOK, InfoOK

LEMMA WalkOK ==
  ASSUME NEW r \in Labels, NEW c \in Contents \cup {{}}, NEW t \in SUBSET Names
  PROVE  MergeOK(Walk(r, c, t))
  BY WalkType DEF MergeOK

LEMMA GetsOK ==
  ASSUME merge \in Merges, NEW m \in Names, NEW v \in SUBSET Version, held[m].image \in Images
  PROVE  MergeOK(Gets(merge, m, held[m].image, v))
  BY MergeGets DEF MergeOK

LEMMA UpdatesOK ==
  ASSUME info \in Infos, NEW m \in Names, NEW s \in LocalServices, s # NoService
  PROVE  InfoOK(Updates(info, m, s))
  BY InfoUpdates DEF InfoOK

LEMMA PutType ==
  ASSUME TypeOK, NEW m \in Names, NEW o \in Manifest, Put(m, o)
  PROVE  /\ manifest' \in [Names -> Manifest] /\ pending' \subseteq Names
         /\ current' \subseteq {"merge", "info"} \X Names
<1>1. manifest \in [Names -> Manifest] /\ pending \subseteq Names
  BY DEF TypeOK
<1>2. manifest' \in [Names -> Manifest]
  BY <1>1, SMT DEF Put
<1>3. pending' \subseteq Names
  BY <1>1, SMT DEF Put
<1>4. current' \subseteq current
  BY DEF Put
<1> QED BY <1>2, <1>3, <1>4 DEF TypeOK

LEMMA InitType == Init => TypeOK
<1> SUFFICES ASSUME Init PROVE TypeOK
  OBVIOUS
<1>1. manifest \in [Names -> Manifest]
  BY NoManifestType, NewManifestType, InitialAssumption DEF Init
<1>2. sets \in [Sets -> ArtifactSet] /\ local \in {NoService} \cup LocalServices
  BY SetFields, InitialAssumption DEF Init, ArtifactSet
<1>3. published \subseteq Releases \X Version
  BY <1>2, SetFields, SMT DEF Init, Publications, Labels
<1>4. worn \subseteq Names \X Releases
  BY <1>1, ManifestFields, SMT DEF Init, Wears, Labels
<1>5. held \in [Names -> Manifest]
  BY NoManifestType DEF Init
<1>6. pending \subseteq Names /\ bounds \in [edits: Nat, faults: Nat]
  BY DEF Init
<1> QED BY <1>1, <1>2, <1>3, <1>4, <1>5, <1>6, NoneTypes, NoneOK DEF Init, TypeOK, MergeOK, InfoOK

LEMMA HandleType ==
  ASSUME TypeOK, NEW m \in Names, Handle(m) \/ HandleRaced(m)
  PROVE  TypeOK'
<1> USE DEF TypeOK, MergeOK, InfoOK
<1>1. CASE Handle(m)
  <2>1. \A todo \in Shifted(m) : todo \subseteq Names
    BY MergeFields, SMT DEF Shifted
  <2>2. MergeOK(merge')
    BY <1>1, <2>1, SMT DEF Handle, Merges
  <2> QED BY <1>1, <2>2, SMT DEF Handle, history
<1>2. CASE HandleRaced(m)
  BY <1>2, SMT DEF HandleRaced, history
<1> QED BY <1>1, <1>2

LEMMA SetStepType ==
  ASSUME TypeOK, NEW a \in Sets, Reconcile(a) \/ LabelSet(a) \/ SetSync(a)
  PROVE  TypeOK'
<1> USE DEF TypeOK, MergeOK, InfoOK
<1>1. CASE Reconcile(a)
  <2>1. Entries(seen[a].release) \subseteq Names
    BY DEF Entries
  <2>2. seen[a].release \in Labels /\ seen[a].content \in Contents \cup {{}}
    BY SetFields
  <2>3. MergeOK(Walk(seen[a].release, seen[a].content, Entries(seen[a].release)))
    BY <2>1, <2>2, WalkOK
  <2>4. MergeOK(merge')
    BY <1>1, <2>3, NoneOK DEF Reconcile
  <2> QED BY <1>1, <2>4, SMT DEF Reconcile, history
<1>2. CASE LabelSet(a)
  <2>1. [sets[a] EXCEPT !.release = "master"] \in ArtifactSet
    BY ReleasesAssumption, SMT DEF ArtifactSet, Labels
  <2>2. sets' \in [Sets -> ArtifactSet]
    BY <1>2, <2>1, SMT DEF LabelSet
  <2>3. published' \subseteq Releases \X Version
    BY <1>2, <2>2, SetFields, ReleasesAssumption, SMT DEF LabelSet, Publications, Labels
  <2> QED BY <1>2, <2>2, <2>3, SMT DEF LabelSet, registry
<1>3. CASE SetSync(a)
  BY <1>3, SMT DEF SetSync, registry, history
<1> QED BY <1>1, <1>2, <1>3

LEMMA MergeStepType ==
  ASSUME TypeOK, MergeStep
  PROVE  TypeOK'
<1> USE DEF TypeOK, MergeOK, InfoOK, MergeAt
<1>1. CASE MergeNext
  <2> USE DEF history
  <2>1. UNCHANGED <<manifest, sets, local, pending, created, lost, dropped, seen, info,
                    current, history, bounds>>
    BY <1>1 DEF MergeNext
  <2>2. CASE merge.todo = {} /\ merge' = NoMerge /\ UNCHANGED held
    BY <2>1, <2>2, NoneTypes, NoneOK, SMT
  <2>3. ASSUME NEW m \in merge.todo, merge.content \subseteq held[m].avail, UNCHANGED held,
               merge' = Walk(merge.release, merge.content, merge.todo \ {m})
        PROVE  TypeOK'
    <3>1. MergeOK(merge')
      <4>1. /\ merge.release \in Labels /\ merge.content \in Contents \cup {{}}
            /\ merge.todo \ {m} \in SUBSET Names
        BY MergeFields
      <4>2. MergeOK(Walk(merge.release, merge.content, merge.todo \ {m}))
        BY <4>1, WalkOK
      <4> QED BY <2>3, <4>2
    <3> QED BY <2>1, <2>3, <3>1, SMT
  <2>4. ASSUME NEW m \in merge.todo, NEW avail, avail = Merged(held[m].avail, merge.content),
               merge' = [merge EXCEPT !.at = "get", !.name = m,
                            !.image = held[m].image, !.avail = avail],
               held' = [held EXCEPT ![m].avail = avail]
        PROVE  TypeOK'
    <3>1. m \in Names
      BY <2>4, MergeFields
    <3>2. avail \in SUBSET Version /\ held[m].image \in Images
      BY <2>4, <3>1, MergedType, MergeFields, ManifestFields
    <3>3. MergeOK(merge')
      <4>1. merge' = Gets(merge, m, held[m].image, avail)
        BY <2>4 DEF Gets
      <4> QED BY <3>1, <3>2, <4>1, GetsOK
    <3>4. [held[m] EXCEPT !.avail = avail] \in Manifest
      BY <3>1, <3>2, WithAvail
    <3>5. held' \in [Names -> Manifest]
      BY <2>4, <3>1, <3>4
    <3> QED BY <2>1, <3>3, <3>5, SMT
  <2> QED BY <1>1, <2>2, <2>3, <2>4 DEF MergeNext
<1>2. CASE GetManifest
  <2>1. MergeOK(merge')
    <3>1. LET g == [merge EXCEPT !.at = "write"] IN g \in Merges /\ g.name = merge.name
      BY DEF Merges
    <3> QED BY <1>2, <3>1, NextManifestType DEF GetManifest
  <2>2. current' \subseteq {"merge", "info"} \X Names
    <3>1. CASE Exists(merge.name)
      <4>1. merge.name \in Names
        BY <1>2 DEF GetManifest
      <4> QED BY <1>2, <3>1, <4>1 DEF GetManifest
    <3>2. CASE ~Exists(merge.name)
      BY <1>2, <3>2 DEF GetManifest
    <3> QED BY <3>1, <3>2
  <2> QED BY <1>2, <2>1, <2>2, SMT DEF GetManifest, registry, history
<1>3. CASE UpdateMerged
  <2>1. MergeOK(merge')
    BY <1>3, NoneTypes, NoneOK, NextManifestType DEF UpdateMerged
  <2>2. CASE <<"merge", merge.name>> \in current
    <3>1. merge.name \in Names /\ merge.image \in Images /\ merge.avail \in SUBSET Version
      BY <2>2, MergeFields
    <3>2. WithStatus(manifest[merge.name], merge.image, merge.avail) \in Manifest
      BY <3>1, WithStatusType
    <3> QED BY <1>3, <2>1, <2>2, <3>1, <3>2, PutType, SMT DEF UpdateMerged, registry, history
  <2>3. CASE <<"merge", merge.name>> \notin current
    BY <1>3, <2>1, <2>3, SMT DEF UpdateMerged, registry, history
  <2> QED BY <2>2, <2>3
<1> QED BY <1>1, <1>2, <1>3 DEF MergeStep

LEMMA InfoStepType ==
  ASSUME TypeOK, InfoStep
  PROVE  TypeOK'
<1> USE DEF TypeOK, MergeOK, InfoOK, InfoAt, InfoGoto, registry, history
<1>1. CASE ListManifests
  <2>1. [NoInfo EXCEPT !.at = "online", !.listed = manifest] \in Infos
    BY NoneTypes, NoneOK DEF Infos
  <2>2. [NoInfo EXCEPT !.at = "online", !.listed = manifest].at # "update"
    BY NoneTypes, NoneOK DEF Infos
  <2>3. current' \subseteq {"merge", "info"} \X Names
    BY <1>1 DEF ListManifests
  <2> QED BY <1>1, <2>1, <2>2, <2>3 DEF ListManifests
<1>2. CASE IsOnlineENV
  <2>1. \A s \in {"service", "image"} : /\ [info EXCEPT !.at = s] \in Infos
                                        /\ [info EXCEPT !.at = s].at # "update"
    BY DEF Infos
  <2> QED BY <1>2, <2>1, SMT DEF IsOnlineENV
<1>3. CASE FetchLocalServiceCM
  <2>1. [info EXCEPT !.at = "image"] \in Infos /\ [info EXCEPT !.at = "image"].at # "update"
    BY DEF Infos
  <2>2. CASE local = NoService \/ Differing(local) = {}
    <3>1. info' = [info EXCEPT !.at = "image"]
      BY <1>3, <2>2 DEF FetchLocalServiceCM
    <3> QED BY <1>3, <2>1, <3>1, SMT DEF FetchLocalServiceCM
  <2>3. CASE ~(local = NoService \/ Differing(local) = {})
    <3>1. First(Differing(local)) \in Names
      BY <2>3, FirstIn DEF Differing
    <3> DEFINE i == Updates(info, First(Differing(local)), local)
    <3>2. local \in LocalServices /\ local # NoService
      BY <2>3
    <3>3. InfoOK(i)
      BY <3>1, <3>2, UpdatesOK
    <3>4. info' = i
      BY <1>3, <2>3 DEF FetchLocalServiceCM, Updates
    <3> HIDE DEF i
    <3> QED BY <1>3, <3>2, <3>3, <3>4, SMT DEF FetchLocalServiceCM
  <2> QED BY <2>2, <2>3
<1>4. CASE UpdateLocalService
  <2>1. CASE <<"info", info.name>> \in current
    <3>1. info.name \in Names /\ info.service \in LocalServices
      BY <1>4, <2>1, InfoFields DEF UpdateLocalService
    <3>2. [manifest[info.name] EXCEPT !.service = Stored(info.service)] \in Manifest
      BY <3>1, WithService
    <3> QED BY <1>4, <2>1, <3>1, <3>2, PutType, NoneTypes, NoneOK, SMT DEF UpdateLocalService
  <2>2. CASE <<"info", info.name>> \notin current
    BY <1>4, <2>2, NoneTypes, NoneOK, SMT DEF UpdateLocalService
  <2> QED BY <2>1, <2>2
<1>5. CASE FetchKubeanConfigProperty
  <2>1. [info EXCEPT !.at = "images", !.image = Registry] \in Infos
    BY DEF Infos, Images
  <2>2. [info EXCEPT !.at = "images", !.image = Registry].at # "update"
    BY DEF Infos
  <2> QED BY <1>5, <2>1, <2>2 DEF FetchKubeanConfigProperty
<1>6. CASE UpdateLocalAvailableImage
  <2>0. UNCHANGED <<sets, local, registry, seen, merge, history, bounds>>
    BY <1>6 DEF UpdateLocalAvailableImage
  <2>1. CASE UNCHANGED <<manifest, pending, current>> /\ info' = NoInfo
    BY <2>1, <2>0, NoneOK, SMT
  <2>2. ASSUME NEW m \in WrongImages,
               Put(m, WithStatus(manifest[m], info.image, info.listed[m].avail)),
               info' = [info EXCEPT !.listed[m].image = info.image]
        PROVE  TypeOK'
    <3>1. m \in Names /\ info.image \in Images /\ info.listed[m] \in Manifest
      BY <2>2, InfoFields DEF WrongImages
    <3>2. WithStatus(manifest[m], info.image, info.listed[m].avail) \in Manifest
      BY <3>1, ManifestFields, WithStatusType
    <3>3. info' \in Infos /\ info'.at = info.at /\ info'.service = info.service
      BY <2>2, <3>1, InfoRelists
    <3>4. InfoOK(info')
      BY <3>3
    <3>5. /\ manifest' \in [Names -> Manifest] /\ pending' \subseteq Names
          /\ current' \subseteq {"merge", "info"} \X Names
      BY <2>2, <3>1, <3>2, PutType
    <3> QED BY <2>0, <3>4, <3>5, SMT
  <2> QED BY <1>6, <2>1, <2>2 DEF UpdateLocalAvailableImage
<1> QED BY <1>1, <1>2, <1>3, <1>4, <1>5, <1>6 DEF InfoStep

LEMMA FaultType ==
  ASSUME TypeOK, FailedCall \/ Crash
  PROVE  TypeOK'
<1> USE DEF TypeOK, MergeOK, InfoOK, InfoAt, InfoGoto, history
<1>1. ASSUME Fault PROVE bounds' \in [edits: Nat, faults: Nat]
  BY <1>1, SMT DEF Fault
<1>2. CASE FailedCall
  <2>1. bounds' \in [edits: Nat, faults: Nat]
    BY <1>1, <1>2 DEF FailedCall
  <2>2. MergeOK(merge')
    BY <1>2, NoneOK DEF FailedCall
  <2>3. InfoOK(info')
    <3>1. LET i == [info EXCEPT !.at = "image"] IN i \in Infos /\ i.at = "image"
      BY DEF Infos
    <3>2. LET i == [info EXCEPT !.at = "images", !.image = "default"]
          IN i \in Infos /\ i.at = "images"
      BY DEF Infos, Images
    <3> QED BY <1>2, <3>1, <3>2, NoneOK DEF FailedCall
  <2>4. dropped' \subseteq Names
    BY <1>2 DEF FailedCall
  <2>5. UNCHANGED <<manifest, sets, local, pending, held, created, lost, seen, current, history>>
    BY <1>2 DEF FailedCall
  <2> QED BY <2>1, <2>2, <2>3, <2>4, <2>5, SMT
<1>3. CASE Crash
  <2>1. bounds' \in [edits: Nat, faults: Nat]
    BY <1>1, <1>3 DEF Crash
  <2>2. held' \in [Names -> Manifest]
    BY <1>3, NoManifestType DEF Crash
  <2> QED BY <1>3, <2>1, <2>2, NoneOK DEF Crash
<1> QED BY <1>2, <1>3

\* What a user makes of a Manifest is one.
LEMMA EditManifestType ==
  ASSUME TypeOK, NEW m \in Names, NEW r \in Labels, EditManifest(m, r)
  PROVE  TypeOK'
<1> USE DEF TypeOK
<1> DEFINE o == IF Exists(m) THEN [manifest[m] EXCEPT !.release = r] ELSE NewManifest(r)
<1>1. o \in Manifest
  <2>1. [manifest[m] EXCEPT !.release = r] \in Manifest
    BY WithRelease
  <2> QED BY <2>1, NewManifestType
<1>2. Put(m, o) \/ Put(m, NoManifest)
  BY DEF EditManifest
<1>3. /\ manifest' \in [Names -> Manifest] /\ pending' \subseteq Names
      /\ current' \subseteq {"merge", "info"} \X Names
  <2> HIDE DEF o
  <2> QED BY <1>1, <1>2, NoManifestType, PutType
<1>4. worn' \subseteq Names \X Releases
  BY DEF EditManifest, Wears, Labels
<1>5. bounds' \in [edits: Nat, faults: Nat]
  BY SMT DEF EditManifest, Edit
<1>6. UNCHANGED <<sets, local, registry, seen, merge, info, published>>
  BY DEF EditManifest
<1> QED BY <1>3, <1>4, <1>5, <1>6, SMT DEF registry

LEMMA UsersType ==
  ASSUME TypeOK, Users
  PROVE  TypeOK'
<1> USE DEF TypeOK
<1>1. ASSUME Edit PROVE bounds' \in [edits: Nat, faults: Nat]
  BY <1>1, SMT DEF Edit
<1>2. ASSUME NEW a \in Sets, NEW s \in ArtifactSet, EditSet(a, s)
      PROVE  TypeOK'
  <2>1. sets' \in [Sets -> ArtifactSet]
    BY <1>2 DEF EditSet
  <2>2. published' \subseteq Releases \X Version
    BY <1>2, SetFields, SMT DEF EditSet, Publications, Labels
  <2>3. bounds' \in [edits: Nat, faults: Nat]
    BY <1>1, <1>2 DEF EditSet
  <2> QED BY <1>2, <2>1, <2>2, <2>3, SMT DEF EditSet, registry
<1>3. ASSUME NEW s \in {NoService} \cup LocalServices, EditLocalService(s)
      PROVE  TypeOK'
  <2>1. bounds' \in [edits: Nat, faults: Nat]
    BY <1>1, <1>3 DEF EditLocalService
  <2> QED BY <1>3, <2>1, SMT DEF EditLocalService, registry, history
<1> QED BY <1>2, <1>3, SetFields, EditManifestType DEF Users

LEMMA StepType == TypeOK /\ [Next]_vars => TypeOK'
<1> SUFFICES ASSUME TypeOK, [Next]_vars PROVE TypeOK'
  OBVIOUS
<1>1. CASE UNCHANGED vars
  BY <1>1, SMT DEF vars, TypeOK
<1> QED BY <1>1, HandleType, SetStepType, MergeStepType, InfoStepType, FaultType, UsersType
        DEF Next

\* Every variable keeps to its type, whatever the controllers, users and failures do.
THEOREM TypeCorrect == Spec => []TypeOK
  BY InitType, StepType, PTL DEF Spec

-----------------------------------------------------------------------------
(* Where the versions in a copy of a status come from. *)

FromManifest(m) ==
  manifest'[m].avail \in {manifest[m].avail, {}, info.listed[m].avail}
                           \cup (IF merge.name = m THEN {merge.avail} ELSE {})
FromHeld(m) ==
  \/ held'[m].avail \in {held[m].avail, manifest[m].avail, {}}
  \/ /\ merge.at = "walk" /\ m \in merge.todo
     /\ held'[m].avail = Merged(held[m].avail, merge.content)
FromListed(m) == info'.listed[m].avail \in {info.listed[m].avail, manifest[m].avail, {}}
FromMerge ==
  merge'.name # 0 =>
    \/ merge'.name = merge.name /\ merge'.avail = merge.avail
    \/ /\ merge.at = "walk" /\ merge'.name \in merge.todo
       /\ merge'.avail = Merged(held[merge'.name].avail, merge.content)
Flow == (\A m \in Names : FromManifest(m) /\ FromHeld(m) /\ FromListed(m)) /\ FromMerge

LEMMA PutFlow ==
  ASSUME TypeOK, NEW m \in Names, NEW o \in Manifest, Put(m, o)
  PROVE  manifest'[m] = o /\ \A n \in Names \ {m} : manifest'[n] = manifest[n]
<1>1. manifest \in [Names -> Manifest]
  BY DEF TypeOK
<1> QED BY <1>1 DEF Put

LEMMA HandleFlow ==
  ASSUME TypeOK, NEW m \in Names, Handle(m) \/ HandleRaced(m)
  PROVE  Flow
<1> USE DEF FromManifest, FromHeld, FromListed, FromMerge, Flow, TypeOK
<1>1. held' = [held EXCEPT ![m] = manifest[m]] /\ UNCHANGED <<manifest, info>>
  BY DEF Handle, HandleRaced
<1>2. merge'.name = merge.name /\ merge'.avail = merge.avail
  <2>1. \A t : LET g == [merge EXCEPT !.todo = t]
               IN g.name = merge.name /\ g.avail = merge.avail
    BY DEF Merges
  <2> QED BY <2>1 DEF Handle, HandleRaced
<1> QED BY <1>1, <1>2

LEMMA SetStepFlow ==
  ASSUME TypeOK, NEW a \in Sets, Reconcile(a) \/ LabelSet(a) \/ SetSync(a)
  PROVE  Flow
<1> USE DEF FromManifest, FromHeld, FromListed, FromMerge, Flow
<1>1. UNCHANGED <<manifest, held, info>>
  BY DEF Reconcile, LabelSet, SetSync, registry
<1>2. merge' = merge \/ merge'.name = 0
  BY NoneTypes DEF Reconcile, LabelSet, SetSync, Walk
<1> QED BY <1>1, <1>2

LEMMA MergeStepFlow ==
  ASSUME TypeOK, MergeStep
  PROVE  Flow
<1> USE DEF FromManifest, FromHeld, FromListed, FromMerge, Flow, TypeOK, MergeAt
<1>1. CASE MergeNext
  <2>1. UNCHANGED <<manifest, info>>
    BY <1>1 DEF MergeNext
  <2>2. CASE merge.todo = {} /\ merge' = NoMerge /\ UNCHANGED held
    BY <2>1, <2>2, NoneTypes
  <2>3. ASSUME NEW m \in merge.todo, UNCHANGED held,
               merge' = Walk(merge.release, merge.content, merge.todo \ {m})
        PROVE  Flow
    BY <2>1, <2>3 DEF Walk
  <2>4. ASSUME NEW m \in merge.todo, NEW avail, avail = Merged(held[m].avail, merge.content),
               merge' = [merge EXCEPT !.at = "get", !.name = m,
                            !.image = held[m].image, !.avail = avail],
               held' = [held EXCEPT ![m].avail = avail]
        PROVE  Flow
    <3>1. m \in Names /\ merge.at = "walk"
      BY <1>1, <2>4, MergeFields DEF MergeNext
    <3>2. avail \in SUBSET Version /\ held[m].image \in Images
      BY <2>4, <3>1, MergedType, MergeFields, ManifestFields
    <3>3. merge'.name = m /\ merge'.avail = avail
      <4>1. merge' = Gets(merge, m, held[m].image, avail)
        BY <2>4 DEF Gets
      <4> QED BY <3>1, <3>2, <4>1, MergeGets
    <3>4. held'[m].avail = avail /\ \A n \in Names \ {m} : held'[n] = held[n]
      BY <2>4, <3>1, <3>2, WithAvail
    <3> QED BY <2>1, <2>4, <3>1, <3>3, <3>4
  <2> QED BY <1>1, <2>2, <2>3, <2>4 DEF MergeNext
<1>2. CASE GetManifest
  <2>1. /\ [merge EXCEPT !.at = "write"].name = merge.name
        /\ [merge EXCEPT !.at = "write"].avail = merge.avail
    BY DEF Merges
  <2>2. \/ merge'.name = 0
        \/ merge'.name = merge.name /\ merge'.avail = merge.avail
    <3>1. merge' = NextManifest \/ merge' = [merge EXCEPT !.at = "write"]
      BY <1>2 DEF GetManifest
    <3>2. CASE merge' = NextManifest
      <4>1. NextManifest.name = 0
        BY NextManifestType
      <4> QED BY <3>2, <4>1
    <3>3. CASE merge' = [merge EXCEPT !.at = "write"]
      BY <2>1, <3>3
    <3> QED BY <3>1, <3>2, <3>3
  <2> QED BY <1>2, <2>2 DEF GetManifest, registry
<1>3. CASE UpdateMerged
  <2>1. merge'.name = 0
    BY <1>3, NoneTypes, NextManifestType DEF UpdateMerged
  <2>2. UNCHANGED <<held, info>>
    BY <1>3 DEF UpdateMerged, registry
  <2>3. CASE <<"merge", merge.name>> \in current
    <3> DEFINE o == WithStatus(manifest[merge.name], merge.image, merge.avail)
    <3>1. merge.name \in Names /\ o \in Manifest /\ o.avail = merge.avail
      BY <2>3, MergeFields, WithStatusType
    <3>2. Put(merge.name, o)
      BY <1>3, <2>3 DEF UpdateMerged
    <3> HIDE DEF o
    <3>3. manifest'[merge.name] = o /\ \A n \in Names \ {merge.name} : manifest'[n] = manifest[n]
      BY <3>1, <3>2, PutFlow
    <3> QED BY <2>1, <2>2, <3>1, <3>3
  <2>4. CASE <<"merge", merge.name>> \notin current
    BY <1>3, <2>1, <2>2, <2>4 DEF UpdateMerged
  <2> QED BY <2>3, <2>4
<1> QED BY <1>1, <1>2, <1>3 DEF MergeStep

\* The manifest controller only passes on what it has listed.
LEMMA InfoStepFlow ==
  ASSUME TypeOK, InfoStep
  PROVE  Flow
<1> USE DEF FromManifest, FromHeld, FromListed, FromMerge, Flow, TypeOK
<1>1. UNCHANGED <<held, merge>>
  BY DEF InfoStep, ListManifests, IsOnlineENV, FetchLocalServiceCM, UpdateLocalService,
         FetchKubeanConfigProperty, UpdateLocalAvailableImage, registry
<1>2. CASE ListManifests
  <2>1. [NoInfo EXCEPT !.at = "online", !.listed = manifest].listed = manifest
    BY NoneTypes DEF Infos
  <2> QED BY <1>1, <1>2, <2>1 DEF ListManifests
<1>3. CASE IsOnlineENV \/ FetchLocalServiceCM \/ FetchKubeanConfigProperty
  <2>1. info'.listed = info.listed
    <3>1. \A s : [info EXCEPT !.at = s].listed = info.listed
      BY DEF Infos
    <3>2. CASE IsOnlineENV
      BY <3>1, <3>2 DEF IsOnlineENV, InfoGoto
    <3>3. CASE FetchLocalServiceCM
      <4>1. info' = [info EXCEPT !.at = "image"]
              \/ info' = Updates(info, First(Differing(local)), local)
        BY <3>3 DEF FetchLocalServiceCM, InfoGoto, Updates
      <4> QED BY <3>1, <4>1 DEF Updates, Infos
    <3>4. CASE FetchKubeanConfigProperty
      <4>1. [info EXCEPT !.at = "images", !.image = Registry].listed = info.listed
        BY DEF Infos
      <4> QED BY <3>4, <4>1 DEF FetchKubeanConfigProperty
    <3> QED BY <1>3, <3>2, <3>3, <3>4
  <2>2. UNCHANGED manifest
    BY <1>3 DEF IsOnlineENV, FetchLocalServiceCM, FetchKubeanConfigProperty
  <2> QED BY <1>1, <2>1, <2>2
<1>4. CASE UpdateLocalService
  <2>1. info' = NoInfo
    BY <1>4 DEF UpdateLocalService
  <2>2. CASE UNCHANGED manifest
    BY <1>1, <2>1, <2>2, NoneTypes, NoManifestType
  <2>3. CASE <<"info", info.name>> \in current
    <3> DEFINE o == [manifest[info.name] EXCEPT !.service = Stored(info.service)]
    <3>1. info.name \in Names /\ info.service \in LocalServices
      BY <1>4, <2>3, InfoFields DEF UpdateLocalService, InfoAt
    <3>2. o \in Manifest
      BY <3>1, WithService
    <3>3. o.avail = manifest[info.name].avail
      BY <3>1 DEF Manifest
    <3>4. Put(info.name, o)
      BY <1>4, <2>3 DEF UpdateLocalService
    <3> HIDE DEF o
    <3>5. manifest'[info.name] = o /\ \A n \in Names \ {info.name} : manifest'[n] = manifest[n]
      BY <3>1, <3>2, <3>4, PutFlow
    <3> QED BY <1>1, <2>1, <3>3, <3>5, NoneTypes, NoManifestType
  <2> QED BY <1>4, <2>2, <2>3 DEF UpdateLocalService
<1>5. CASE UpdateLocalAvailableImage
  <2>1. CASE UNCHANGED manifest /\ info' = NoInfo
    BY <1>1, <2>1, NoneTypes, NoManifestType
  <2>2. ASSUME NEW m \in WrongImages,
               Put(m, WithStatus(manifest[m], info.image, info.listed[m].avail)),
               info' = [info EXCEPT !.listed[m].image = info.image]
        PROVE  Flow
    <3> DEFINE o == WithStatus(manifest[m], info.image, info.listed[m].avail)
    <3>1. m \in Names /\ info.image \in Images /\ info.listed[m] \in Manifest
      BY <2>2, InfoFields DEF WrongImages
    <3>2. o \in Manifest /\ o.avail = info.listed[m].avail
      BY <3>1, ManifestFields, WithStatusType
    <3>3. \A n \in Names : info'.listed[n].avail = info.listed[n].avail
      BY <2>2, <3>1, InfoRelists
    <3> HIDE DEF o
    <3>4. manifest'[m] = o /\ \A n \in Names \ {m} : manifest'[n] = manifest[n]
      BY <2>2, <3>1, <3>2, PutFlow DEF o
    <3> QED BY <1>1, <3>2, <3>3, <3>4
  <2> QED BY <1>5, <2>1, <2>2 DEF UpdateLocalAvailableImage
<1> QED BY <1>2, <1>3, <1>4, <1>5 DEF InfoStep

\* Failures lose copies, users make new objects without any versions.
LEMMA OthersFlow ==
  ASSUME TypeOK, FailedCall \/ Crash \/ Users
  PROVE  Flow
<1> USE DEF FromManifest, FromHeld, FromListed, FromMerge, Flow, TypeOK
<1>1. CASE FailedCall
  <2>1. UNCHANGED <<manifest, held>>
    BY <1>1 DEF FailedCall
  <2>2. merge' = merge \/ merge'.name = 0
    BY <1>1, NoneTypes DEF FailedCall
  <2>3. info'.listed = info.listed \/ info' = NoInfo
    <3>1. /\ [info EXCEPT !.at = "image"].listed = info.listed
          /\ [info EXCEPT !.at = "images", !.image = "default"].listed = info.listed
      BY DEF Infos
    <3> QED BY <1>1, <3>1 DEF FailedCall, InfoGoto
  <2> QED BY <2>1, <2>2, <2>3, NoneTypes, NoManifestType
<1>2. CASE Crash
  BY <1>2, NoneTypes, NoManifestType DEF Crash
<1>3. ASSUME NEW m \in Names, NEW r \in Labels, EditManifest(m, r)
      PROVE  Flow
  <2>1. UNCHANGED <<held, info, merge>>
    BY <1>3 DEF EditManifest, registry
  <2>2. PICK o \in Manifest : Put(m, o) /\ (o.avail = manifest[m].avail \/ o.avail = {})
    <3> DEFINE c == [manifest[m] EXCEPT !.release = r]
    <3>1. c \in Manifest /\ c.avail = manifest[m].avail
      BY DEF Manifest
    <3>2. Put(m, c) \/ Put(m, NewManifest(r)) \/ Put(m, NoManifest)
      BY <1>3 DEF EditManifest
    <3> HIDE DEF c
    <3> QED BY <3>1, <3>2, NewManifestType, NoManifestType
  <2> QED BY <2>1, <2>2, PutFlow
<1>4. CASE UNCHANGED <<manifest, held, info, merge>>
  BY <1>4
<1> QED BY <1>1, <1>2, <1>3, <1>4 DEF Users, EditSet, EditLocalService, registry

LEMMA StepFlow == TypeOK /\ [Next]_vars => Flow
<1> SUFFICES ASSUME TypeOK, [Next]_vars PROVE Flow
  OBVIOUS
<1>1. CASE UNCHANGED vars
  BY <1>1 DEF vars, FromManifest, FromHeld, FromListed, FromMerge, Flow
<1> QED BY <1>1, HandleFlow, SetStepFlow, MergeStepFlow, InfoStepFlow, OthersFlow DEF Next

-----------------------------------------------------------------------------
(* What is published and worn. *)

\* Neither is ever taken back.
LEMMA Grows ==
  ASSUME [Next]_vars
  PROVE  published \subseteq published' /\ worn \subseteq worn'
<1> USE DEF history
<1>1. ASSUME NEW m \in Names, Handle(m) \/ HandleRaced(m)
      PROVE  published \subseteq published' /\ worn \subseteq worn'
  BY <1>1 DEF Handle, HandleRaced
<1>2. ASSUME NEW a \in Sets, Reconcile(a) \/ LabelSet(a) \/ SetSync(a)
      PROVE  published \subseteq published' /\ worn \subseteq worn'
  BY <1>2 DEF Reconcile, LabelSet, SetSync
<1>3. CASE MergeStep
  BY <1>3 DEF MergeStep, MergeNext, GetManifest, UpdateMerged
<1>4. CASE InfoStep
  BY <1>4 DEF InfoStep, ListManifests, IsOnlineENV, FetchLocalServiceCM, UpdateLocalService,
              FetchKubeanConfigProperty, UpdateLocalAvailableImage
<1>5. CASE FailedCall \/ Crash
  BY <1>5 DEF FailedCall, Crash
<1>6. CASE Users
  BY <1>6 DEF Users, EditManifest, EditSet, EditLocalService
<1>7. CASE UNCHANGED vars
  BY <1>7 DEF vars
<1> QED BY <1>1, <1>2, <1>3, <1>4, <1>5, <1>6, <1>7 DEF Next

\* A version that may be reported may be reported for ever, with or without its prefix.
LEMMA DueGrows ==
  ASSUME NEW w, NEW p, NEW v, NEW q, w \subseteq v, p \subseteq q, NEW m, NEW S,
         Due(w, p, m, S)
  PROVE  Due(v, q, m, S)
  BY DEF Due

LEMMA UnifyTwice ==
  ASSUME NEW y \in Version, NEW x \in {y} \cup UnifyVersions({y}), NEW z \in UnifyVersions({x})
  PROVE  z \in {y} \cup UnifyVersions({y})
  BY DEF UnifyVersions, Version

\* Merging what a set of a release that m wears has published adds only due versions.
LEMMA MergedDue ==
  ASSUME TypeOK, NEW m \in Names, NEW S \in SUBSET Version, NEW c \in SUBSET Version,
         NEW r \in Releases,
         Due(worn, published, m, S), <<m, r>> \in worn, {r} \X c \subseteq published
  PROVE  Due(worn, published, m, Merged(S, c))
<1> DEFINE Source(x) == \E s \in Releases, y \in Version :
                          <<m, s>> \in worn /\ <<s, y>> \in published
                            /\ x \in {y} \cup UnifyVersions({y})
<1>1. \A x \in S \cup c : Source(x)
  BY DEF Due
<1>2. ASSUME NEW x \in UnifyVersions(S \cup c)
      PROVE  Source(x)
  <2>1. PICK y \in S \cup c : x \in UnifyVersions({y})
    BY DEF UnifyVersions
  <2>2. PICK s \in Releases, z \in Version : <<m, s>> \in worn /\ <<s, z>> \in published
                                               /\ y \in {z} \cup UnifyVersions({z})
    BY <1>1
  <2>3. x \in {z} \cup UnifyVersions({z})
    BY <2>1, <2>2, UnifyTwice
  <2> QED BY <2>2, <2>3
<1> QED BY <1>1, <1>2 DEF Merged, Due

-----------------------------------------------------------------------------
(* The invariant. *)

LEMMA CopiesDueStep ==
  ASSUME AirgapInv, [Next]_vars
  PROVE  CopiesDue'
<1> USE DEF AirgapInv
<1>1. Flow /\ TypeOK'
  BY StepFlow, StepType
<1>2. \A m \in Names, S \in SUBSET Version :
        Due(worn, published, m, S) => Due(worn', published', m, S)
  BY Grows, DueGrows
<1>3. \A m \in Names : Due(worn', published', m, {})
  BY DEF Due
<1>4. ASSUME NEW m \in Names, merge.at = "walk", m \in merge.todo
      PROVE  Due(worn, published, m, Merged(held[m].avail, merge.content))
  <2>1. held[m].avail \in SUBSET Version /\ merge.content \in SUBSET Version
    BY ManifestFields, MergeFields DEF TypeOK
  <2> QED BY <1>4, <2>1, MergedDue DEF CopiesDue, SourcesPublished
<1>5. ASSUME NEW m \in Names
      PROVE  /\ manifest[m].avail \in SUBSET Version /\ held[m].avail \in SUBSET Version
             /\ info.listed[m].avail \in SUBSET Version /\ merge.avail \in SUBSET Version
             /\ Merged(held[m].avail, merge.content) \in SUBSET Version
  BY ManifestFields, MergeFields, InfoFields, MergedType DEF TypeOK
<1>6. ASSUME NEW m \in Names
      PROVE  Due(worn', published', m, manifest'[m].avail)
  <2>1. FromManifest(m)
    BY <1>1 DEF Flow
  <2>2. CASE merge.name = m /\ manifest'[m].avail = merge.avail
    <3>1. Due(worn, published, m, merge.avail)
      <4>1. m # 0
        BY NamesAssumption
      <4> QED BY <2>2, <4>1 DEF CopiesDue
    <3> QED BY <1>2, <1>5, <2>2, <3>1
  <2>3. CASE manifest'[m].avail \in {manifest[m].avail, {}, info.listed[m].avail}
    BY <1>2, <1>3, <1>5, <2>3 DEF CopiesDue
  <2> QED BY <2>1, <2>2, <2>3 DEF FromManifest
<1>7. ASSUME NEW m \in Names
      PROVE  Due(worn', published', m, held'[m].avail)
  <2>1. FromHeld(m)
    BY <1>1 DEF Flow
  <2> QED BY <1>2, <1>3, <1>4, <1>5, <2>1 DEF FromHeld, CopiesDue
<1>8. ASSUME NEW m \in Names
      PROVE  Due(worn', published', m, info'.listed[m].avail)
  <2>1. FromListed(m)
    BY <1>1 DEF Flow
  <2> QED BY <1>2, <1>3, <1>5, <2>1 DEF FromListed, CopiesDue
<1>9. ASSUME merge'.name # 0
      PROVE  Due(worn', published', merge'.name, merge'.avail)
  <2>1. merge'.name \in Names
    BY <1>1, <1>9, MergeFields DEF TypeOK
  <2>2. FromMerge
    BY <1>1 DEF Flow
  <2> QED BY <1>2, <1>4, <1>5, <1>9, <2>1, <2>2 DEF FromMerge, CopiesDue
<1> QED BY <1>6, <1>7, <1>8, <1>9 DEF CopiesDue

\* The manifest controller writes services and status, never a label.
LEMMA InfoKeepsReleases ==
  ASSUME TypeOK, InfoStep, NEW n \in Names
  PROVE  manifest'[n].release = manifest[n].release
<1> USE DEF TypeOK
<1>1. CASE UpdateLocalService /\ <<"info", info.name>> \in current
  <2> DEFINE o == [manifest[info.name] EXCEPT !.service = Stored(info.service)]
  <2>1. info.name \in Names /\ info.service \in LocalServices
    BY <1>1, InfoFields DEF UpdateLocalService, InfoAt
  <2>2. o \in Manifest
    BY <2>1, WithService
  <2>3. o.release = manifest[info.name].release
    BY <2>1 DEF Manifest
  <2>4. Put(info.name, o)
    BY <1>1 DEF UpdateLocalService
  <2> HIDE DEF o
  <2> QED BY <2>1, <2>2, <2>3, <2>4, PutFlow
<1>2. ASSUME NEW m \in WrongImages,
             Put(m, WithStatus(manifest[m], info.image, info.listed[m].avail))
      PROVE  manifest'[n].release = manifest[n].release
  <2> DEFINE o == WithStatus(manifest[m], info.image, info.listed[m].avail)
  <2>1. m \in Names /\ info.image \in Images /\ info.listed[m] \in Manifest
    BY <1>2, InfoFields DEF WrongImages
  <2>2. o \in Manifest /\ o.release = manifest[m].release
    BY <2>1, ManifestFields, WithStatusType
  <2>3. Put(m, o)
    BY <1>2
  <2> HIDE DEF o
  <2> QED BY <2>1, <2>2, <2>3, PutFlow
<1>3. CASE UNCHANGED manifest
  BY <1>3
<1> QED BY <1>1, <1>2, <1>3 DEF InfoStep, ListManifests, IsOnlineENV, FetchLocalServiceCM,
           UpdateLocalService, FetchKubeanConfigProperty, UpdateLocalAvailableImage

\* What a set has is published as it is stored; the registry has the releases that
\* Manifests wear; and a walk only meets Manifests of its release.
LEMMA SourcesStep ==
  ASSUME TypeOK, SourcesPublished, [Next]_vars
  PROVE  SourcesPublished'
<1> DEFINE SetsIn == \A a \in Sets : /\ Publications(sets[a]) \subseteq published
                                     /\ Publications(seen[a]) \subseteq published
           WornIn == \A m \in Names : /\ Wears(m, manifest[m].release) \subseteq worn
                                      /\ Wears(m, held[m].release) \subseteq worn
           MergeIn == merge.at # "idle" =>
                        /\ merge.release \in Releases
                        /\ {merge.release} \X merge.content \subseteq published
                        /\ \A m \in merge.todo : <<m, merge.release>> \in worn
<1> USE DEF SourcesPublished, TypeOK, history, registry
<1>1. published \subseteq published' /\ worn \subseteq worn'
  BY Grows
<1>2. ASSUME UNCHANGED <<sets, seen>> PROVE SetsIn'
  BY <1>1, <1>2
<1>3. ASSUME UNCHANGED <<manifest, held>> PROVE WornIn'
  BY <1>1, <1>3
<1>4. ASSUME UNCHANGED merge PROVE MergeIn'
  BY <1>1, <1>4
<1>5. ASSUME merge' = NoMerge PROVE MergeIn'
  BY <1>5, NoneTypes
<1>6. ASSUME NEW m \in Names, Handle(m) \/ HandleRaced(m)
      PROVE  SourcesPublished'
  <2>1. WornIn'
    <3>1. held' = [held EXCEPT ![m] = manifest[m]] /\ UNCHANGED manifest
      BY <1>6 DEF Handle, HandleRaced
    <3> QED BY <1>1, <3>1
  <2>2. MergeIn'
    <3>1. CASE UNCHANGED merge
      BY <1>4, <3>1
    <3>2. ASSUME NEW t \in Shifted(m), merge' = [merge EXCEPT !.todo = t]
          PROVE  MergeIn'
      <4>1. /\ merge'.at = merge.at /\ merge'.release = merge.release
            /\ merge'.content = merge.content /\ merge'.todo = t
        BY <3>2 DEF Merges
      <4>2. ASSUME merge.at # "idle", NEW n \in t PROVE <<n, merge.release>> \in worn
        <5>1. CASE n \in merge.todo
          BY <4>2, <5>1
        <5>2. CASE n \notin merge.todo
          <6>1. n = m /\ held[m].release = merge.release /\ merge.release \in Releases
            BY <3>2, <4>2, <5>2 DEF Shifted, Entries
          <6> QED BY <6>1, ReleasesAssumption DEF Wears
        <5> QED BY <5>1, <5>2
      <4> QED BY <1>1, <4>1, <4>2
    <3> QED BY <1>6, <3>1, <3>2 DEF Handle, HandleRaced
  <2> QED BY <1>2, <1>6, <2>1, <2>2 DEF Handle, HandleRaced
<1>7. ASSUME NEW a \in Sets, Reconcile(a)
      PROVE  SourcesPublished'
  <2>1. MergeIn'
    <3> DEFINE w == Walk(seen[a].release, seen[a].content, Entries(seen[a].release))
    <3>1. CASE merge' = NoMerge
      BY <1>5, <3>1
    <3>2. CASE merge' = w
      <4>1. seen[a].release \in Releases
        BY <1>7, SetFields DEF Reconcile, Labels
      <4>2. w.release = seen[a].release /\ w.content = seen[a].content
            /\ w.todo = Entries(seen[a].release)
        BY DEF Walk
      <4>3. {seen[a].release} \X seen[a].content \subseteq published
        BY <4>1, ReleasesAssumption DEF Publications
      <4>4. \A m \in Entries(seen[a].release) : <<m, seen[a].release>> \in worn
        BY <4>1, ReleasesAssumption DEF Entries, Wears
      <4> HIDE DEF w
      <4> QED BY <1>1, <3>2, <4>1, <4>2, <4>3, <4>4
    <3> QED BY <1>7, <3>1, <3>2 DEF Reconcile
  <2> QED BY <1>2, <1>3, <1>7, <2>1 DEF Reconcile
<1>8. ASSUME NEW a \in Sets, LabelSet(a) \/ SetSync(a)
      PROVE  SourcesPublished'
  <2>1. SetsIn'
    BY <1>1, <1>8 DEF LabelSet, SetSync
  <2> QED BY <1>3, <1>4, <1>8, <2>1 DEF LabelSet, SetSync
<1>9. CASE MergeStep
  <2>1. SetsIn'
    BY <1>2, <1>9 DEF MergeStep, MergeNext, GetManifest, UpdateMerged
  <2>2. CASE MergeNext
    <3>1. \A m \in Names : held'[m].release = held[m].release
      <4>1. \A m \in Names : \A v : [held[m] EXCEPT !.avail = v].release = held[m].release
        BY DEF Manifest
      <4>2. UNCHANGED held \/ \E v : \E m \in Names : held' = [held EXCEPT ![m].avail = v]
        BY <2>2, MergeFields DEF MergeNext
      <4>3. ASSUME NEW v, NEW m \in Names, held' = [held EXCEPT ![m].avail = v],
                   NEW n \in Names
            PROVE  held'[n].release = held[n].release
        <5>1. held'[m] = [held[m] EXCEPT !.avail = v] /\ (n # m => held'[n] = held[n])
          BY <4>3
        <5> QED BY <4>1, <5>1
      <4> QED BY <4>2, <4>3
    <3>2. WornIn'
      BY <1>1, <2>2, <3>1 DEF MergeNext
    <3>3. MergeIn'
      <4>1. CASE merge' = NoMerge
        BY <1>5, <4>1
      <4>2. ASSUME NEW m \in merge.todo, merge.at # "idle",
                   merge' = Walk(merge.release, merge.content, merge.todo \ {m})
            PROVE  MergeIn'
        BY <1>1, <4>2 DEF Walk
      <4>3. ASSUME NEW m \in merge.todo, NEW v, merge.at # "idle",
                   merge' = [merge EXCEPT !.at = "get", !.name = m,
                                !.image = held[m].image, !.avail = v]
            PROVE  MergeIn'
        <5>1. /\ merge'.release = merge.release /\ merge'.content = merge.content
              /\ merge'.todo = merge.todo
          BY <4>3 DEF Merges
        <5> QED BY <1>1, <4>3, <5>1
      <4> QED BY <2>2, <4>1, <4>2, <4>3 DEF MergeNext, MergeAt
    <3> QED BY <2>1, <3>2, <3>3
  <2>3. CASE GetManifest
    <3>1. MergeIn'
      <4>1. \/ merge' = NextManifest
            \/ merge' = [merge EXCEPT !.at = "write"]
        BY <2>3 DEF GetManifest
      <4>2. merge.at # "idle"
        BY <2>3 DEF GetManifest, MergeAt
      <4>3. CASE merge' = NextManifest
        BY <1>1, <4>2, <4>3 DEF NextManifest, Walk
      <4>4. CASE merge' = [merge EXCEPT !.at = "write"]
        <5>1. /\ merge'.release = merge.release /\ merge'.content = merge.content
              /\ merge'.todo = merge.todo
          BY <4>4 DEF Merges
        <5> QED BY <1>1, <4>2, <5>1
      <4> QED BY <4>1, <4>3, <4>4
    <3> QED BY <1>3, <2>1, <2>3, <3>1 DEF GetManifest
  <2>4. CASE UpdateMerged
    <3>1. MergeIn'
      <4>1. merge' = NextManifest \/ merge' = NoMerge
        BY <2>4 DEF UpdateMerged
      <4>2. merge.at # "idle"
        BY <2>4 DEF UpdateMerged, MergeAt
      <4>3. CASE merge' = NextManifest
        BY <1>1, <4>2, <4>3 DEF NextManifest, Walk
      <4> QED BY <1>5, <4>1, <4>3
    <3>2. WornIn'
      <4>1. CASE <<"merge", merge.name>> \in current
        <5> DEFINE o == WithStatus(manifest[merge.name], merge.image, merge.avail)
        <5>1. merge.name \in Names /\ o \in Manifest
                /\ o.release = manifest[merge.name].release
          BY <4>1, MergeFields, WithStatusType
        <5>2. Put(merge.name, o)
          BY <2>4, <4>1 DEF UpdateMerged
        <5> HIDE DEF o
        <5>3. \A n \in Names : manifest'[n].release = manifest[n].release
          BY <5>1, <5>2, PutFlow
        <5> QED BY <1>1, <2>4, <5>3 DEF UpdateMerged
      <4>2. CASE <<"merge", merge.name>> \notin current
        BY <1>3, <2>4, <4>2 DEF UpdateMerged
      <4> QED BY <4>1, <4>2
    <3> QED BY <2>1, <3>1, <3>2
  <2> QED BY <1>9, <2>2, <2>3, <2>4 DEF MergeStep
<1>10. CASE InfoStep
  <2>1. \A n \in Names : manifest'[n].release = manifest[n].release
    BY <1>10, InfoKeepsReleases
  <2>2. WornIn'
    <3>1. UNCHANGED held
      BY <1>10 DEF InfoStep, ListManifests, IsOnlineENV, FetchLocalServiceCM,
                   UpdateLocalService, FetchKubeanConfigProperty, UpdateLocalAvailableImage
    <3> QED BY <1>1, <2>1, <3>1
  <2> QED BY <1>2, <1>4, <1>10, <2>2 DEF InfoStep, ListManifests, IsOnlineENV,
             FetchLocalServiceCM, UpdateLocalService, FetchKubeanConfigProperty,
             UpdateLocalAvailableImage
<1>11. CASE FailedCall
  BY <1>2, <1>3, <1>4, <1>5, <1>11 DEF FailedCall
<1>12. CASE Crash
  <2>1. WornIn'
    BY <1>1, <1>12, NoManifestType DEF Crash, Wears
  <2>2. SetsIn'
    BY <1>1, <1>12 DEF Crash
  <2> QED BY <1>5, <1>12, <2>1, <2>2 DEF Crash
<1>13. CASE Users
  <2>1. ASSUME NEW m \in Names, NEW r \in Labels, EditManifest(m, r)
        PROVE  SourcesPublished'
    <3>1. PICK o \in Manifest : Put(m, o) /\ Wears(m, o.release) \subseteq worn'
      <4> DEFINE c == [manifest[m] EXCEPT !.release = r]
      <4>1. c \in Manifest /\ c.release = r
        BY DEF Manifest
      <4>2. \/ Put(m, c) /\ worn' = worn \cup Wears(m, r)
            \/ Put(m, NewManifest(r)) /\ worn' = worn \cup Wears(m, r)
            \/ Put(m, NoManifest)
        BY <2>1 DEF EditManifest
      <4>3. Wears(m, "none") = {}
        BY DEF Wears
      <4> HIDE DEF c
      <4> QED BY <4>1, <4>2, <4>3, NewManifestType, NoManifestType
    <3>2. WornIn'
      BY <1>1, <2>1, <3>1, PutFlow DEF EditManifest
    <3> QED BY <1>2, <1>4, <2>1, <3>2 DEF EditManifest
  <2>2. ASSUME NEW a \in Sets, NEW s \in ArtifactSet, EditSet(a, s)
        PROVE  SourcesPublished'
    <3>1. SetsIn'
      BY <1>1, <2>2 DEF EditSet
    <3> QED BY <1>3, <1>4, <2>2, <3>1 DEF EditSet
  <2>3. ASSUME NEW s, EditLocalService(s)
        PROVE  SourcesPublished'
    BY <1>2, <1>3, <1>4, <2>3 DEF EditLocalService
  <2> QED BY <1>13, <2>1, <2>2, <2>3, SetFields DEF Users
<1>14. CASE UNCHANGED vars
  BY <1>2, <1>3, <1>4, <1>14 DEF vars
<1> QED BY <1>6, <1>7, <1>8, <1>9, <1>10, <1>11, <1>12, <1>13, <1>14 DEF Next

\* Either a Manifest is left as it is, or no copy of it is current any more.
LEMMA PutCurrent ==
  ASSUME TypeOK, NEW m \in Names, NEW o \in Manifest, Put(m, o), NEW n \in Names,
         <<"info", n>> \in current'
  PROVE  manifest'[n] = manifest[n] /\ <<"info", n>> \in current
<1>1. manifest \in [Names -> Manifest]
  BY DEF TypeOK
<1> QED BY <1>1 DEF Put

\* A listed Manifest is current only as long as nothing has been written to it.
LEMMA ListedStep ==
  ASSUME TypeOK, ListedCurrent, [Next]_vars
  PROVE  ListedCurrent'
<1> USE DEF ListedCurrent, TypeOK, history, registry
<1>1. ASSUME UNCHANGED info,
             \A n \in Names : <<"info", n>> \in current' =>
                                manifest'[n] = manifest[n] /\ <<"info", n>> \in current
      PROVE  ListedCurrent'
  BY <1>1
<1>2. ASSUME info' = NoInfo PROVE ListedCurrent'
  BY <1>2, NoneTypes
<1>3. ASSUME NEW m \in Names, Handle(m) \/ HandleRaced(m)
      PROVE  ListedCurrent'
  BY <1>1, <1>3 DEF Handle, HandleRaced
<1>4. ASSUME NEW a \in Sets, Reconcile(a) \/ LabelSet(a) \/ SetSync(a)
      PROVE  ListedCurrent'
  BY <1>1, <1>4 DEF Reconcile, LabelSet, SetSync
<1>5. CASE MergeStep
  <2>1. CASE MergeNext \/ GetManifest
    <3>1. UNCHANGED <<manifest, info>>
      BY <2>1 DEF MergeNext, GetManifest
    <3>2. current' \subseteq current \cup {<<"merge", merge.name>>}
      BY <2>1 DEF MergeNext, GetManifest
    <3>3. \A n : <<"info", n>> # <<"merge", merge.name>>
      OBVIOUS
    <3> QED BY <1>1, <3>1, <3>2, <3>3
  <2>2. CASE UpdateMerged
    <3>1. CASE <<"merge", merge.name>> \in current
      <4> DEFINE o == WithStatus(manifest[merge.name], merge.image, merge.avail)
      <4>1. merge.name \in Names /\ o \in Manifest
        BY <3>1, MergeFields, WithStatusType
      <4>2. Put(merge.name, o) /\ UNCHANGED info
        BY <2>2, <3>1 DEF UpdateMerged
      <4> HIDE DEF o
      <4> QED BY <1>1, <4>1, <4>2, PutCurrent
    <3>2. CASE <<"merge", merge.name>> \notin current
      BY <1>1, <2>2, <3>2 DEF UpdateMerged
    <3> QED BY <3>1, <3>2
  <2> QED BY <1>5, <2>1, <2>2 DEF MergeStep
<1>6. CASE ListManifests
  <2>1. [NoInfo EXCEPT !.at = "online", !.listed = manifest].listed = manifest
    BY NoneTypes DEF Infos
  <2> QED BY <1>6, <2>1 DEF ListManifests
<1>7. CASE IsOnlineENV \/ FetchLocalServiceCM \/ FetchKubeanConfigProperty
  <2>1. info'.listed = info.listed /\ info.at # "idle"
    <3>1. /\ \A s : [info EXCEPT !.at = s].listed = info.listed
          /\ [info EXCEPT !.at = "images", !.image = Registry].listed = info.listed
      BY DEF Infos
    <3>2. CASE IsOnlineENV \/ FetchKubeanConfigProperty
      BY <3>1, <3>2 DEF IsOnlineENV, FetchKubeanConfigProperty, InfoGoto, InfoAt
    <3>3. CASE FetchLocalServiceCM
      <4>1. info' = [info EXCEPT !.at = "image"]
              \/ info' = Updates(info, First(Differing(local)), local)
        BY <3>3 DEF FetchLocalServiceCM, InfoGoto, Updates
      <4> QED BY <3>1, <3>3, <4>1 DEF Updates, Infos, FetchLocalServiceCM, InfoAt
    <3> QED BY <1>7, <3>2, <3>3
  <2> QED BY <1>7, <2>1 DEF IsOnlineENV, FetchLocalServiceCM, FetchKubeanConfigProperty
<1>8. CASE UpdateLocalService
  BY <1>2, <1>8 DEF UpdateLocalService
<1>9. CASE UpdateLocalAvailableImage
  <2>1. CASE info' = NoInfo
    BY <1>2, <2>1
  <2>2. ASSUME NEW m \in WrongImages,
               Put(m, WithStatus(manifest[m], info.image, info.listed[m].avail)),
               info' = [info EXCEPT !.listed[m].image = info.image]
        PROVE  ListedCurrent'
    <3> DEFINE o == WithStatus(manifest[m], info.image, info.listed[m].avail)
    <3>1. m \in Names /\ info.image \in Images /\ info.listed[m] \in Manifest
      BY <2>2, InfoFields DEF WrongImages
    <3>2. o \in Manifest
      BY <3>1, ManifestFields, WithStatusType
    <3>3. info'.at = info.at /\ \A n \in Names : info'.listed[n].avail = info.listed[n].avail
      BY <2>2, <3>1, InfoRelists
    <3>4. Put(m, o)
      BY <2>2
    <3> HIDE DEF o
    <3>5. \A n \in Names : <<"info", n>> \in current' =>
                             manifest'[n] = manifest[n] /\ <<"info", n>> \in current
      BY <3>1, <3>2, <3>4, PutCurrent
    <3> QED BY <3>3, <3>5
  <2> QED BY <1>9, <2>1, <2>2 DEF UpdateLocalAvailableImage
<1>10. CASE FailedCall
  <2>1. CASE info' = NoInfo
    BY <1>2, <2>1
  <2>2. CASE info' # NoInfo
    <3>1. /\ [info EXCEPT !.at = "image"].listed = info.listed
          /\ [info EXCEPT !.at = "images", !.image = "default"].listed = info.listed
      BY DEF Infos
    <3>2. \/ info' = info
          \/ info'.listed = info.listed /\ info.at # "idle"
      BY <1>10, <2>2, <3>1 DEF FailedCall, InfoGoto, InfoAt
    <3> QED BY <1>1, <1>10, <3>2 DEF FailedCall
  <2> QED BY <2>1, <2>2
<1>11. CASE Crash
  BY <1>2, <1>11 DEF Crash
<1>12. CASE Users
  <2>1. ASSUME NEW m \in Names, NEW r \in Labels, EditManifest(m, r)
        PROVE  ListedCurrent'
    <3>1. PICK o \in Manifest : Put(m, o)
      <4>1. [manifest[m] EXCEPT !.release = r] \in Manifest
        BY WithRelease
      <4> QED BY <2>1, <4>1, NewManifestType, NoManifestType DEF EditManifest
    <3> QED BY <1>1, <2>1, <3>1, PutCurrent DEF EditManifest
  <2> QED BY <1>1, <1>12, <2>1 DEF Users, EditSet, EditLocalService
<1>13. CASE UNCHANGED vars
  BY <1>1, <1>13 DEF vars
<1> QED BY <1>3, <1>4, <1>5, <1>6, <1>7, <1>8, <1>9, <1>10, <1>11, <1>12, <1>13
        DEF Next, InfoStep

LEMMA InitInv == Init => AirgapInv
<1> SUFFICES ASSUME Init PROVE AirgapInv
  OBVIOUS
<1>1. \A m \in Names : manifest[m].avail = {} /\ held[m].avail = {}
                         /\ info.listed[m].avail = {} /\ held[m].release = "none"
  BY NewManifestType, NoManifestType, NoneTypes, InitialAssumption DEF Init
<1>2. CopiesDue
  BY <1>1, NoneTypes DEF Init, CopiesDue, Due
<1>3. SourcesPublished
  BY <1>1, NoneTypes DEF Init, SourcesPublished, Wears
<1>4. ListedCurrent
  BY NoneTypes DEF Init, ListedCurrent
<1> QED BY <1>2, <1>3, <1>4, InitType DEF AirgapInv

\* The invariant holds in every reachable state.
THEOREM Invariant == Spec => []AirgapInv
<1>1. AirgapInv /\ [Next]_vars => AirgapInv'
  BY StepType, CopiesDueStep, SourcesStep, ListedStep DEF AirgapInv
<1> QED BY <1>1, InitInv, PTL DEF Spec

\* No version of a release that a Manifest never had is reported by it, wherever the
\* writes of the two controllers, failures and changes by users meet.
THEOREM NeverMixed == Spec => []OnlyPublished
<1>1. AirgapInv => OnlyPublished
  BY DEF AirgapInv, CopiesDue, Due, OnlyPublished
<1> QED BY <1>1, Invariant, PTL

-----------------------------------------------------------------------------
(* The manifest controller does not undo a merge. *)

LEMMA KeepsStep ==
  ASSUME AirgapInv, [Next]_vars, NEW m \in Names,
         manifest[m].exists, manifest'[m].exists, manifest'[m].avail # manifest[m].avail
  PROVE  MergeAt("write")
<1> USE DEF AirgapInv, TypeOK
<1>1. CASE UNCHANGED manifest
  BY <1>1
<1>2. CASE UpdateMerged
  BY <1>2 DEF UpdateMerged
<1>3. CASE UpdateLocalService /\ <<"info", info.name>> \in current
  <2> DEFINE o == [manifest[info.name] EXCEPT !.service = Stored(info.service)]
  <2>1. info.name \in Names /\ info.service \in LocalServices
    BY <1>3, InfoFields DEF UpdateLocalService, InfoAt
  <2>2. o \in Manifest
    BY <2>1, WithService
  <2>3. o.avail = manifest[info.name].avail
    BY <2>1 DEF Manifest
  <2>4. Put(info.name, o)
    BY <1>3 DEF UpdateLocalService
  <2> HIDE DEF o
  <2> QED BY <2>1, <2>2, <2>3, <2>4, PutFlow
<1>4. ASSUME NEW n \in WrongImages, InfoAt("images"), <<"info", n>> \in current,
             Put(n, WithStatus(manifest[n], info.image, info.listed[n].avail))
      PROVE  MergeAt("write")
  <2> DEFINE o == WithStatus(manifest[n], info.image, info.listed[n].avail)
  <2>1. n \in Names /\ info.image \in Images /\ info.listed[n] \in Manifest
    BY <1>4, InfoFields DEF WrongImages
  <2>2. o \in Manifest /\ o.avail = info.listed[n].avail
    BY <2>1, ManifestFields, WithStatusType
  <2>3. Put(n, o)
    BY <1>4
  <2>4. info.listed[n].avail = manifest[n].avail
    BY <1>4, <2>1 DEF ListedCurrent, InfoAt
  <2> HIDE DEF o
  <2> QED BY <2>1, <2>2, <2>3, <2>4, PutFlow
<1>5. ASSUME NEW n \in Names, NEW r \in Labels, EditManifest(n, r)
      PROVE  MergeAt("write")
  <2> DEFINE c == [manifest[n] EXCEPT !.release = r]
  <2>1. c \in Manifest /\ c.avail = manifest[n].avail
    BY DEF Manifest
  <2>2. \/ Exists(n) /\ Put(n, c)
        \/ ~Exists(n) /\ Put(n, NewManifest(r))
        \/ Put(n, NoManifest)
    BY <1>5 DEF EditManifest
  <2>3. m = n
    <3> HIDE DEF c
    <3> QED BY <2>1, <2>2, NewManifestType, NoManifestType, PutFlow
  <2> HIDE DEF c
  <2> QED BY <2>1, <2>2, <2>3, NewManifestType, NoManifestType, PutFlow DEF Exists
<1> QED BY <1>1, <1>2, <1>3, <1>4, <1>5 DEF Next, vars, Handle, HandleRaced, Reconcile,
           LabelSet, SetSync, MergeStep, MergeNext, GetManifest, InfoStep, ListManifests,
           IsOnlineENV, FetchLocalServiceCM, UpdateLocalService, FetchKubeanConfigProperty,
           UpdateLocalAvailableImage, FailedCall, Crash, Users, EditSet, EditLocalService

\* Only the localartifactset controller, in the middle of a merge, changes the versions of
\* a Manifest: the other one, which writes the whole status from its list, does not.
THEOREM MergesKept == Spec => ImagesKeepVersions
<1>1. AirgapInv /\ [Next]_vars =>
        [\A m \in Names : manifest[m].exists /\ manifest'[m].exists
           /\ manifest'[m].avail # manifest[m].avail => MergeAt("write")]_vars
  BY KeepsStep
<1> QED BY <1>1, Invariant, PTL DEF Spec, ImagesKeepVersions

-----------------------------------------------------------------------------
(* The cached objects are not ahead of what is stored. *)

\* A write that changes a Manifest has the handler called; another one changes nothing.
LEMMA PutKnown ==
  ASSUME TypeOK, NEW n \in Names, NEW o \in Manifest, Put(n, o)
  PROVE  /\ pending \subseteq pending'
         /\ \A m \in Names \ pending' : /\ manifest'[m] = manifest[m]
                                        /\ m = n => manifest[m] = o
                                        /\ <<"merge", m>> \in current => <<"merge", m>> \in current'
<1>1. manifest \in [Names -> Manifest]
  BY DEF TypeOK
<1>2. CASE o = manifest[n]
  BY <1>1, <1>2 DEF Put
<1>3. CASE o # manifest[n]
  <2>1. pending' = pending \cup {n} /\ current' = {c \in current : c[2] # n}
    BY <1>3 DEF Put
  <2>2. \A m \in Names \ {n} : manifest'[m] = manifest[m]
    BY <1>1 DEF Put
  <2>3. \A m \in Names \ {n} : <<"merge", m>> \in current => <<"merge", m>> \in current'
    BY <2>1
  <2> QED BY <2>1, <2>2, <2>3
<1> QED BY <1>2, <1>3

\* What the merge in progress, and the cached object, say of a Manifest stays, unless
\* the handler is about to replace the object.
Untouched(m) ==
  /\ m \notin pending /\ manifest'[m] = manifest[m] /\ held'[m] = held[m]
  /\ m \in dropped => m \in dropped'
  /\ <<"merge", m>> \in current => <<"merge", m>> \in current'

LEMMA UntouchedCache ==
  ASSUME CacheInv, UNCHANGED merge, \A m \in Names \ pending' : Untouched(m)
  PROVE  CacheInv'
BY DEF CacheInv, Untouched, InFlight, MergeAt, Exists

\* The handler puts what is stored into the registry.
LEMMA HandleCache ==
  ASSUME TypeOK, CacheInv, NEW m \in Names, Handle(m) \/ HandleRaced(m)
  PROVE  CacheInv'
<1>1. /\ pending' = pending \ {m} /\ UNCHANGED <<manifest, current>>
      /\ held' = [held EXCEPT ![m] = manifest[m]]
      /\ dropped \ {m} \subseteq dropped'
  BY DEF Handle, HandleRaced
<1>2. merge'.at = merge.at /\ merge'.name = merge.name /\ merge'.avail = merge.avail
  BY DEF Handle, HandleRaced, TypeOK, Merges
<1>3. held'[m] = manifest[m] /\ \A n \in Names \ {m} : held'[n] = held[n]
  BY <1>1 DEF TypeOK
<1> QED BY <1>1, <1>2, <1>3 DEF CacheInv, InFlight, MergeAt, Exists

\* The merge in progress is the only one that is ahead, until it has written.
LEMMA MergeCache ==
  ASSUME TypeOK, CacheInv, MergeStep
  PROVE  CacheInv'
<1> USE DEF MergeAt, InFlight, Exists
<1>1. UNCHANGED dropped
  BY DEF MergeStep, MergeNext, GetManifest, UpdateMerged, registry
<1>2. CASE MergeNext
  <2>1. UNCHANGED <<manifest, pending, current>> /\ merge.at = "walk"
    BY <1>2 DEF MergeNext
  <2>2. CASE UNCHANGED held
    BY <1>1, <2>1, <2>2 DEF CacheInv
  <2>3. ASSUME NEW m \in merge.todo, NEW avail, avail = Merged(held[m].avail, merge.content),
               merge' = [merge EXCEPT !.at = "get", !.name = m,
                            !.image = held[m].image, !.avail = avail],
               held' = [held EXCEPT ![m].avail = avail]
        PROVE  CacheInv'
    <3>1. m \in Names
      BY <2>3, MergeFields DEF TypeOK
    <3>2. avail \in SUBSET Version /\ held[m].image \in Images
      BY <2>3, <3>1, MergedType, MergeFields, ManifestFields DEF TypeOK
    <3>3. merge'.at = "get" /\ merge'.name = m /\ merge'.avail = avail
      <4>1. merge' = Gets(merge, m, held[m].image, avail)
        BY <2>3 DEF Gets
      <4> QED BY <3>1, <3>2, <4>1, MergeGets DEF TypeOK
    <3>4. /\ held'[m].avail = avail /\ held'[m].exists = held[m].exists
          /\ \A n \in Names \ {m} : held'[n] = held[n]
      BY <2>3, <3>1, <3>2 DEF TypeOK, Manifest
    <3> QED BY <1>1, <2>1, <3>3, <3>4 DEF CacheInv
  <2> QED BY <1>2, <2>2, <2>3 DEF MergeNext
<1>3. CASE GetManifest
  <2>1. UNCHANGED <<manifest, pending, held>> /\ merge.at = "get"
    BY <1>3 DEF GetManifest, registry
  <2>2. CASE Exists(merge.name)
    <3>1. merge' = [merge EXCEPT !.at = "write"] /\ current' = current \cup {<<"merge", merge.name>>}
      BY <1>3, <2>2 DEF GetManifest
    <3>2. merge'.at = "write" /\ merge'.name = merge.name /\ merge'.avail = merge.avail
      BY <3>1 DEF TypeOK, Merges
    <3> QED BY <1>1, <2>1, <3>1, <3>2 DEF CacheInv
  <2>3. CASE ~Exists(merge.name)
    <3>1. merge' = NextManifest
      BY <1>3, <2>3 DEF GetManifest
    <3> QED BY <1>1, <2>1, <2>3, <3>1, NextManifestType DEF CacheInv, TypeOK
  <2> QED BY <2>2, <2>3
<1>4. CASE UpdateMerged
  <2>1. UNCHANGED held /\ merge.at = "write" /\ merge.name \in Names
    BY <1>4 DEF UpdateMerged, registry, TypeOK
  <2>2. merge'.at \in {"idle", "walk"}
    BY <1>4, NoneTypes, NextManifestType DEF UpdateMerged, TypeOK
  <2>3. CASE <<"merge", merge.name>> \in current
    <3> DEFINE o == WithStatus(manifest[merge.name], merge.image, merge.avail)
    <3>1. o \in Manifest /\ o.avail = merge.avail
      BY <2>1, MergeFields, WithStatusType DEF TypeOK
    <3>2. Put(merge.name, o)
      BY <1>4, <2>3 DEF UpdateMerged
    <3> HIDE DEF o
    <3>3. /\ pending \subseteq pending'
          /\ \A m \in Names \ pending' : /\ manifest'[m] = manifest[m]
                                         /\ m = merge.name => manifest[m].avail = merge.avail
      BY <2>1, <3>1, <3>2, PutKnown
    <3> QED BY <1>1, <2>1, <2>2, <3>3 DEF CacheInv
  <2>4. CASE <<"merge", merge.name>> \notin current
    <3>1. UNCHANGED <<manifest, pending, current>>
      BY <1>4, <2>4 DEF UpdateMerged
    <3> QED BY <1>1, <2>1, <2>4, <3>1 DEF CacheInv
  <2> QED BY <2>3, <2>4
<1> QED BY <1>2, <1>3, <1>4 DEF MergeStep

\* The other controller only writes to Manifests, and gets no copy for this one.
LEMMA InfoCache ==
  ASSUME TypeOK, CacheInv, InfoStep
  PROVE  CacheInv'
<1>1. UNCHANGED <<held, merge, dropped>>
  BY DEF InfoStep, ListManifests, IsOnlineENV, FetchLocalServiceCM, UpdateLocalService,
         FetchKubeanConfigProperty, UpdateLocalAvailableImage, registry
<1>2. ASSUME UNCHANGED <<manifest, pending>>,
             \A m \in Names : <<"merge", m>> \in current => <<"merge", m>> \in current'
      PROVE  CacheInv'
  BY <1>1, <1>2, UntouchedCache DEF Untouched
<1>3. ASSUME NEW n \in Names, NEW o \in Manifest, Put(n, o)
      PROVE  CacheInv'
  <2>1. \A m \in Names \ pending' : Untouched(m)
    BY <1>1, <1>3, PutKnown DEF Untouched
  <2> QED BY <1>1, <2>1, UntouchedCache
<1>4. CASE ListManifests
  <2>1. \A m \in Names : <<"merge", m>> \in current => <<"merge", m>> \in current'
    BY <1>4 DEF ListManifests
  <2> QED BY <1>2, <1>4, <2>1 DEF ListManifests
<1>5. CASE IsOnlineENV \/ FetchLocalServiceCM \/ FetchKubeanConfigProperty
  BY <1>2, <1>5 DEF IsOnlineENV, FetchLocalServiceCM, FetchKubeanConfigProperty
<1>6. CASE UpdateLocalService
  <2>1. CASE <<"info", info.name>> \in current
    <3> DEFINE o == [manifest[info.name] EXCEPT !.service = Stored(info.service)]
    <3>1. info.name \in Names /\ info.service \in LocalServices
      BY <1>6, <2>1, InfoFields DEF UpdateLocalService, InfoAt, TypeOK
    <3>2. o \in Manifest
      BY <3>1, WithService DEF TypeOK
    <3>3. Put(info.name, o)
      BY <1>6, <2>1 DEF UpdateLocalService
    <3> HIDE DEF o
    <3> QED BY <1>3, <3>1, <3>2, <3>3
  <2>2. CASE <<"info", info.name>> \notin current
    BY <1>2, <1>6, <2>2 DEF UpdateLocalService
  <2> QED BY <2>1, <2>2
<1>7. CASE UpdateLocalAvailableImage
  <2>1. CASE UNCHANGED <<manifest, pending, current>>
    BY <1>2, <2>1
  <2>2. ASSUME NEW m \in WrongImages,
               Put(m, WithStatus(manifest[m], info.image, info.listed[m].avail))
        PROVE  CacheInv'
    <3>1. m \in Names /\ info.image \in Images /\ info.listed[m] \in Manifest
      BY <2>2, InfoFields DEF WrongImages, TypeOK
    <3>2. WithStatus(manifest[m], info.image, info.listed[m].avail) \in Manifest
      BY <3>1, ManifestFields, WithStatusType DEF TypeOK
    <3> QED BY <1>3, <2>2, <3>1, <3>2
  <2> QED BY <1>7, <2>1, <2>2 DEF UpdateLocalAvailableImage
<1> QED BY <1>4, <1>5, <1>6, <1>7 DEF InfoStep

\* A failed call leaves an object ahead, and says so; a restart leaves no object at all.
LEMMA FaultCache ==
  ASSUME TypeOK, CacheInv, FailedCall \/ Crash
  PROVE  CacheInv'
<1> USE DEF InFlight, Exists
<1>1. CASE FailedCall
  <2>1. UNCHANGED <<manifest, pending, held, current>> /\ dropped \subseteq dropped'
    BY <1>1 DEF FailedCall
  <2>2. CASE UNCHANGED merge
    BY <2>1, <2>2, UntouchedCache DEF Untouched
  <2>3. CASE merge' # merge
    <3>1. /\ merge' = NoMerge
          /\ \/ merge.name \in dropped'
             \/ held[merge.name].avail \subseteq manifest[merge.name].avail
      BY <1>1, <2>3 DEF FailedCall
    <3> QED BY <2>1, <3>1 DEF CacheInv
  <2> QED BY <2>2, <2>3
<1>2. CASE Crash
  <2>1. /\ UNCHANGED manifest /\ \A m \in Names : held'[m].exists = FALSE
    BY <1>2, NoManifestType DEF Crash
  <2> QED BY <2>1 DEF CacheInv
<1> QED BY <1>1, <1>2

LEMMA UsersCache ==
  ASSUME TypeOK, CacheInv, Users
  PROVE  CacheInv'
<1>1. ASSUME NEW m \in Names, NEW r \in Labels, EditManifest(m, r)
      PROVE  CacheInv'
  <2>1. PICK o \in Manifest : Put(m, o)
    <3>1. [manifest[m] EXCEPT !.release = r] \in Manifest
      BY WithRelease DEF TypeOK
    <3> QED BY <1>1, <3>1, NewManifestType, NoManifestType DEF EditManifest
  <2>2. UNCHANGED <<held, merge, dropped>>
    BY <1>1 DEF EditManifest, registry
  <2>3. \A n \in Names \ pending' : Untouched(n)
    BY <2>1, <2>2, PutKnown DEF Untouched
  <2> QED BY <2>2, <2>3, UntouchedCache
<1>2. CASE UNCHANGED <<manifest, pending, held, merge, dropped, current>>
  BY <1>2, UntouchedCache DEF Untouched
<1> QED BY <1>1, <1>2 DEF Users, EditSet, EditLocalService, registry

LEMMA StepCache == TypeOK /\ CacheInv /\ [Next]_vars => CacheInv'
<1> SUFFICES ASSUME TypeOK, CacheInv, [Next]_vars PROVE CacheInv'
  OBVIOUS
<1>1. ASSUME NEW a \in Sets, Reconcile(a)
      PROVE  CacheInv'
  <2>1. UNCHANGED <<manifest, pending, held, dropped, current>> /\ merge.at = "idle"
    BY <1>1 DEF Reconcile, MergeAt
  <2> QED BY <2>1 DEF CacheInv, InFlight, Exists
<1>2. ASSUME UNCHANGED <<manifest, pending, held, merge, dropped, current>>
      PROVE  CacheInv'
  BY <1>2, UntouchedCache DEF Untouched
<1>3. ASSUME NEW a \in Sets, LabelSet(a) \/ SetSync(a)
      PROVE  CacheInv'
  BY <1>2, <1>3 DEF LabelSet, SetSync, registry
<1>4. CASE UNCHANGED vars
  BY <1>2, <1>4 DEF vars
<1> QED BY <1>1, <1>3, <1>4, HandleCache, MergeCache, InfoCache, FaultCache, UsersCache DEF Next

\* The registry never has a Manifest as more complete than it is stored, but for a merge
\* in progress and after a failed call: a refused write, which loses what was merged, means
\* that the handler replaces the object, so that it is merged into again.
THEOREM CacheStored == Spec => []CachedIsStored
<1>1. Init => CacheInv
  BY NoManifestType DEF Init, CacheInv
<1>2. CacheInv => CachedIsStored
  BY DEF CacheInv, CachedIsStored
<1> QED BY <1>1, <1>2, StepCache, TypeCorrect, PTL DEF Spec
=============================================================================
