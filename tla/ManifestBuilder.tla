-------------------------- MODULE ManifestBuilder --------------------------
(***************************************************************************)
(* A collection's manifest and its hash (CollectionManifestBuilder.ts).    *)
(*                                                                         *)
(* A video is an object, named here.  It comes from a video builder, whose *)
(* build() checks its fields and returns the builder's own object, or from *)
(* anywhere else: addVideo checks nothing.  build() of the collection      *)
(* hands out the builder's own array.  So objects and array go on changing *)
(* after a manifest was built and hashed.  SHA-256 of the JSON is the      *)
(* content itself.                                                         *)
(***************************************************************************)
EXTENDS Naturals, Sequences, TokenSums

CONSTANTS Videos,      \* objects that describe a video
          Fields,      \* what validation wants of a video besides a duration: video_id,
                       \* title, cid, recorded_at, performer_username, and
                       \* technical_specs with a resolution and is_vr
          Durations,   \* values of duration_seconds; 0 counts as missing
          MaxVideos    \* videos added to the collection

ASSUME ManifestAssumption ==
    /\ Durations \subseteq Nat
    /\ 0 \in Durations

VARIABLES
    duration,   \* duration_seconds of each object
    given,      \* the fields of each object that are filled in, in whole
    creator,    \* the collection builder's creator: none, or with a username or not
    videos,     \* the array of the collection builder
    manifest,   \* the last built manifest, besides its array
    hash        \* its hash

manifestVars == <<duration, given, creator, videos, manifest, hash>>

NoManifest == [creator |-> "none", total_videos |-> 0, total_duration_seconds |-> 0]

\* The videos as JSON shows them: whatever the objects hold now.
VideosNow == [i \in 1 .. Len(videos) |-> [video_id |-> videos[i],
                                          duration_seconds |-> duration[videos[i]],
                                          given |-> given[videos[i]]]]

JsonOf(m) == [videos |-> VideosNow, creator |-> m.creator, total_videos |-> m.total_videos,
              total_duration_seconds |-> m.total_duration_seconds]

SumOf(vs) == SumOver([i \in DOMAIN vs |-> vs[i].duration_seconds], DOMAIN vs)

ManifestInit ==
    /\ duration = [v \in Videos |-> 0]
    /\ given = [v \in Videos |-> {}]
    /\ creator = "none"
    /\ videos = <<>>
    /\ manifest = NoManifest
    /\ hash = JsonOf(NoManifest)

Built == manifest # NoManifest

(* VideoMetadataBuilder.setDuration, before its build() or after. *)
SetDuration(v, seconds) ==
    /\ duration' = [duration EXCEPT ![v] = seconds]
    /\ UNCHANGED <<given, creator, videos, manifest, hash>>

(* setRecordedAt, setPerformer, setTechnicalSpecs: with a value that validation *)
(* accepts, or with one it does not, such as "" or specs without a resolution.  *)
SetField(v, field) ==
    /\ \E value \in {{}, {field}} :
          given' = [given EXCEPT ![v] = (@ \ {field}) \cup value]
    /\ UNCHANGED <<duration, creator, videos, manifest, hash>>

(* CollectionManifestBuilder.setCreator *)
SetCreator ==
    /\ creator' \in {"named", "unnamed"}
    /\ UNCHANGED <<duration, given, videos, manifest, hash>>

(* addVideo, addVideos *)
AddVideo(v) ==
    /\ Len(videos) < MaxVideos
    /\ videos' = Append(videos, v)
    /\ UNCHANGED <<duration, given, creator, manifest, hash>>

TotalDuration_Kept ==
    IF Built THEN manifest.total_duration_seconds ELSE SumOf(VideosNow)

\* The reduce over the videos' durations.
TotalDuration == SumOf(VideosNow)

(* buildWithHash: build, which throws without a creator or a video, and the hash. *)
BuildWithHash ==
    /\ creator # "none"
    /\ videos # <<>>
    /\ manifest' = [creator |-> creator, total_videos |-> Len(videos),
                    total_duration_seconds |-> TotalDuration]
    /\ hash' = JsonOf(manifest')
    /\ UNCHANGED <<duration, given, creator, videos>>

ManifestNext ==
    \/ \E v \in Videos : \/ \E seconds \in Durations : SetDuration(v, seconds)
                         \/ \E field \in Fields : SetField(v, field)
                         \/ AddVideo(v)
    \/ SetCreator
    \/ BuildWithHash

ManifestSpec == ManifestInit /\ [][ManifestNext]_manifestVars

----------------------------------------------------------------------------
(* The reader: verifyManifestHash, and validateCollectionManifest.  It may be *)
(* given the manifest as it is serialised at any moment.                      *)

Published == JsonOf(manifest)

VerifyManifestHash(json) == json = hash

ContentIsComplete(json) ==
    /\ json.creator = "named"
    /\ \A i \in DOMAIN json.videos : /\ json.videos[i].duration_seconds # 0
                                     /\ json.videos[i].given = Fields

HasTrueTotals(json) ==
    /\ json.total_videos = Len(json.videos)
    /\ json.total_duration_seconds = SumOf(json.videos)

ValidManifest(json) ==
    json.videos # <<>> /\ ContentIsComplete(json) /\ HasTrueTotals(json)

----------------------------------------------------------------------------
(* Properties *)

\* At whatever moment a built manifest is published, if it verifies against the hash
\* that buildWithHash took then all that validation can find wrong in it are fields
\* that were empty when the hash was taken: although the array and the videos change
\* under the manifest, its totals are never wrong unnoticed.
VerifiedLacksOnlyFields ==
    Built /\ VerifyManifestHash(Published) =>
        (ValidManifest(Published) <=> ContentIsComplete(Published))

=============================================================================
