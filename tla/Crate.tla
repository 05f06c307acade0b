-------------------------------- MODULE Crate --------------------------------
(***************************************************************************)
(* tools/recover_crate.py: a crate too large for the registry's quota is   *)
(* compressed again and uploaded, once, as the same tar stream.            *)
(*                                                                         *)
(* A crate file is how its gzip member ends, how large it is, and the tar  *)
(* inside; a tar is what its members and its manifest say.  The            *)
(* compressor, the network and the registry are external.                  *)
(***************************************************************************)
EXTENDS Naturals, FiniteSets

CONSTANTS MaxUploads   \* bound: calls of upload_verified

ASSUME CrateAssumption == MaxUploads \in Nat

(* What a tar may hold: its members, its package, the commit it says it    *)
(* was packed from, its dependencies, its README.                          *)
Tars == [members : {"plain", "unsafe path", "duplicate", "link", "outside", "no trailer"},
         package : {"tagged", "other", "workspace"},
         vcs     : {"tagged", "dirty", "other commit"},
         deps    : {"plain", "renamed", "path", "other registry", "odd version"},
         readme  : {"none", "there", "missing"}]

Good == [members |-> "plain", package |-> "tagged", vcs |-> "tagged",
         deps |-> "plain", readme |-> "there"]

(* The tars tried: at most one part is not as it should be.                *)
Tried == {t \in Tars : Cardinality({k \in DOMAIN Good : t[k] # Good[k]}) <= 1}

Crates == [gzip : {"one member", "torn", "two members", "too long"}, tar : Tried, small : BOOLEAN]

NoCrate == [nothing |-> TRUE]

VARIABLES original,   \* the crate that was too large
          packed,     \* its recompression: given, or the compressor's
          prepared,   \* what prepare returned: the metadata, or None
          publishedCrate,  \* what the registry holds under this name and version
          uploads,    \* calls of upload_verified
          sent,       \* bodies the last call put on the wire
          heard       \* what the last call told its caller

crateVars == <<original, packed, prepared, publishedCrate, uploads, sent, heard>>

---------------------------------------------------------------------------
(* gunzip: one whole member, within the limit.                             *)
Inflates(crate) == crate.gzip = "one member"

(* safe_path and members_from_tar.                                         *)
SafePath(tar) == tar.members # "unsafe path"
ReadsWhole(tar) == SafePath(tar) /\ tar.members \notin {"duplicate", "link", "outside", "no trailer"}

(* version_req and dependencies: what Cargo would send, or refused; a       *)
(* renamed package goes under its own name.                                *)
VersionReq(tar) == tar.deps # "odd version"
Dependencies(tar) == VersionReq(tar) /\ tar.deps \notin {"path", "other registry"}

(* metadata_from_members: the tagged package, from the clean tagged commit.*)
Metadata(tar) == IF /\ tar.package = "tagged" /\ tar.vcs = "tagged"
                    /\ Dependencies(tar) /\ tar.readme # "missing"
                 THEN tar ELSE NoCrate

(* frame_upload's lengths are within their fields for every crate within   *)
(* the quota.                                                              *)
Framed(metadata, crate) == [tar |-> crate.tar, metadata |-> metadata, small |-> crate.small]

(* prepare: the recompression must inflate to the very bytes verified.     *)
SameTar(from, to) == Inflates(to) /\ to.tar = from.tar

Prepare(from, to) ==
  IF Inflates(from) /\ ReadsWhole(from.tar) /\ Metadata(from.tar) # NoCrate
     /\ SameTar(from, to) /\ to.small
  THEN Metadata(from.tar) ELSE NoCrate

---------------------------------------------------------------------------
CrateInit ==
  /\ original \in Crates
  /\ packed \in {c \in Crates : c.tar \in {original.tar, [original.tar EXCEPT !.vcs = "dirty"], Good}}
  /\ prepared = NoCrate /\ publishedCrate = NoCrate
  /\ uploads = 0 /\ sent = 0 /\ heard = "nothing"

Main == /\ prepared = NoCrate /\ uploads = 0
        /\ prepared' = Prepare(original, packed) /\ prepared' # NoCrate
        /\ UNCHANGED <<original, packed, publishedCrate, uploads, sent, heard>>

(* Prepared is frozen, the dictionary of metadata in it is not.            *)
Alter == /\ prepared # NoCrate /\ uploads = 0
         /\ \E t \in Tried : t # prepared /\ prepared' = t
         /\ UNCHANGED <<original, packed, publishedCrate, uploads, sent, heard>>

(* Public bytes and metadata are validated again right before the request. *)
Revalidated == Prepare(original, packed) # NoCrate /\ Prepare(original, packed) = prepared

(* upload_verified: one request; a redirect is not followed, an answer     *)
(* that is lost, malformed or an error is never tried again.               *)
Upload ==
  /\ prepared # NoCrate /\ uploads < MaxUploads
  /\ uploads' = uploads + 1
  /\ IF ~Revalidated
     THEN sent' = 0 /\ heard' = "refused" /\ UNCHANGED publishedCrate
     ELSE /\ sent' = 1
          /\ \E arrives \in BOOLEAN, answer \in {"lost", "redirect", "rejected", "garbled", "done"} :
                /\ answer \in {"rejected", "redirect"} => ~arrives
                /\ answer = "done" => arrives /\ publishedCrate = NoCrate
                /\ publishedCrate' = IF arrives /\ publishedCrate = NoCrate
                                     THEN Framed(prepared, packed) ELSE publishedCrate
                /\ heard' = CASE answer = "done" -> "published"
                              [] answer = "rejected" -> "rejected"
                              [] OTHER -> "inspect the registry"
  /\ UNCHANGED <<original, packed, prepared>>

CrateNext == Main \/ Alter \/ Upload

---------------------------------------------------------------------------
(* Whatever reaches the registry is the tar that was verified, under its   *)
(* own metadata, from the clean tagged commit and within the quota,        *)
(* whatever the caller did to what it was handed; success is reported only *)
(* when the registry has it, a refusal only when nothing was sent, and a   *)
(* call sends at most one body (recover_crate.py 322-426).                 *)
UploadVerified ==
  /\ publishedCrate # NoCrate =>
             /\ publishedCrate.tar = original.tar /\ publishedCrate.metadata = original.tar /\ publishedCrate.small
             /\ publishedCrate.tar.vcs = "tagged" /\ publishedCrate.tar.package = "tagged"
             /\ publishedCrate.tar.members = "plain"
  /\ heard = "published" => publishedCrate # NoCrate
  /\ heard = "refused" => sent = 0
  /\ sent <= 1
=============================================================================
