---------------------------- MODULE Certificate ----------------------------
(***************************************************************************)
(* The certificate: minted into a scratch directory, gated, copied file by *)
(* file into a published directory, gated again for what a stranger may    *)
(* see, and logged in the mint ledger (bench/certificate: mint/mint.sh,    *)
(* guard/*.py, ledger/ledger.py).  A copy that fails does not stop the     *)
(* script, which runs without -e and puts no `die' behind either cp.  The  *)
(* release gate and the ledger's verify are two separate programs; each    *)
(* reads only the published bytes.                                         *)
(*                                                                         *)
(* A mint is a number; `mint' fields say which mint wrote a piece.  Two    *)
(* mints never render the same CERTIFICATE.md, so a mint number stands for *)
(* the digest of its text too.                                             *)
(***************************************************************************)
EXTENDS Naturals, Sequences, FiniteSets, SequencesExt

CONSTANTS
    RequiredTables,      \* platforms a release needs a bundle of
    Sub,           \* per-platform directories under the artifact root
    Layers,        \* rostered layers with a header and a sidecar
    MayDegrade,    \* those a mint can leave out without dying
    Claims,        \* retired claims no certificate may carry
    Need, KnownDigests,   \* tools that must be pinned; tools that may be named
    ToolLists,     \* tool-versions.txt files a mint can write
    Corpora,       \* corpora a mint can be pointed at
    Declared,      \* corpus.toml: id -> [roots, sha, allow]
    MaxMints,
    MaxFailedCopies,   \* copies that fail, in all mints
    NoTable         \* no such file

Flat == "flat"
PlaceTable == Sub \cup {Flat}

ASSUME CertificateAssumption ==
    /\ MayDegrade \subseteq Layers
    /\ Need \subseteq KnownDigests
    /\ Flat \notin Sub
    /\ MaxMints \in Nat /\ MaxFailedCopies \in Nat

VARIABLES
    out,           \* the scratch bundle, never emptied between mints
    pub,           \* place -> published bundle
    complete,         \* place -> the last bundle whose publish finished (git)
    ledger,        \* rows of ledger.jsonl, in the order recorded
    step,          \* where the running mint is; "idle" between mints
    run,           \* where it publishes, the system it runs on, and whether a copy failed
    due,           \* sidecars it has still to copy
    mints,         \* mints begun
    copyFailures,  \* history: copies that failed
    short          \* history: places a copy failed to reach, and no whole publish since

certVars == <<out, pub, complete, ledger, step, run, due, mints, copyFailures, short>>

(***************************************************************************)
(* A bundle: each required file or NoTable and sidecar -> mint that wrote  *)
(* it (0: no such file; CutShort: a file no mint wrote whole).             *)
(***************************************************************************)
EmptyTree == [cert |-> NoTable, machine |-> NoTable, tools |-> NoTable, manifest |-> NoTable,
              sides |-> [l \in Layers |-> 0]]
Files == {"cert", "machine", "tools", "manifest"}
Holds(piece) == piece # NoTable
CutShort == MaxMints + 1

CertificateInit ==
    /\ out = EmptyTree
    /\ pub = [d \in PlaceTable |-> EmptyTree]
    /\ complete = pub
    /\ ledger = <<>>
    /\ step = "idle"
    /\ run \in [to : {Flat}, os : RequiredTables, missed : {FALSE}]
    /\ due = {} /\ copyFailures = 0 /\ short = {}
    /\ mints = 0

(***************************************************************************)
(* guard/artifacts.py: when a bundle is well formed and complete.          *)
(* A tool line is <<tool, tokens>>, a token [kind, id].                    *)
(***************************************************************************)
Digests(line) == {t.id : t \in {u \in Range(line[2]) : u.kind = "sha"}}
ToolsPinned(lines) ==
    /\ \A i \in DOMAIN lines :
          /\ lines[i][2] # <<>>
          /\ \A t \in Range(lines[i][2]) : t.kind \in {"semver", "sha"}
    /\ \A i, j \in DOMAIN lines : i # j =>
          /\ lines[i][1] # lines[j][1]
          /\ Digests(lines[i]) \cap Digests(lines[j]) = {}
    /\ Need \subseteq {lines[i][1] : i \in DOMAIN lines}
    /\ {lines[i][1] : i \in DOMAIN lines} \subseteq KnownDigests

FileBytes(rows) == FoldLeft(LAMBDA sum, row : sum + row.size, 0, rows)
ManifestAgrees(rows, machine) ==
    /\ rows # <<>>
    /\ \A i, j \in DOMAIN rows : i # j => rows[i].path # rows[j].path
    /\ machine.files = Len(rows) /\ machine.bytes = FileBytes(rows)

LayersUnspliced(b) ==
    /\ \A l \in Layers : b.sides[l] # 0
    /\ b.cert.claims \cap Claims = {}

\* a header in the text and a sidecar beside it, each demanded on its own
LayersShipped(b) ==
    /\ \A l \in Layers : b.sides[l] # 0
    /\ b.cert.layers = Layers
    /\ b.cert.claims \cap Claims = {}

Valid(b) ==
    /\ \A f \in Files : Holds(b[f])
    /\ ToolsPinned(b.tools.lines)
    /\ ManifestAgrees(b.manifest.rows, b.machine)
    /\ LayersShipped(b)

(***************************************************************************)
(* guard/publish.py: what entering git adds (--public-safe).  A path is    *)
(* judged by the prefix it starts with; a root that leaves the repository  *)
(* is under no allowed prefix.                                             *)
(***************************************************************************)
PublicSafe(b) ==
    /\ b.machine.corpus \in DOMAIN Declared
    /\ LET c == Declared[b.machine.corpus] IN
       /\ b.machine.roots = c.roots
       /\ c.sha # "" => b.machine.sha = c.sha
       /\ \A i \in DOMAIN b.manifest.rows : b.manifest.rows[i].under \in c.allow
    /\ ~b.cert.leaks /\ ~b.machine.leaks

(***************************************************************************)
(* The ledger.  read_mint of a place gives the row it would record;        *)
(* `known' is every digest ever recorded.                                  *)
(***************************************************************************)
PlatformOf(b) == IF Holds(b.machine) THEN b.machine.os ELSE "unknown"
TableRow(b, hand) == [digest |-> b.cert.mint, platform |-> PlatformOf(b),
                      layers |-> b.cert.layers, hand |-> hand]
Recorded(b) == \E i \in DOMAIN ledger : ledger[i].digest = b.cert.mint
Append1(b, hand) == IF Recorded(b) THEN ledger ELSE Append(ledger, TableRow(b, hand))
Bundles == {d \in PlaceTable : Holds(pub[d].cert)}
VerifyTables == Bundles # {} /\ \A d \in Bundles : Recorded(pub[d])

(***************************************************************************)
(* guard/release.py: an explicit directory wins over the flat one.         *)
(***************************************************************************)
Carries(p) == {d \in PlaceTable : Holds(pub[d].machine) /\ pub[d].machine.os = p}
ChosenFor(p) == IF Carries(p) \cap Sub # {} THEN CHOOSE d \in Carries(p) \cap Sub : TRUE ELSE Flat
ReleaseGate == \A p \in RequiredTables : Carries(p) # {} /\ Valid(pub[ChosenFor(p)])

(***************************************************************************)
(* mint/mint.sh.  The text is begun anew by every mint; each layer's lane  *)
(* splices its section and writes its sidecar, or the mint dies.           *)
(***************************************************************************)
\* the files are published in this order, then judged
CopiedCertLast == <<"machine", "tools", "manifest", "sides", "cert", "gate">>
Copied == <<"cert", "machine", "tools", "manifest", "sides", "gate">>

BeginRun ==
       /\ step = "idle" /\ mints < MaxMints
       /\ mints' = mints + 1 /\ step' = "lanes"
       /\ run' \in [to : PlaceTable, os : RequiredTables, missed : {FALSE}]
       /\ \E leaks \in BOOLEAN, claims \in {{}, Claims} :
             out' = [out EXCEPT !.cert = [mint |-> mints', layers |-> {},
                                          claims |-> claims, leaks |-> leaks]]
       /\ UNCHANGED <<pub, complete, ledger, due, copyFailures, short>>

Lanes ==
    /\ step = "lanes"
    /\ \E ran \in SUBSET Layers :
          /\ Layers \ ran \subseteq MayDegrade
          /\ out' = [out EXCEPT !.cert.layers = ran,
                                !.sides = [l \in Layers |-> IF l \in ran THEN mints ELSE @[l]]]
    /\ step' = "provenance"
    /\ UNCHANGED <<pub, complete, ledger, run, due, mints, copyFailures, short>>

ProvenanceOf ==
      /\ step = "provenance"
      /\ \E c \in Corpora, lines \in ToolLists :
            out' = [out EXCEPT
                !.tools = [mint |-> mints, lines |-> lines],
                !.manifest = [mint |-> mints, rows |-> c.rows],
                !.machine = [mint |-> mints, os |-> run.os, corpus |-> c.id, roots |-> c.roots,
                             sha |-> c.sha, files |-> Len(c.rows), bytes |-> FileBytes(c.rows),
                             leaks |-> c.leaks]]
      /\ step' = IF Valid(out') THEN Copied[1] ELSE "idle"
      /\ due' = IF Valid(out') THEN Layers ELSE {}
      /\ UNCHANGED <<pub, complete, ledger, run, mints, copyFailures, short>>

(***************************************************************************)
(* Publishing, in the order of the copies; then the gate; then the record. *)
(***************************************************************************)
After(f) == Copied[1 + CHOOSE i \in DOMAIN Copied : Copied[i] = f]

\* the next copy fails, and the script goes on
CopyFails ==
    /\ copyFailures < MaxFailedCopies
    /\ copyFailures' = copyFailures + 1
    /\ run' = [run EXCEPT !.missed = TRUE]
    /\ short' = short \cup {run.to}

\* A required file is copied, or the copy fails and leaves the older file, or
\* none: `cp -f' removes what it cannot open, and one cut short is no file the
\* gate can read.
CopyOut ==
       /\ step \in Files
       /\ \/ /\ pub' = [pub EXCEPT ![run.to][step] = out[step]]
             /\ UNCHANGED <<run, copyFailures, short>>
          \/ /\ CopyFails
             /\ \E older \in {pub[run.to][step], NoTable} :
                   pub' = [pub EXCEPT ![run.to][step] = older]
       /\ step' = After(step)
       /\ UNCHANGED <<out, complete, ledger, due, mints>>

\* the sidecars of the roster, one after the other; one cut short is a file
CopySide ==
       /\ step = "sides" /\ due # {}
       /\ LET l == CHOOSE l \in due : TRUE IN
          /\ \/ /\ pub' = [pub EXCEPT ![run.to].sides[l] = out.sides[l]]
                /\ UNCHANGED <<run, copyFailures, short>>
             \/ /\ CopyFails
                /\ \E older \in {pub[run.to].sides[l], 0, CutShort} :
                      pub' = [pub EXCEPT ![run.to].sides[l] = older]
          /\ due' = due \ {l}
       /\ step' = IF due' = {} THEN After(step) ELSE step
       /\ UNCHANGED <<out, complete, ledger, mints>>

Gate ==
    /\ step = "gate"
    /\ step' = IF Valid(pub[run.to]) /\ PublicSafe(pub[run.to]) THEN "record" ELSE "idle"
    /\ UNCHANGED <<out, pub, complete, ledger, run, due, mints, copyFailures, short>>

Record ==
    /\ step = "record"
    /\ ledger' = Append1(pub[run.to], FALSE)
    /\ complete' = [complete EXCEPT ![run.to] = pub[run.to]]
    /\ short' = IF run.missed THEN short ELSE short \ {run.to}
    /\ step' = "idle"
    /\ UNCHANGED <<out, pub, run, due, mints, copyFailures>>

\* a lane fails, the roster cannot be read, a signal: the script stops where it is
Crash ==
      /\ step # "idle"
      /\ step' = "idle" /\ due' = {}
      /\ UNCHANGED <<out, pub, complete, ledger, run, mints, copyFailures, short>>

\* `ledger.py record' by hand: any bundle on disk, gated by nothing
RecordByHand(d) ==
    /\ step = "idle" /\ d \in Bundles /\ ~Recorded(pub[d])
    /\ ledger' = Append1(pub[d], TRUE)
    /\ UNCHANGED <<out, pub, complete, step, run, due, mints, copyFailures, short>>

\* save() rewrites ledger.jsonl in place; a write cut short loses the tail
Torn ==
    /\ step = "idle" /\ ledger # <<>>
    /\ ledger' = Front(ledger)
    /\ UNCHANGED <<out, pub, complete, step, run, due, mints, copyFailures, short>>

\* the directory is checked out as it was when its last publish finished
Revert(d) ==
    /\ step = "idle" /\ pub[d] # complete[d]
    /\ pub' = [pub EXCEPT ![d] = complete[d]]
    /\ UNCHANGED <<out, complete, ledger, step, run, due, mints, copyFailures, short>>

CertificateNext ==
    \/ BeginRun \/ Lanes \/ ProvenanceOf \/ CopyOut \/ CopySide \/ Gate \/ Record \/ Crash \/ Torn
    \/ \E d \in PlaceTable : RecordByHand(d) \/ Revert(d)

CertificateSpec == CertificateInit /\ [][CertificateNext]_certVars

HandEdit(b) == \E i \in DOMAIN ledger : ledger[i].digest = b.cert.mint /\ ledger[i].hand
OneMint(b) ==
    /\ \A f \in Files : b[f].mint = b.cert.mint
    /\ \A l \in Layers : b.sides[l] = b.cert.mint

\* A release that passes both gates - the release gate and the ledger's verify -
\* rests, on every platform, on a bundle whose every piece was written by one
\* mint, over a declared corpus: the mint may have died between two copies, a
\* lane may have left an older sidecar in the scratch directory, a failed
\* publish gate leaves its bundle in the published directory, the ledger may
\* have lost rows and a directory may have been rolled back.  Two things alone
\* can hide another bundle from them: a row recorded by hand, and a copy that
\* failed on its way to this place, until a mint publishes there whole.
ReleaseAttested ==
    (ReleaseGate /\ VerifyTables) => \A p \in RequiredTables :
            LET b == pub[ChosenFor(p)] IN
            HandEdit(b) \/ ChosenFor(p) \in short \/ (OneMint(b) /\ PublicSafe(b))
=============================================================================
