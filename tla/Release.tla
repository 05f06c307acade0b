------------------------------- MODULE Release -------------------------------
(***************************************************************************)
(* The committed build output of a release, who refreshes it and what      *)
(* gates it: the vendor_libraries.py of the Go and of the Rust binding,    *)
(* tools/archives.py, tools/mint_artifacts.py, tools/version_parity.py and *)
(* quality/parity/check.py.                                                *)
(*                                                                         *)
(* The tree moves under edits and the release bot.  An archive is the ABI  *)
(* and the version it was built at, whether it holds the C floor, and      *)
(* whether it links as its consumer will link it.  What Zig, the linker    *)
(* and the resolvers yield is chosen.                                      *)
(***************************************************************************)
EXTENDS Naturals, Sequences, FiniteSets

CONSTANTS Platform,   \* MATRIX of a vendoring script
          Mirror,     \* files with an x-release-please-version line
          MaxHeaderMoves    \* bound: edits and bumps of the tree

ASSUME ReleaseAssumption == MaxHeaderMoves \in Nat

Bindings == {"go", "rust"}
NoHeader  == [abi |-> 0, version |-> 0]

VARIABLES headerTree,      \* the ABI the source exports, and the declared version
          header,    \* the ABI include/irgx.h declares, and its structs
          vendored,      \* the structs of bindings/go/irgx.h
          tagNames,     \* tagNames[b]: the ABI the sources of binding b reach
          archive,   \* archive[b][p]: the committed static library
          linkfile,  \* linkfile[b]: the libraries its consumers link are the matrix's
          mirror,    \* mirror[f]: the version its marked line says
          manifested,    \* extra-files the bot rewrites
          corpora, lockfile, \* the version the oracle corpus and the lockfile record
          built,     \* the version of zig-out/lib, 0 when nothing is built
          chores,    \* what a running mint has left to do, last the second look
          green,     \* checks passed since the tree last changed
          headerMoves      \* edits and bumps so far

treeVars    == <<headerTree, header, tagNames, linkfile, mirror, manifested, headerMoves>>
outputVars  == <<vendored, archive, corpora, lockfile>>
releaseVars == <<treeVars, outputVars, built, chores, green>>

Archive(abi, version) == [abi |-> abi, version |-> version, floor |-> TRUE, links |-> TRUE]

ReleaseInit ==
  /\ headerTree = [abi |-> 1, version |-> 1] /\ header = [abi |-> 1, structs |-> 1] /\ vendored = 1
  /\ tagNames = [b \in Bindings |-> 1]
  /\ archive = [b \in Bindings |-> [p \in Platform |-> Archive(1, 1)]]
  /\ linkfile = [b \in Bindings |-> TRUE]
  /\ mirror = [f \in Mirror |-> 1] /\ manifested = Mirror
  /\ corpora = 1 /\ lockfile = 1 /\ built = 0
  /\ chores = <<>> /\ green = {} /\ headerMoves = 0

---------------------------------------------------------------------------
(* What changes the tree.                                                  *)
Moved == /\ chores = <<>> /\ headerMoves < MaxHeaderMoves
         /\ headerMoves' = headerMoves + 1 /\ green' = {}

(* The bot rewrites the version and every mirror it was told of.           *)
Bump == /\ Moved
        /\ headerTree' = [headerTree EXCEPT !.version = @ + 1]
        /\ mirror' = [f \in Mirror |-> IF f \in manifested THEN headerTree.version + 1 ELSE mirror[f]]
        /\ UNCHANGED <<outputVars, header, tagNames, linkfile, manifested, built, chores>>

(* A symbol is exported; the header and the bindings follow or do not.     *)
Export(declares, binds) ==
  /\ Moved
  /\ headerTree' = [headerTree EXCEPT !.abi = @ + 1]
  /\ header' = IF declares THEN [header EXCEPT !.abi = headerTree.abi + 1] ELSE header
  /\ tagNames' = [b \in Bindings |-> IF b \in binds THEN headerTree.abi + 1 ELSE tagNames[b]]
  /\ UNCHANGED <<outputVars, linkfile, mirror, manifested, built, chores>>

Grow == /\ Moved /\ header' = [header EXCEPT !.structs = @ + 1]
        /\ UNCHANGED <<outputVars, headerTree, tagNames, linkfile, mirror, manifested, built, chores>>

(* Somebody edits the link file of a binding, or the bot's list.           *)
Relink(b) == /\ Moved /\ linkfile' = [linkfile EXCEPT ![b] = ~@]
             /\ UNCHANGED <<outputVars, headerTree, header, tagNames, mirror, manifested, built, chores>>
Unlist(f) == /\ Moved /\ f \in manifested /\ manifested' = manifested \ {f}
             /\ UNCHANGED <<outputVars, headerTree, header, tagNames, linkfile, mirror, built, chores>>

ZigBuild == /\ chores = <<>> /\ built' = headerTree.version
            /\ UNCHANGED <<treeVars, outputVars, chores, green>>

---------------------------------------------------------------------------
(* reuse_archive: an export that is missing or of another version is       *)
(* refused, one of an older source with the same version is not.           *)
Reusable(made) == made.version = headerTree.version

(* A fault: the archive is committed before it is proved to link.          *)
CommittedFirst(made) == made.floor
(* build: the C floor must be in it, and the probe must link.              *)
Committed(made) == made.floor /\ made.links

(* What a target's build, or the release workflow's export, may hand over. *)
Products(export) ==
  {made \in [abi : IF export THEN 1..headerTree.abi ELSE {headerTree.abi},
             version : IF export THEN 1..headerTree.version ELSE {headerTree.version},
             floor : BOOLEAN, links : BOOLEAN] : export => Reusable(made)}

(* main: link files are held to the matrix first; the chosen targets are   *)
(* then refreshed one after the other until one fails.                     *)
Refresh(b, chosen, export, ok) ==
  \E done \in SUBSET chosen :
     /\ ok <=> (linkfile[b] /\ done = chosen)
     /\ ~linkfile[b] => done = {}
     /\ \E made \in [done -> Products(export)] :
          /\ \A p \in done : Committed(made[p])
          /\ archive' = [archive EXCEPT ![b] =
                [p \in Platform |-> IF p \in done THEN made[p] ELSE @[p]]]
     /\ vendored' = IF b = "go" /\ done # {} THEN header.structs ELSE vendored

(* By hand: some targets, or from the export.                              *)
Vendor(b, chosen, export) ==
  /\ chores = <<>>
  /\ \E ok \in BOOLEAN : Refresh(b, chosen, export, ok)
  /\ green' = {}
  /\ UNCHANGED <<treeVars, corpora, lockfile, built, chores>>

---------------------------------------------------------------------------
(* mint_artifacts: what describes another version than this tree's.        *)
BehindArchives(b) == \E p \in Platform : archive[b][p].version # headerTree.version

Stale == (IF BehindArchives("go") THEN <<"go">> ELSE <<>>)
         \o (IF BehindArchives("rust") THEN <<"rust">> ELSE <<>>)
         \o (IF corpora # headerTree.version THEN <<"corpus">> ELSE <<>>)
         \o (IF lockfile # headerTree.version THEN <<"lock">> ELSE <<>>)

(* --check, and a mint with nothing to do.                                 *)
MintCheck == /\ chores = <<>>
             /\ green' = IF Stale = <<>> THEN green \cup {"mint"} ELSE green \ {"mint"}
             /\ UNCHANGED <<treeVars, outputVars, built, chores>>

Mint == /\ chores = <<>> /\ Stale # <<>>
        /\ chores' = Append(Stale, "again")
        /\ green' = {}
        /\ UNCHANGED <<treeVars, outputVars, built>>

(* One chore's command; the first that fails ends the mint.  A corpus is   *)
(* generated against this tree's own library, and refused without one.     *)
Chore(b) ==
  /\ chores # <<>> /\ Head(chores) = b
  /\ \E ok \in BOOLEAN :
       /\ chores' = IF ok THEN Tail(chores) ELSE <<>>
       /\ CASE b \in Bindings -> /\ Refresh(b, Platform, FALSE, ok)
                                 /\ UNCHANGED <<corpora, lockfile>>
            [] b = "corpus"   -> /\ ok => built # 0
                                 /\ corpora' = IF ok THEN built ELSE corpora
                                 /\ UNCHANGED <<vendored, archive, lockfile>>
            [] OTHER          -> /\ lockfile' = IF ok THEN mirror["manifest"] ELSE lockfile
                                 /\ UNCHANGED <<vendored, archive, corpora>>
  /\ UNCHANGED <<treeVars, built, green>>

(* Asked again rather than assumed.                                        *)
Settled == Stale = <<>>

AskRelease == /\ chores = <<"again">> /\ chores' = <<>>
              /\ green' = IF Settled THEN {"mint"} ELSE {}
              /\ UNCHANGED <<treeVars, outputVars, built>>

---------------------------------------------------------------------------
(* version_parity: no mirror says another version, and the bot knows all.  *)
VersionsAgree == (\A f \in Mirror : mirror[f] = headerTree.version) /\ Mirror \subseteq manifested

(* audit: the header declares the ABI, every binding reaches it, the copy  *)
(* declares the header's structs, and every archive holds the ABI and      *)
(* spells the version.                                                     *)
StaleHeader == vendored # header.structs
StaleArchive(b, p) == archive[b][p].abi < headerTree.abi
StaleStamp(b, p) == archive[b][p].version # headerTree.version

Audit == /\ header.abi = headerTree.abi
         /\ \A b \in Bindings : tagNames[b] = headerTree.abi
         /\ ~StaleHeader
         /\ \A b \in Bindings, p \in Platform : ~StaleArchive(b, p) /\ ~StaleStamp(b, p)

CheckTree(gate, passes) == /\ chores = <<>>
                           /\ green' = IF passes THEN green \cup {gate} ELSE green \ {gate}
                           /\ UNCHANGED <<treeVars, outputVars, built, chores>>

ReleaseNext ==
  \/ Bump \/ Grow \/ ZigBuild
  \/ \E declares \in BOOLEAN, binds \in SUBSET Bindings : Export(declares, binds)
  \/ \E b \in Bindings : Relink(b)
  \/ \E f \in Mirror : Unlist(f)
  \/ \E b \in Bindings, chosen \in SUBSET Platform, export \in BOOLEAN : Vendor(b, chosen, export)
  \/ MintCheck \/ Mint \/ AskRelease
  \/ \E b \in Bindings \cup {"corpus", "lock"} : Chore(b)
  \/ CheckTree("versions", VersionsAgree) \/ CheckTree("parity", Audit)

---------------------------------------------------------------------------
(* What is released together is of one version and closes: when the mint   *)
(* and both gates have passed on a tree that has not changed since, every  *)
(* mirror, archive, corpus and lockfile is of the declared version, every  *)
(* consumer's library holds the ABI the header declares and its binding    *)
(* reaches, Go compiles the structs the header publishes, and an           *)
(* archive that ever was committed holds its floor and was proved to link  *)
(* (mint_artifacts.py 188-235, check.py 509-569, vendor_libraries.py).     *)
ReleaseCurrent ==
  /\ green = {"mint", "versions", "parity"} =>
       /\ \A f \in Mirror : mirror[f] = headerTree.version /\ f \in manifested
       /\ corpora = headerTree.version /\ lockfile = headerTree.version
       /\ header.abi = headerTree.abi /\ vendored = header.structs
       /\ \A b \in Bindings, p \in Platform :
             /\ archive[b][p].version = headerTree.version
             /\ archive[b][p].abi = tagNames[b] /\ tagNames[b] = header.abi
  /\ \A b \in Bindings, p \in Platform : archive[b][p].floor /\ archive[b][p].links
=============================================================================
