--------------------------- MODULE VectorPipeline ---------------------------
(***************************************************************************)
(* How regenerated vectors get from the generator to the main branch: the  *)
(* generator (tools/gen) rewrites the signature file and then the qv2      *)
(* file, an editor re-points the link file, sync-vectors.sh copies all of  *)
(* vectors/ into the two packages, and CI lets a commit through.  Commands *)
(* run one at a time in one working tree and may die between two system    *)
(* calls; a commit may leave a directory out.                              *)
(*                                                                         *)
(* A file is reduced to the generation of the accept bytes it carries (the *)
(* ECDSA nonce makes every generation different) and to whether the copies *)
(* of the fragment inside it agree.                                        *)
(***************************************************************************)
EXTENDS Naturals, Sequences

CONSTANT MaxGen    \* bound on the generations made

ASSUME MaxGenAssumption == MaxGen \in Nat

\* issuer_signature_vectors.json, qv2_conformance_vectors.json,
\* crid_link_knock_v1_vectors.json, and one more that may be given up.
Files == {"sig", "qv2", "link", "extra"}
Packages == {"npm", "python"}

Whole(g) == [kind |-> "ok", gen |-> g, anchored |-> TRUE]
Torn == [kind |-> "torn", gen |-> 0, anchored |-> FALSE]
NoFile == [kind |-> "absent", gen |-> 0, anchored |-> FALSE]

FileContent == [kind : {"ok"}, gen : 0..MaxGen, anchored : BOOLEAN] \cup {Torn, NoFile}

Tree == [vectors : [Files -> FileContent], mirror : [Packages -> [Files -> FileContent]]]

VARIABLES
    tree,     \* the working tree
    command,  \* the command that runs, and how far it is: see below
    fresh,    \* the generation the generator last made
    todo,     \* the copies a running sync still has to make, in order
    exit,     \* of the last command, until somebody touches the tree again
    before,   \* the vectors when the last command started, or was undone
    check,    \* what CI is doing: idle, testing, comparing or green
    pushed,   \* the commit it looks at
    main      \* the main branch

editVars == <<tree, command, fresh, todo, exit, before>>
pipelineVars == <<editVars, check, pushed, main>>

PipelineTypeOK ==
    /\ tree \in Tree /\ pushed \in Tree /\ main \in Tree
    /\ command \in {"none", "signed", "sigOpen", "sigWritten", "qv2Open", "copying"}
    /\ fresh \in 0..MaxGen
    /\ todo \in Seq(Packages \X Files)
    /\ todo # <<>> <=> command = "copying"
    /\ exit \in {"none", "died", "gen ok", "gen failed", "sync ok"}
    /\ before \in [Files -> FileContent]
    /\ check \in {"idle", "testing", "comparing", "green"}

Published == [vectors |-> [f \in Files |-> Whole(0)],
              mirror |-> [p \in Packages |-> [f \in Files |-> Whole(0)]]]

PipelineInit ==
    /\ tree = Published /\ pushed = Published /\ main = Published
    /\ command = "none" /\ fresh = 0 /\ todo = <<>>
    /\ exit = "none" /\ before = Published.vectors
    /\ check = "idle"

----------------------------------------------------------------------------
\* One thing at a time.  CI looks at a commit of its own, so that it would
\* not notice what happens in the tree; a run that a newer push cancels is a
\* push that never was.
Free == command = "none" /\ check = "idle"

\* The generator: sign and verify, write one file, check the other, write it.

Step(label) == command' = label /\ UNCHANGED <<check, pushed, main, todo>>

Ends(status) == Step("none") /\ exit' = status /\ UNCHANGED <<fresh, before>>

Writes(f, content) == tree' = [tree EXCEPT !.vectors[f] = content]

Sign == /\ Free /\ fresh < MaxGen
        /\ fresh' = fresh + 1
        /\ before' = tree.vectors
        /\ exit' = "none"
        /\ Step("signed")
        /\ UNCHANGED tree

\* os.WriteFile truncates, then writes.
OpenSig == /\ command = "signed"
           /\ Writes("sig", Torn)
           /\ Step("sigOpen") /\ UNCHANGED <<fresh, exit, before>>

WriteSig == /\ command = "sigOpen"
            /\ Writes("sig", Whole(fresh))
            /\ Step("sigWritten") /\ UNCHANGED <<fresh, exit, before>>

\* The qv2 file parses, and its fragment, transport and legacy fixtures carry
\* one canonical fragment the expected number of times.
Replaceable(content) == content.kind = "ok" /\ content.anchored

Refuse == /\ command = "sigWritten"
          /\ ~Replaceable(tree.vectors["qv2"])
          /\ Ends("gen failed") /\ UNCHANGED tree

OpenQv2 == /\ command = "sigWritten"
           /\ Replaceable(tree.vectors["qv2"])
           /\ Writes("qv2", Torn)
           /\ Step("qv2Open") /\ UNCHANGED <<fresh, exit, before>>

\* (a slip: the bytes that were read are written back)
WriteQv2_Unreplaced == /\ command = "qv2Open"
                       /\ Writes("qv2", before["qv2"])
                       /\ Ends("gen ok")

WriteQv2 == /\ command = "qv2Open"
            /\ Writes("qv2", Whole(fresh))
            /\ Ends("gen ok")

----------------------------------------------------------------------------
\* sync-vectors.sh: empty both mirrors, then copy every file into each.

Present(t) == {f \in Files : t.vectors[f].kind # "absent"}

Emptied == [p \in Packages |-> [f \in Files |-> NoFile]]

IfPresent(t, f) == IF f \in Present(t) THEN <<f>> ELSE <<>>

\* The files there are, in the order of vectors/*.json.
Glob(t) == IfPresent(t, "link") \o IfPresent(t, "extra")
               \o IfPresent(t, "sig") \o IfPresent(t, "qv2")

\* For each file, the copy to npm and the copy to python.
Copies(fs) == [k \in 1..(2 * Len(fs)) |->
                  <<IF k % 2 = 1 THEN "npm" ELSE "python", fs[(k + 1) \div 2]>>]

StartSync == /\ Free /\ Present(tree) # {}
             /\ tree' = [tree EXCEPT !.mirror = Emptied]
             /\ todo' = Copies(Glob(tree))
             /\ before' = tree.vectors
             /\ command' = "copying" /\ exit' = "none"
             /\ UNCHANGED <<fresh, check, pushed, main>>

Current == Head(todo)

CopyTo(content) ==
    tree' = [tree EXCEPT !.mirror[Current[1]][Current[2]] = content]

\* (a slip: the loop ends one copy early)
LastCopy_OneEarly == Len(todo) <= 2

LastCopy == Len(todo) = 1

Copy == /\ command = "copying"
        /\ CopyTo(tree.vectors[Current[2]])
        /\ todo' = Tail(todo)
        /\ IF LastCopy THEN command' = "none" /\ exit' = "sync ok"
                       ELSE UNCHANGED <<command, exit>>
        /\ UNCHANGED <<fresh, before, check, pushed, main>>

\* A command dies; a sync may die in the middle of a copy.
Dies == /\ command # "none"
        /\ \/ UNCHANGED tree
           \/ command = "copying" /\ CopyTo(Torn)
        /\ command' = "none" /\ todo' = <<>> /\ exit' = "died"
        /\ before' = tree.vectors
        /\ UNCHANGED <<fresh, check, pushed, main>>

----------------------------------------------------------------------------
\* The people.

FileEdited(f, content) ==
    /\ Free
    /\ tree.vectors[f] # content
    /\ Writes(f, content)
    /\ exit' = "none" /\ before' = tree'.vectors
    /\ UNCHANGED <<command, fresh, todo, check, pushed, main>>

Repoint == /\ tree.vectors["qv2"].kind = "ok"
           /\ FileEdited("link", Whole(tree.vectors["qv2"].gen))
GiveUp == FileEdited("extra", NoFile)
TakeUp == FileEdited("extra", Whole(0))
Unanchor == /\ tree.vectors["qv2"].kind = "ok"
            /\ FileEdited("qv2", [tree.vectors["qv2"] EXCEPT !.anchored = FALSE])

\* git checkout
Restore == /\ Free /\ tree # main
           /\ tree' = main /\ exit' = "none" /\ before' = main.vectors
           /\ UNCHANGED <<command, fresh, todo, check, pushed, main>>

\* A push, with one directory forgotten or none.
Push == /\ Free
        /\ \E missed \in {"none", "vectors"} \cup Packages :
              pushed' = [vectors |-> IF missed = "vectors" THEN main.vectors
                                                           ELSE tree.vectors,
                         mirror |-> [p \in Packages |-> IF p = missed THEN main.mirror[p]
                                                                      ELSE tree.mirror[p]]]
        /\ pushed' # main
        /\ check' = "testing"
        /\ UNCHANGED <<editVars, main>>

\* Only a green commit is merged.
Merge == /\ check = "green"
         /\ main' = pushed /\ check' = "idle"
         /\ UNCHANGED <<editVars, pushed>>

----------------------------------------------------------------------------
\* CI on the pushed commit.  A red commit is done with.

Concludes(passed, next) ==
    /\ IF passed THEN check' = next /\ UNCHANGED pushed
                 ELSE check' = "idle" /\ pushed' = main
    /\ UNCHANGED <<editVars, main>>

\* go test: every loader parses its file, the fixtures of the qv2 file share one
\* canonical fragment, it carries the claims and the signature of the signature
\* file, the link is the transport accept link.
TestsPass(t) == /\ \A f \in Files : t.vectors[f].kind # "torn"
                /\ \A f \in {"sig", "qv2", "link"} : t.vectors[f].kind = "ok"
                /\ t.vectors["qv2"].anchored
                /\ t.vectors["qv2"].gen = t.vectors["sig"].gen
                /\ t.vectors["link"].gen = t.vectors["qv2"].gen

Test == /\ check = "testing"
        /\ Concludes(TestsPass(pushed), "comparing")

\* check-sync.sh: its three complaints.
Missing(t) == \E f \in Present(t), p \in Packages : t.mirror[p][f].kind = "absent"
Drift(t) == \E f \in Present(t), p \in Packages : t.mirror[p][f] # t.vectors[f]
Orphan(t) == \E f \in Files \ Present(t), p \in Packages : t.mirror[p][f].kind # "absent"

\* (a slip: only the canonical files are walked)
InSync_NoOrphans(t) == ~Missing(t) /\ ~Drift(t)

InSync(t) == ~Missing(t) /\ ~Drift(t) /\ ~Orphan(t)

Compare == /\ check = "comparing"
           /\ Concludes(InSync(pushed), "green")

----------------------------------------------------------------------------
Generator == Sign \/ OpenSig \/ WriteSig \/ Refuse \/ OpenQv2 \/ WriteQv2
Sync == StartSync \/ Copy
People == Repoint \/ GiveUp \/ TakeUp \/ Unanchor \/ Restore \/ Push \/ Merge
CI == Test \/ Compare
PipelineNext == Generator \/ Sync \/ Dies \/ People \/ CI

PipelineSpec == PipelineInit /\ [][PipelineNext]_pipelineVars

----------------------------------------------------------------------------
(***************************************************************************)
(* Whatever commands died, whatever was left out of a commit and whatever  *)
(* run was cancelled, the main branch holds one contract: the three        *)
(* languages have the same files, byte for byte, none of them torn,        *)
(* signature, fragment and link are of one generation, and the generator   *)
(* can start from it again.                                                *)
(***************************************************************************)
MainIsOneContract ==
    /\ \A p \in Packages : main.mirror[p] = main.vectors
    /\ \A f \in Files : main.vectors[f] # Torn
    /\ \A f \in {"sig", "qv2", "link"} : main.vectors[f].gen = main.vectors["sig"].gen
    /\ Replaceable(main.vectors["qv2"])

(***************************************************************************)
(* Exit status 0 means done: a generator that says OK leaves a pair of one *)
(* fresh generation, a sync that ends leaves nothing for check-sync.sh to  *)
(* complain about, and neither depends on what an earlier command that     *)
(* died had left behind.                                                   *)
(***************************************************************************)
ExitMeansDone ==
    /\ exit = "gen ok" => \A f \in {"sig", "qv2"} : tree.vectors[f] = Whole(fresh)
    /\ exit = "sync ok" => InSync(tree) /\ tree.vectors = before

(***************************************************************************)
(* The package comment of tools/gen/main.go says of the generator that "it *)
(* self-verifies every vector before writing": one that fails has written  *)
(* nothing.                                                                *)
(***************************************************************************)
VerifiesBeforeWriting == exit = "gen failed" => tree.vectors = before
=============================================================================
