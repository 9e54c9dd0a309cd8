----------------------------- MODULE Promotion -----------------------------
(***************************************************************************)
(* How an image reaches deployment.  A pull request's CI builds the tree of *)
(* its merge with main and tags the image with it; a push to main promotes  *)
(* the image of its tree, or carries the recorded digest forward when only  *)
(* documentation changed.  A later push or a re-run cancels the job in      *)
(* progress.                                                                *)
(*                                                                          *)
(* A tree is the set of changes it contains and a commit its place on main. *)
(* An image's id stands for its digest; the `latest` tag moves with the     *)
(* sha-* tag and is left out.                                               *)
(***************************************************************************)
EXTENDS Naturals, Sequences

CONSTANTS
  Changes,    \* pull requests, each with one change
  Docs,       \* those that touch documentation only
  MaxImages,  \* bound: images built
  MaxReruns   \* bound: publish jobs run again

ASSUME PromotionAssumption ==
  /\ Docs \subseteq Changes
  /\ MaxImages \in Nat /\ MaxReruns \in Nat

VARIABLES
  main,     \* the trees main has had
  pr,       \* the state of each pull request
  base,     \* the tree its branch starts from
  ci,       \* the merge its CI is building, {} if none
  built,    \* the image its CI pushed last for its present head, 0 if none
  content,  \* the tree each image was built from
  exists,   \* images the registry still holds
  sha,      \* the image tagged sha-<commit>
  promoted, \* promoted.json
  publish,  \* the publish job
  reruns    \* publish jobs run again so far

promotionVars ==
  <<main, pr, base, ci, built, content, exists, sha, promoted, publish, reruns>>

Commits == 1..Len(main)
Tip == main[Len(main)]
code(tree) == tree \ Docs

\* Is v the image the tag tree-<tree> names?  A newer build takes the tag away.
Tagged(v, tree) ==
  /\ v \in exists /\ content[v] = tree
  /\ \A w \in v + 1..Len(content) : content[w] # tree

\* The image, if any, that a pull request's CI built for the content of commit n.
Validated(n) == {v \in exists : Tagged(v, main[n])}

\* It carries a sha-* tag.
Released(v) == \E n \in Commits : sha[n] = v

\* What the decide job computes for a push: the diff with the commit it replaced.
docs_only(n) == main[n] \ main[n - 1] \subseteq Docs

-----------------------------------------------------------------------------
(* Pull requests and their CI *)

\* The checkout of a pull request is its merge with main, and so is the tag.
\* Documentation is not built.
StartCI(p) == ci' = [ci EXCEPT ![p] = IF p \in Docs THEN {} ELSE Tip \cup {p}]

Open(p) ==
  /\ pr[p] = "new"
  /\ pr' = [pr EXCEPT ![p] = "open"]
  /\ \E n \in Commits : base' = [base EXCEPT ![p] = main[n]]
  /\ StartCI(p)
  /\ UNCHANGED <<main, built, content, exists, sha, promoted, publish, reruns>>

\* A branch is brought up to date: a new head, of which nothing has been built yet.
Rebase(p) ==
  /\ pr[p] = "open" /\ base[p] # Tip
  /\ base' = [base EXCEPT ![p] = Tip]
  /\ built' = [built EXCEPT ![p] = 0]
  /\ StartCI(p)
  /\ UNCHANGED <<main, pr, content, exists, sha, promoted, publish, reruns>>

Close(p) ==
  /\ pr[p] = "open"
  /\ pr' = [pr EXCEPT ![p] = "closed"]
  /\ UNCHANGED <<main, base, ci, built, content, exists, sha, promoted, publish, reruns>>

Reopen(p) ==
  /\ pr[p] = "closed"
  /\ pr' = [pr EXCEPT ![p] = "open"]
  /\ StartCI(p)
  /\ UNCHANGED <<main, base, built, content, exists, sha, promoted, publish, reruns>>

\* The new image takes the tag of its tree from an older one.
Build(p) ==
  /\ ci[p] # {}
  /\ Len(content) <= MaxImages
  /\ content' = Append(content, ci[p])
  /\ exists' = exists \cup {Len(content) + 1}
  /\ built' = [built EXCEPT ![p] = Len(content) + 1]
  /\ ci' = [ci EXCEPT ![p] = {}]
  /\ UNCHANGED <<main, pr, base, sha, promoted, publish, reruns>>

-----------------------------------------------------------------------------
(* The publish job of a push to main *)

Start(n) == publish' = [commit |-> n, step |-> "test"]
Step(here, there) ==
  /\ publish.step = here
  /\ publish' = [publish EXCEPT !.step = there]

\* Merging, whether or not its CI has finished, cancels the publish in progress.
Push(p) ==
  /\ pr[p] = "open"
  /\ pr' = [pr EXCEPT ![p] = "merged"]
  /\ main' = Append(main, Tip \cup {p})
  /\ sha' = Append(sha, 0)
  /\ Start(Len(main) + 1)
  /\ UNCHANGED <<base, ci, built, content, exists, promoted, reruns>>

Rerun(n) ==
  /\ reruns < MaxReruns /\ n # 1
  /\ reruns' = reruns + 1
  /\ Start(n)
  /\ UNCHANGED <<main, pr, base, ci, built, content, exists, sha, promoted>>

Find ==
  /\ Step("test", "found")
  /\ ~docs_only(publish.commit)
  /\ Validated(publish.commit) # {}
  /\ UNCHANGED <<main, pr, base, ci, built, content, exists, sha, promoted, reruns>>

\* imagetools create: a new tag on the manifest the tree's tag names now.
Promote ==
  /\ Step("found", "tagged")
  /\ \E v \in Validated(publish.commit) : sha' = [sha EXCEPT ![publish.commit] = v]
  /\ UNCHANGED <<main, pr, base, ci, built, content, exists, promoted, reruns>>

\* Mutation of Record: what could not be inspected is recorded too.
RecordAnything ==
  /\ Step("tagged", "done")
  /\ promoted' = [sha |-> publish.commit,
                  digest |-> IF sha[publish.commit] \in exists
                             THEN sha[publish.commit] ELSE 0]
  /\ UNCHANGED <<main, pr, base, ci, built, content, exists, sha, reruns>>

Record ==
  /\ Step("tagged", "done")
  /\ sha[publish.commit] \in exists
  /\ promoted' = [sha |-> publish.commit, digest |-> sha[publish.commit]]
  /\ UNCHANGED <<main, pr, base, ci, built, content, exists, sha, reruns>>

\* Mutation of Carry: the previous record may name any commit.
CarryUnguarded ==
  /\ Step("test", "done")
  /\ docs_only(publish.commit)
  /\ promoted' = [promoted EXCEPT !.sha = publish.commit]
  /\ UNCHANGED <<main, pr, base, ci, built, content, exists, sha, reruns>>

\* Documentation only: the digest is carried forward from the commit replaced.
Carry ==
  /\ Step("test", "done")
  /\ docs_only(publish.commit)
  /\ promoted.sha = publish.commit - 1
  /\ promoted' = [promoted EXCEPT !.sha = publish.commit]
  /\ UNCHANGED <<main, pr, base, ci, built, content, exists, sha, reruns>>

\* A step that cannot do its work ends the job: the image or its tag is gone, or
\* the promotion is behind main.
PublishFails ==
  /\ \/ /\ Step("test", "failed")
        /\ IF docs_only(publish.commit)
           THEN promoted.sha # publish.commit - 1
           ELSE Validated(publish.commit) = {}
     \/ Step("found", "failed") /\ Validated(publish.commit) = {}
     \/ Step("tagged", "failed") /\ sha[publish.commit] \notin exists
  /\ UNCHANGED <<main, pr, base, ci, built, content, exists, sha, promoted, reruns>>

-----------------------------------------------------------------------------
\* Main has one commit, whose image is deployed.
PromotionInit ==
  /\ main = <<{}>>
  /\ pr = [p \in Changes |-> "new"]
  /\ base = [p \in Changes |-> {}]
  /\ ci = [p \in Changes |-> {}]
  /\ built = [p \in Changes |-> 0]
  /\ content = <<{}>>
  /\ exists = {1}
  /\ sha = <<1>>
  /\ promoted = [sha |-> 1, digest |-> 1]
  /\ publish = [commit |-> 1, step |-> "done"]
  /\ reruns = 0

PromotionNext ==
  \/ \E p \in Changes :
       Open(p) \/ Rebase(p) \/ Close(p) \/ Reopen(p) \/ Build(p) \/ Push(p)
  \/ \E n \in Commits : Rerun(n)
  \/ Find \/ Promote \/ Record \/ Carry \/ PublishFails

\* promoted.json names an image with exactly the code of the commit it records,
\* although jobs are cancelled, re-run and overtaken between push, tag and record.
RecordedIsValidated ==
  code(content[promoted.digest]) = code(main[promoted.sha])

\* The inductive invariant of the promotion: main only grows, and so does each of its
\* trees; a commit is tagged with an image of its very tree.
PromotionInv ==
  /\ main \in Seq(SUBSET Changes) /\ main # <<>>
  /\ \A n \in Commits \ {1} : main[n - 1] \subseteq main[n]
  /\ base \in [Changes -> SUBSET Changes] /\ ci \in [Changes -> SUBSET Changes]
  /\ content \in Seq(SUBSET Changes) /\ exists \subseteq 1..Len(content)
  /\ built \in [Changes -> 0..Len(content)]
  /\ sha \in Seq(0..Len(content)) /\ Len(sha) = Len(main)
  /\ \A n \in Commits : sha[n] # 0 => content[sha[n]] = main[n]
  /\ promoted \in [sha : Commits, digest : 1..Len(content)]
  /\ publish \in [commit : Commits, step : {"test", "found", "tagged", "done", "failed"}]
  /\ RecordedIsValidated
=============================================================================
