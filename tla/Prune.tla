------------------------------- MODULE Prune -------------------------------
(***************************************************************************)
(* The weekly job that deletes images nothing points at any more, while     *)
(* pull requests, builds and promotions go on.  It lists images, then open  *)
(* pull requests, then the pinned digest; plans; lists the pull requests    *)
(* again; and then, one image at a time, reads, confirms and deletes it.    *)
(*                                                                          *)
(* One armed, scheduled run.  The untagged children of an image are never   *)
(* candidates and are left out, as are unrecognised tags.                   *)
(***************************************************************************)
EXTENDS Promotion, FiniteSets

CONSTANT ListLimit \* pull requests a listing returns, --limit

ASSUME PruneAssumption == ListLimit \in Nat \ {0}

VARIABLES
  old,   \* images past the grace period
  job,   \* where the run stands
  plan,  \* images still to delete
  known, \* what the run has read: images, live trees, pull requests, pinned digest
  ever,  \* history: images that were at some time promoted
  before \* history: those that were when the run last read an image

pruneVars == <<promotionVars, old, job, plan, known, ever, before>>

OpenNow == {p \in Changes : pr[p] = "open"}
HeadTrees(open) == {base[p] \cup {p} : p \in open}

\* What a listing of the open pull requests returns: all, or as many as fit.
Listings ==
  {S \in SUBSET OpenNow :
     IF Cardinality(OpenNow) <= ListLimit THEN S = OpenNow ELSE Cardinality(S) = ListLimit}

Goes(here, there) == job = here /\ job' = there

-----------------------------------------------------------------------------
\* Images age; builds, merges and promotions happen at any time.
Age(v) ==
  /\ v \in exists \ old
  /\ old' = old \cup {v}
  /\ UNCHANGED <<promotionVars, job, plan, known, ever, before>>

World ==
  /\ PromotionNext
  /\ ever' = ever \cup {sha'[n] : n \in 1..Len(sha')}
  /\ UNCHANGED <<old, job, plan, known, before>>

\* Tags and ages are those of the listing: of the listed images, the ones with
\* nothing but a tree's tag, past the grace period.
ListVersions ==
  /\ Goes("idle", "listed")
  /\ known' = [known EXCEPT !.images = exists]
  /\ plan' = {v \in exists : Tagged(v, content[v]) /\ ~Released(v) /\ v \in old}
  /\ UNCHANGED <<promotionVars, old, ever, before>>

ListHeads ==
  /\ \/ Goes("listed", "heads")
     \/ Goes("planned", "deleting")
  /\ \E open \in Listings :
       known' = [known EXCEPT !.trees = HeadTrees(open), !.open = open]
  /\ UNCHANGED <<promotionVars, old, plan, ever, before>>

\* classify: what no open pull request references and deployment does not pin.  A
\* listing without the cut build or the pinned digest is not acted upon.
Plan ==
  /\ known' = [known EXCEPT !.pinned = promoted.digest]
  /\ plan' = {v \in plan : content[v] \notin known.trees /\ v # promoted.digest}
  /\ IF {1, promoted.digest} \subseteq known.images /\ plan' # {}
     THEN Goes("heads", "planned") ELSE Goes("heads", "done")
  /\ UNCHANGED <<promotionVars, old, ever, before>>

\* Mutation of Deletable: production tags are not looked at again.
DeletableStill(v) ==
  /\ v \in exists /\ v # known.pinned /\ Tagged(v, content[v])
  /\ content[v] \notin known.trees

\* confirm_deletable: the image as just read, against the trees of the second listing.
Deletable(v) ==
  /\ v \in exists /\ v # known.pinned
  /\ Tagged(v, content[v]) /\ ~Released(v)
  /\ content[v] \notin known.trees

Confirm(v) ==
  /\ Goes("deleting", "confirmed")
  /\ v \in plan /\ Deletable(v)
  /\ known' = [known EXCEPT !.images = {v}]
  /\ before' = ever
  /\ UNCHANGED <<promotionVars, old, plan, ever>>

\* The first surprise ends the run.
Refuse(v) ==
  /\ Goes("deleting", "done")
  /\ v \in plan /\ ~Deletable(v)
  /\ plan' = {}
  /\ UNCHANGED <<promotionVars, old, known, ever, before>>

Delete(v) ==
  /\ job = "confirmed" /\ known.images = {v}
  /\ exists' = exists \ {v}
  /\ plan' = plan \ {v}
  /\ job' = IF plan' = {} THEN "done" ELSE "deleting"
  /\ UNCHANGED <<main, pr, base, ci, built, content, sha, promoted, publish, reruns>>
  /\ UNCHANGED <<old, known, ever, before>>

\* A listing, a read or a deletion that fails ends the run.
ApiFails ==
  /\ job \notin {"idle", "done"}
  /\ job' = "done" /\ plan' = {}
  /\ UNCHANGED <<promotionVars, old, known, ever, before>>

-----------------------------------------------------------------------------
PruneInit ==
  /\ PromotionInit
  /\ old = {1}
  /\ job = "idle" /\ plan = {}
  /\ known = [images |-> {}, trees |-> {}, open |-> {}, pinned |-> 0]
  /\ ever = {1} /\ before = {}

PruneNext ==
  \/ World
  \/ \E v \in 1..Len(content) : Age(v) \/ Confirm(v) \/ Refuse(v) \/ Delete(v)
  \/ ListVersions \/ ListHeads \/ Plan \/ ApiFails

PruneSpec == PruneInit /\ [][PruneNext]_pruneVars

-----------------------------------------------------------------------------
\* The values of the registry, the record on the promoted branch and the run.
PruneTypeOK ==
  /\ content \in Seq(SUBSET Changes)
  /\ exists \subseteq 1..Len(content) /\ old \subseteq 1..Len(content)
  /\ sha \in Seq(0..Len(content)) /\ Len(sha) = Len(main)
  /\ promoted \in [sha : Commits, digest : 1..Len(content)]
  /\ job \in {"idle", "listed", "heads", "planned", "deleting", "confirmed", "done"}
  /\ plan \subseteq 1..Len(content)
  /\ known \in [images : SUBSET (1..Len(content)), trees : SUBSET SUBSET Changes,
                open : SUBSET Changes, pinned : 0..Len(content)]

\* An image that was promoted still is, or a newer one of its tree has taken its tag, and
\* what the run has confirmed was not promoted then.
PromotedStands(v) ==
  Released(v) \/ \E w \in v + 1..Len(content) : content[w] = content[v]

\* The inductive invariant of the prune.
PruneInv ==
  /\ PromotionInv
  /\ PruneTypeOK
  /\ ever \subseteq 0..Len(content)
  /\ \A v \in ever \ {0} : PromotedStands(v)
  /\ job = "confirmed" => known.images \cap before = {}

Deleted(v) == v \in exists /\ v \notin exists'

\* An image that had been promoted when the run read it is not deleted, although its
\* tags move on with rebuilds, re-runs and promotions (classify, then confirm).
PromotedIsKept == [][\A v \in 1..Len(content) : Deleted(v) => v \notin before]_pruneVars

\* registry-prune.yml: "every open PR's head resolves to the exact tag that must not
\* be deleted": the image that CI built for the present head of a pull request, which the
\* run saw open and which still is.
OpenPullRequestKeepsItsImage ==
  [][\A p \in known.open \cap OpenNow : built[p] # 0 => ~Deleted(built[p])]_pruneVars
=============================================================================
