----------------------------- MODULE PruneProofs -----------------------------
(***************************************************************************)
(* What promoted.json records is an image of the code of the commit it     *)
(* names, and an image that was promoted is never deleted, for any changes *)
(* and any number of images and re-runs.  The argument for the second: an  *)
(* image that lost its sha-* tag lost it to a newer image of the same      *)
(* tree, so that it has lost its tree's tag too, and neither comes back.   *)
(***************************************************************************)
EXTENDS Prune, TLAPS

Publishing == [commit : Commits, step : {"test", "found", "tagged", "done", "failed"}]

\* The job goes on with the same commit.
LEMMA StepKeepsCommit ==
  ASSUME PromotionInv, NEW here, NEW there \in {"test", "found", "tagged", "done", "failed"},
         Step(here, there)
  PROVE  publish' \in Publishing /\ publish'.commit = publish.commit /\ publish.commit \in Commits
<1>1. publish \in Publishing /\ publish' = [publish EXCEPT !.step = there]
  BY DEF PromotionInv, Publishing, Step
<1>2. QED
  BY <1>1 DEF Publishing

\* The steps that leave the images, their tags and the record alone.
LEMMA QuietStep ==
  ASSUME PromotionInv, UNCHANGED <<main, content, exists, sha, promoted>>,
         built' \in [Changes -> 0..Len(content)],
         base' \in [Changes -> SUBSET Changes], ci' \in [Changes -> SUBSET Changes],
         publish' \in Publishing
  PROVE  PromotionInv'
  BY DEF Publishing, PromotionInv, Commits, RecordedIsValidated, code

\* A pull request opens, moves, closes or opens again.
LEMMA PullRequestStep ==
  ASSUME PromotionInv, NEW p \in Changes, Open(p) \/ Rebase(p) \/ Close(p) \/ Reopen(p)
  PROVE  PromotionInv'
<1>1. /\ UNCHANGED <<main, content, exists, sha, promoted, publish>>
      /\ publish \in Publishing
      /\ base \in [Changes -> SUBSET Changes] /\ ci \in [Changes -> SUBSET Changes]
  BY DEF Open, Rebase, Close, Reopen, PromotionInv, Publishing
<1>2. Tip \in SUBSET Changes /\ \A n \in Commits : main[n] \in SUBSET Changes
  BY DEF PromotionInv, Tip, Commits
<1>3. base' \in [Changes -> SUBSET Changes]
  BY <1>1, <1>2 DEF Open, Rebase, Close, Reopen
<1>4. ci' \in [Changes -> SUBSET Changes]
  BY <1>1, <1>2 DEF Open, Rebase, Close, Reopen, StartCI
<1>5. built' \in [Changes -> 0..Len(content)]
  <2>1. built \in [Changes -> 0..Len(content)] /\ Len(content) \in Nat
    BY DEF PromotionInv
  <2>2. built' = built \/ built' = [built EXCEPT ![p] = 0]
    BY DEF Open, Rebase, Close, Reopen
  <2>3. QED BY <2>1, <2>2
<1>6. QED
  BY <1>1, <1>3, <1>4, <1>5, QuietStep

\* A build adds an image; those there were keep their trees.
LEMMA BuildStep ==
  ASSUME PromotionInv, NEW p \in Changes, Build(p)
  PROVE  PromotionInv'
<1>1. /\ content' = Append(content, ci[p]) /\ ci[p] \in SUBSET Changes
      /\ content \in Seq(SUBSET Changes) /\ Len(content) \in Nat
      /\ exists' = exists \cup {Len(content) + 1}
      /\ built' = [built EXCEPT ![p] = Len(content) + 1] /\ ci' = [ci EXCEPT ![p] = {}]
      /\ UNCHANGED <<main, base, sha, promoted, publish>>
  BY DEF Build, PromotionInv
<1>2. /\ content' \in Seq(SUBSET Changes) /\ Len(content') = Len(content) + 1
      /\ \A v \in 1..Len(content) : content'[v] = content[v]
  BY <1>1
<1>3. /\ exists' \subseteq 1..Len(content') /\ built' \in [Changes -> 0..Len(content')]
      /\ ci' \in [Changes -> SUBSET Changes]
  <2>1. /\ exists \subseteq 1..Len(content) /\ built \in [Changes -> 0..Len(content)]
        /\ ci \in [Changes -> SUBSET Changes]
    BY DEF PromotionInv
  <2>2. 1..Len(content) \subseteq 1..Len(content') /\ 0..Len(content) \subseteq 0..Len(content')
        /\ Len(content) + 1 \in 1..Len(content')
    BY <1>1, <1>2
  <2>3. exists' \subseteq 1..Len(content')
    BY <1>1, <2>1, <2>2
  <2>4. built' \in [Changes -> 0..Len(content')]
    BY <1>1, <1>2, <2>1, <2>2
  <2>5. ci' \in [Changes -> SUBSET Changes]
    BY <1>1, <2>1
  <2>6. QED BY <2>3, <2>4, <2>5
<1>4. sha \in Seq(0..Len(content)) /\ Len(sha) = Len(main) /\ Len(main) \in Nat
      /\ \A n \in Commits : sha[n] \in 0..Len(content)
  BY DEF PromotionInv, Commits
<1>5. sha' \in Seq(0..Len(content'))
  BY <1>1, <1>2, <1>4
<1>6. \A n \in Commits : sha[n] # 0 => content'[sha[n]] = main[n]
  BY <1>1, <1>2, <1>4 DEF PromotionInv
<1>7. promoted \in [sha : Commits, digest : 1..Len(content')]
      /\ content'[promoted.digest] = content[promoted.digest]
  BY <1>1, <1>2 DEF PromotionInv
<1>8. QED
  BY <1>1, <1>2, <1>3, <1>4, <1>5, <1>6, <1>7 DEF PromotionInv, Commits, RecordedIsValidated, code, Publishing

\* A push adds a commit, whose tree contains the one before; nothing is tagged yet.
LEMMA PushStep ==
  ASSUME PromotionInv, NEW p \in Changes, Push(p)
  PROVE  PromotionInv'
<1>0. /\ main \in Seq(SUBSET Changes) /\ Len(main) \in Nat /\ Len(main) > 0
      /\ sha \in Seq(0..Len(content)) /\ Len(sha) = Len(main) /\ Len(content) \in Nat
      /\ Tip \in SUBSET Changes
  BY DEF PromotionInv, Tip
<1>1. /\ main' = Append(main, Tip \cup {p}) /\ sha' = Append(sha, 0)
      /\ publish' = [commit |-> Len(main) + 1, step |-> "test"]
      /\ UNCHANGED <<base, ci, built, content, exists, promoted>>
  BY DEF Push, Start
<1>2. /\ main' \in Seq(SUBSET Changes) /\ Len(main') = Len(main) + 1 /\ main' # <<>>
      /\ \A n \in Commits : main'[n] = main[n]
      /\ main'[Len(main) + 1] = Tip \cup {p}
  BY <1>0, <1>1 DEF Commits
<1>3. /\ sha' \in Seq(0..Len(content)) /\ Len(sha') = Len(main')
      /\ \A n \in Commits : sha'[n] = sha[n]
      /\ sha'[Len(main) + 1] = 0
  BY <1>0, <1>1, <1>2 DEF Commits
<1>4. Commits' = Commits \cup {Len(main) + 1}
  BY <1>0, <1>2 DEF Commits
<1>5. \A n \in Commits' \ {1} : main'[n - 1] \subseteq main'[n]
  <2>1. ASSUME NEW n \in Commits \ {1} PROVE main'[n - 1] \subseteq main'[n]
    <3>1. n - 1 \in Commits
      BY <1>0 DEF Commits
    <3>2. QED BY <1>2, <3>1 DEF PromotionInv
  <2>2. main'[Len(main) + 1 - 1] \subseteq main'[Len(main) + 1]
    BY <1>0, <1>2 DEF Commits, Tip
  <2>3. QED BY <1>4, <2>1, <2>2
<1>6. \A n \in Commits' : sha'[n] # 0 => content'[sha'[n]] = main'[n]
  <2>1. ASSUME NEW n \in Commits, sha'[n] # 0 PROVE content'[sha'[n]] = main'[n]
    <3>1. sha[n] # 0 => content[sha[n]] = main[n]
      BY DEF PromotionInv
    <3>2. sha'[n] = sha[n] /\ main'[n] = main[n] /\ content' = content
      BY <1>1, <1>2, <1>3
    <3>3. QED BY <2>1, <3>1, <3>2
  <2>2. QED BY <1>3, <1>4, <2>1
<1>7. promoted \in [sha : Commits', digest : 1..Len(content)] /\ main'[promoted.sha] = main[promoted.sha]
  BY <1>2, <1>4 DEF PromotionInv
<1>8. QED
  BY <1>1, <1>2, <1>3, <1>4, <1>5, <1>6, <1>7 DEF PromotionInv, RecordedIsValidated, code

\* The image that is tagged for a commit is one of its tree.
LEMMA PromoteStep ==
  ASSUME PromotionInv, Promote
  PROVE  PromotionInv'
<1>1. PICK v \in Validated(publish.commit) : sha' = [sha EXCEPT ![publish.commit] = v]
  BY DEF Promote
<1>2. /\ v \in 1..Len(content) /\ content[v] = main[publish.commit]
      /\ publish.commit \in Commits /\ publish' \in Publishing
      /\ UNCHANGED <<main, base, ci, built, content, exists, promoted>>
  BY StepKeepsCommit DEF Validated, Tagged, Promote, PromotionInv
<1>3. /\ sha' \in Seq(0..Len(content)) /\ Len(sha') = Len(main)
      /\ \A n \in Commits : sha'[n] = IF n = publish.commit THEN v ELSE sha[n]
  BY <1>1, <1>2 DEF PromotionInv, Commits
<1>4. \A n \in Commits : sha'[n] # 0 => content[sha'[n]] = main[n]
  BY <1>2, <1>3 DEF PromotionInv
<1>5. QED
  BY <1>2, <1>3, <1>4 DEF PromotionInv, Commits, RecordedIsValidated, code, Publishing

\* What is recorded is the tagged image, or the one recorded for the commit before when
\* the commit differs from it by documentation only.
LEMMA RecordStep ==
  ASSUME PromotionInv, Record \/ Carry
  PROVE  PromotionInv'
<1>0. /\ UNCHANGED <<main, base, ci, built, content, exists, sha>>
      /\ publish.commit \in Commits /\ publish' \in Publishing
      /\ main \in Seq(SUBSET Changes) /\ Len(main) \in Nat
  BY StepKeepsCommit DEF Record, Carry, PromotionInv
<1>1. /\ promoted' \in [sha : Commits, digest : 1..Len(content)]
      /\ code(content[promoted'.digest]) = code(main[promoted'.sha])
  <2>1. CASE Record
    <3>1. /\ promoted' = [sha |-> publish.commit, digest |-> sha[publish.commit]]
          /\ sha[publish.commit] \in 1..Len(content)
      BY <2>1 DEF Record, PromotionInv
    <3>2. sha[publish.commit] # 0
      BY <3>1
    <3>3. QED BY <1>0, <3>1, <3>2 DEF PromotionInv
  <2>2. CASE Carry
    <3>1. /\ promoted.sha = publish.commit - 1 /\ promoted' = [promoted EXCEPT !.sha = publish.commit]
          /\ promoted \in [sha : Commits, digest : 1..Len(content)]
          /\ main[publish.commit] \ main[publish.commit - 1] \subseteq Docs
      BY <2>2 DEF Carry, PromotionInv, docs_only
    <3>2. /\ promoted' \in [sha : Commits, digest : 1..Len(content)]
          /\ promoted'.digest = promoted.digest /\ promoted'.sha = publish.commit
      BY <1>0, <3>1
    <3>3. publish.commit \in Commits \ {1}
      BY <1>0, <3>1 DEF Commits
    <3>4. main[publish.commit - 1] \subseteq main[publish.commit]
      BY <3>3 DEF PromotionInv
    <3>5. code(main[publish.commit]) = code(main[publish.commit - 1])
      BY <3>1, <3>4 DEF code
    <3>6. QED BY <3>1, <3>2, <3>5 DEF PromotionInv, RecordedIsValidated
  <2>3. QED BY <2>1, <2>2
<1>2. QED
  BY <1>0, <1>1 DEF PromotionInv, Commits, RecordedIsValidated, code, Publishing

LEMMA PromotionStep ==
  ASSUME PromotionInv, PromotionNext
  PROVE  PromotionInv'
<1>1. CASE \E p \in Changes : Open(p) \/ Rebase(p) \/ Close(p) \/ Reopen(p)
  BY <1>1, PullRequestStep
<1>2. CASE \E p \in Changes : Build(p) \/ Push(p)
  BY <1>2, BuildStep, PushStep
<1>3. CASE (\E n \in Commits : Rerun(n)) \/ Find \/ PublishFails
  <2>1. /\ UNCHANGED <<main, base, ci, built, content, exists, sha, promoted>>
        /\ publish' \in Publishing
    BY <1>3, StepKeepsCommit DEF Rerun, Start, Find, PublishFails, Publishing
  <2>2. QED BY <2>1, QuietStep DEF PromotionInv
<1>4. CASE Promote \/ Record \/ Carry
  BY <1>4, PromoteStep, RecordStep
<1>5. QED
  BY <1>1, <1>2, <1>3, <1>4 DEF PromotionNext

LEMMA PromotionInitInv ==
  ASSUME PromotionInit
  PROVE  PromotionInv
<1>1. /\ main = <<{}>> /\ content = <<{}>> /\ sha = <<1>> /\ exists = {1}
      /\ promoted = [sha |-> 1, digest |-> 1] /\ publish = [commit |-> 1, step |-> "done"]
      /\ base = [p \in Changes |-> {}] /\ ci = [p \in Changes |-> {}]
      /\ built = [p \in Changes |-> 0]
  BY DEF PromotionInit
<1>2. /\ Len(main) = 1 /\ Len(content) = 1 /\ Len(sha) = 1 /\ Commits = {1}
      /\ main[1] = {} /\ content[1] = {} /\ sha[1] = 1
      /\ main \in Seq(SUBSET Changes) /\ content \in Seq(SUBSET Changes)
      /\ sha \in Seq(0..1) /\ main # <<>>
  BY <1>1 DEF Commits
<1>3. QED
  BY <1>1, <1>2 DEF PromotionInv, RecordedIsValidated, code

-----------------------------------------------------------------------------
\* PruneInv without what PromotionInv implies.
Steps == {"idle", "listed", "heads", "planned", "deleting", "confirmed", "done"}
Read == [images : SUBSET (1..Len(content)), trees : SUBSET SUBSET Changes,
         open : SUBSET Changes, pinned : 0..Len(content)]

Run ==
  /\ old \subseteq 1..Len(content) /\ plan \subseteq 1..Len(content)
  /\ job \in Steps /\ known \in Read
  /\ ever \subseteq 0..Len(content)
  /\ \A v \in ever \ {0} : PromotedStands(v)
  /\ job = "confirmed" => known.images \cap before = {}

LEMMA RunIsEnough == PromotionInv /\ Run <=> PruneInv
  BY DEF Run, Steps, Read, PruneInv, PruneTypeOK, PromotionInv

\* Images are only added, and keep their trees; a tag moves only to a newer image.
LEMMA WorldGrows ==
  ASSUME PromotionInv, PromotionNext
  PROVE  /\ Len(content) \in Nat /\ Len(content') \in Nat /\ Len(content) <= Len(content')
         /\ \A v \in 1..Len(content) : content'[v] = content[v]
         /\ exists \subseteq exists'
         /\ Len(main) \in Nat /\ Len(main') \in Nat /\ Len(main) <= Len(main')
         /\ \A n \in Commits :
              \/ sha'[n] = sha[n]
              \/ sha'[n] \in 1..Len(content) /\ Tagged(sha'[n], main[n])
<1>0. /\ Len(content) \in Nat /\ Len(main) \in Nat /\ content \in Seq(SUBSET Changes)
      /\ main \in Seq(SUBSET Changes) /\ sha \in Seq(0..Len(content)) /\ Len(sha) = Len(main)
  BY DEF PromotionInv
<1>1. CASE \E p \in Changes : Build(p)
  <2>1. PICK p \in Changes : Build(p)
    BY <1>1
  <2>2. /\ content' = Append(content, ci[p]) /\ exists \subseteq exists'
        /\ UNCHANGED <<main, sha>>
    BY <2>1 DEF Build
  <2>3. ci[p] \in SUBSET Changes
    BY DEF PromotionInv
  <2>4. Len(content') = Len(content) + 1 /\ \A v \in 1..Len(content) : content'[v] = content[v]
    BY <1>0, <2>2, <2>3
  <2>5. QED BY <1>0, <2>2, <2>4
<1>2. CASE \E p \in Changes : Push(p)
  <2>1. PICK p \in Changes : Push(p)
    BY <1>2
  <2>2. /\ main' = Append(main, Tip \cup {p}) /\ sha' = Append(sha, 0)
        /\ UNCHANGED <<content, exists>>
    BY <2>1 DEF Push
  <2>3. Tip \cup {p} \in SUBSET Changes
    BY <1>0 DEF PromotionInv, Tip
  <2>4. /\ Len(main') = Len(main) + 1
        /\ \A n \in Commits : sha'[n] = sha[n]
    BY <1>0, <2>2, <2>3 DEF Commits
  <2>5. /\ content' = content /\ exists' = exists
        /\ Len(main') \in Nat /\ Len(main) <= Len(main')
    BY <1>0, <2>2, <2>4
  <2>6. QED BY <1>0, <2>4, <2>5
<1>3. CASE Promote
  <2>1. PICK v \in Validated(publish.commit) : sha' = [sha EXCEPT ![publish.commit] = v]
    BY <1>3 DEF Promote
  <2>2. UNCHANGED <<main, content, exists>> /\ publish.commit \in Commits
    BY <1>3, StepKeepsCommit DEF Promote
  <2>3. v \in 1..Len(content) /\ Tagged(v, main[publish.commit])
    BY DEF Validated, PromotionInv
  <2>4. \A n \in Commits : sha'[n] = IF n = publish.commit THEN v ELSE sha[n]
    BY <1>0, <2>1 DEF Commits
  <2>5. QED BY <1>0, <2>2, <2>3, <2>4
<1>4. CASE UNCHANGED <<main, content, exists, sha>>
  BY <1>0, <1>4
<1>5. QED
  BY <1>1, <1>2, <1>3, <1>4
  DEF PromotionNext, Open, Rebase, Close, Reopen, Rerun, Find, Record, Carry, PublishFails

\* The world goes on: an image that was promoted stays so, or a newer one replaces it.
LEMMA WorldStep ==
  ASSUME PromotionInv, Run, World
  PROVE  PromotionInv' /\ Run'
<1>0. /\ PromotionNext /\ ever' = ever \cup {sha'[n] : n \in 1..Len(sha')}
      /\ UNCHANGED <<old, job, plan, known, before>>
  BY DEF World
<1>1. PromotionInv'
  BY <1>0, PromotionStep
<1>2. /\ Len(content) \in Nat /\ Len(content') \in Nat /\ Len(content) <= Len(content')
      /\ \A v \in 1..Len(content) : content'[v] = content[v]
      /\ Len(main) \in Nat /\ Len(main') \in Nat /\ Len(main) <= Len(main')
      /\ \A n \in Commits :
           \/ sha'[n] = sha[n]
           \/ sha'[n] \in 1..Len(content) /\ Tagged(sha'[n], main[n])
  BY <1>0, WorldGrows
<1>3. 1..Len(content) \subseteq 1..Len(content') /\ 0..Len(content) \subseteq 0..Len(content')
  BY <1>2
<1>4. /\ Len(sha') = Len(main') /\ \A n \in 1..Len(sha') : sha'[n] \in 0..Len(content')
  BY <1>1 DEF PromotionInv
<1>5. ever' \subseteq 0..Len(content')
  BY <1>0, <1>3, <1>4 DEF Run
<1>6. ASSUME NEW v \in ever' \ {0} PROVE PromotedStands(v)'
  <2>1. CASE \E n \in 1..Len(sha') : sha'[n] = v
    BY <1>4, <2>1 DEF PromotedStands, Released, Commits
  <2>2. CASE ~ \E n \in 1..Len(sha') : sha'[n] = v
    <3>1. v \in ever \ {0} /\ PromotedStands(v) /\ v \in 1..Len(content)
      BY <1>0, <1>2, <2>2 DEF Run
    <3>2. CASE \E w \in v + 1..Len(content) : content[w] = content[v]
      <4>1. PICK w \in v + 1..Len(content) : content[w] = content[v]
        BY <3>2
      <4>2. w \in 1..Len(content) /\ w \in v + 1..Len(content')
        BY <1>2, <3>1
      <4>3. content'[w] = content'[v]
        BY <1>2, <3>1, <4>1, <4>2
      <4>4. QED BY <4>2, <4>3 DEF PromotedStands
    <3>3. CASE Released(v)
      <4>1. PICK n \in Commits : sha[n] = v
        BY <3>3 DEF Released
      <4>2. n \in 1..Len(sha') /\ sha'[n] # sha[n]
        BY <1>2, <1>4, <2>2, <4>1 DEF Commits
      <4>3. PICK w \in 1..Len(content) : w = sha'[n] /\ Tagged(w, main[n])
        BY <1>2, <4>2
      <4>4. content[v] = main[n] /\ content[w] = main[n] /\ w # v
        BY <3>1, <4>1, <4>2, <4>3 DEF PromotionInv, Tagged
      <4>5. ~ v \in w + 1..Len(content)
        BY <4>3, <4>4 DEF Tagged
      <4>6. w \in v + 1..Len(content')
        BY <1>2, <3>1, <4>3, <4>4, <4>5
      <4>7. content'[w] = content'[v]
        BY <1>2, <3>1, <4>3, <4>4
      <4>8. QED BY <4>6, <4>7 DEF PromotedStands
    <3>4. QED BY <3>1, <3>2, <3>3 DEF PromotedStands
  <2>3. QED BY <2>1, <2>2
<1>7. known' \in Read'
  BY <1>0, <1>3 DEF Run, Read
<1>8. QED
  BY <1>0, <1>1, <1>3, <1>5, <1>6, <1>7 DEF Run

\* A step of the run leaves the promotion alone, but for an image it deletes.
LEMMA RunKeepsPromotion ==
  ASSUME PromotionInv, exists' \subseteq exists,
         UNCHANGED <<main, pr, base, ci, built, content, sha, promoted, publish, reruns>>
  PROVE  PromotionInv'
  BY DEF PromotionInv, Commits, RecordedIsValidated, code

LEMMA StandsStill ==
  ASSUME UNCHANGED <<main, content, sha>>, NEW v
  PROVE  PromotedStands(v)' <=> PromotedStands(v)
  BY DEF PromotedStands, Released, Commits

\* What the run lists, reads and plans.
LEMMA ListingStep ==
  ASSUME PromotionInv, Run,
         \/ \E v \in 1..Len(content) : Age(v) \/ Refuse(v)
         \/ ListVersions \/ ListHeads \/ Plan \/ ApiFails
  PROVE  PromotionInv' /\ Run'
<1>1. /\ UNCHANGED <<promotionVars, ever, before>>
      /\ job' = "confirmed" => job = "confirmed" /\ UNCHANGED known
      /\ job' \in Steps
  BY DEF Age, Refuse, ListVersions, ListHeads, Plan, ApiFails, Goes, Run, Steps
<1>2. UNCHANGED <<main, pr, base, ci, built, content, exists, sha, promoted, publish, reruns>>
  BY <1>1 DEF promotionVars
<1>3. PromotionInv'
  BY <1>2, RunKeepsPromotion
<1>4. old' \subseteq 1..Len(content) /\ plan' \subseteq 1..Len(content)
  BY DEF Age, Refuse, ListVersions, ListHeads, Plan, ApiFails, Run, PromotionInv
<1>5. /\ exists \in SUBSET (1..Len(content)) /\ promoted.digest \in 0..Len(content)
  BY DEF PromotionInv
<1>6. known' \in Read
  <2>1. known \in Read
    BY DEF Run
  <2>2. CASE ListVersions
    BY <1>5, <2>1, <2>2 DEF ListVersions, Read
  <2>3. CASE ListHeads
    <3>1. PICK open \in SUBSET Changes :
            known' = [known EXCEPT !.trees = HeadTrees(open), !.open = open]
      BY <2>3 DEF ListHeads, Listings, OpenNow
    <3>2. HeadTrees(open) \in SUBSET SUBSET Changes
      BY DEF HeadTrees, PromotionInv
    <3>3. QED BY <2>1, <3>1, <3>2 DEF Read
  <2>4. CASE Plan
    BY <1>5, <2>1, <2>4 DEF Plan, Read
  <2>5. QED BY <2>1, <2>2, <2>3, <2>4 DEF Age, Refuse, ApiFails
<1>7. QED
  BY <1>1, <1>2, <1>3, <1>4, <1>6, StandsStill DEF Run, Read

\* What it confirms has its tree's tag and no sha-* tag: it was never promoted.
LEMMA ConfirmStep ==
  ASSUME PromotionInv, Run, NEW v \in 1..Len(content), Confirm(v)
  PROVE  PromotionInv' /\ Run'
<1>1. /\ UNCHANGED <<main, pr, base, ci, built, content, exists, sha, promoted, publish, reruns>>
      /\ UNCHANGED <<old, plan, ever>> /\ before' = ever
      /\ job' = "confirmed" /\ known' = [known EXCEPT !.images = {v}]
      /\ Tagged(v, content[v]) /\ ~Released(v)
  BY DEF Confirm, Deletable, Goes, promotionVars
<1>2. v \notin ever
  <2>1. v # 0 /\ ~PromotedStands(v)
    BY <1>1 DEF Tagged, PromotedStands
  <2>2. QED BY <2>1 DEF Run
<1>3. known' \in Read /\ known'.images = {v}
  BY <1>1 DEF Run, Read
<1>4. PromotionInv'
  BY <1>1, RunKeepsPromotion
<1>5. QED
  BY <1>1, <1>2, <1>3, <1>4, StandsStill DEF Run, Read, Steps

LEMMA DeleteStep ==
  ASSUME PromotionInv, Run, NEW v \in 1..Len(content), Delete(v)
  PROVE  PromotionInv' /\ Run'
<1>1. /\ UNCHANGED <<main, pr, base, ci, built, content, sha, promoted, publish, reruns>>
      /\ UNCHANGED <<old, known, ever, before>>
      /\ exists' = exists \ {v} /\ plan' = plan \ {v} /\ job' \in {"done", "deleting"}
  BY DEF Delete
<1>2. PromotionInv'
  BY <1>1, RunKeepsPromotion
<1>3. QED
  BY <1>1, <1>2, StandsStill DEF Run, Read, Steps

LEMMA PruneNextInv ==
  ASSUME PruneInv, [PruneNext]_pruneVars
  PROVE  PruneInv'
<1>0. PromotionInv /\ Run
  BY RunIsEnough
<1>1. SUFFICES PromotionInv' /\ Run'
  BY DEF Run, Steps, Read, PruneInv, PruneTypeOK, PromotionInv
<1>2. CASE World
  BY <1>0, <1>2, WorldStep
<1>3. CASE PruneNext /\ ~World
  BY <1>0, <1>3, ListingStep, ConfirmStep, DeleteStep DEF PruneNext
<1>4. CASE UNCHANGED pruneVars
  <2>1. /\ UNCHANGED <<main, pr, base, ci, built, content, exists, sha, promoted, publish, reruns>>
        /\ UNCHANGED <<old, job, plan, known, ever, before>>
    BY <1>4 DEF pruneVars, promotionVars
  <2>2. PromotionInv'
    BY <1>0, <2>1, RunKeepsPromotion
  <2>3. Run'
    BY <1>0, <2>1, StandsStill DEF Run, Read
  <2>4. QED BY <2>2, <2>3
<1>5. QED
  BY <1>2, <1>3, <1>4

LEMMA PruneInitInv ==
  ASSUME PruneInit
  PROVE  PruneInv
<1>1. /\ PromotionInit /\ old = {1} /\ job = "idle" /\ plan = {}
      /\ known = [images |-> {}, trees |-> {}, open |-> {}, pinned |-> 0]
      /\ ever = {1} /\ before = {}
  BY DEF PruneInit
<1>2. PromotionInv
  BY <1>1, PromotionInitInv
<1>3. Len(content) = 1 /\ sha[1] = 1 /\ 1 \in Commits
  BY <1>1 DEF PromotionInit, Commits
<1>4. Released(1)
  BY <1>3 DEF Released
<1>5. known \in Read
  BY <1>1, <1>3 DEF Read
<1>6. Run
  BY <1>1, <1>3, <1>4, <1>5 DEF Run, Steps, PromotedStands
<1>7. QED
  BY <1>2, <1>6, RunIsEnough

-----------------------------------------------------------------------------
\* PruneInv holds in every state of the registry, whoever builds, promotes and prunes.
THEOREM PruneInvariant == PruneSpec => []PruneInv
<1>1. PruneInit => PruneInv
  BY PruneInitInv
<1>2. PruneInv /\ [PruneNext]_pruneVars => PruneInv'
  BY PruneNextInv
<1>3. QED
  BY <1>1, <1>2, PTL DEF PruneSpec

\* The values of the registry, of promoted.json and of the run.
THEOREM PruneTypeTheorem == PruneSpec => []PruneTypeOK
<1>1. PruneInv => PruneTypeOK
  BY DEF PruneInv
<1>2. QED
  BY <1>1, PruneInvariant, PTL

\* promoted.json: the recorded image has the code of the recorded commit, whichever jobs
\* were cancelled, overtaken or run again.
THEOREM RecordedTheorem == PruneSpec => []RecordedIsValidated
<1>1. PruneInv => RecordedIsValidated
  BY DEF PruneInv, PromotionInv
<1>2. QED
  BY <1>1, PruneInvariant, PTL

\* registry_prune, its confirmation: the run deletes nothing that had been promoted when
\* it looked.
THEOREM PromotedTheorem == PruneSpec => PromotedIsKept
<1>1. ASSUME PruneInv, [PruneNext]_pruneVars, NEW v \in 1..Len(content), Deleted(v)
      PROVE  v \notin before
  <2>0. PromotionInv /\ Run
    BY <1>1, RunIsEnough
  <2>1. CASE World
    BY <1>1, <2>0, <2>1, WorldGrows DEF World, Deleted
  <2>2. CASE \E w \in 1..Len(content) : Delete(w)
    BY <1>1, <2>0, <2>2 DEF Delete, Deleted, Run
  <2>3. CASE UNCHANGED exists
    BY <1>1, <2>3 DEF Deleted
  <2>4. QED
    BY <1>1, <2>1, <2>2, <2>3
    DEF PruneNext, Age, Confirm, Refuse, ListVersions, ListHeads, Plan, ApiFails,
        pruneVars, promotionVars
<1>2. PruneInv /\ [PruneNext]_pruneVars => \A v \in 1..Len(content) : Deleted(v) => v \notin before
  BY <1>1
<1>3. PruneInit => PruneInv
  BY PruneInitInv
<1>4. PruneInv /\ [PruneNext]_pruneVars => PruneInv'
  BY PruneNextInv
<1>5. QED
  BY <1>2, <1>3, <1>4, PTL DEF PruneSpec, PromotedIsKept
=============================================================================
