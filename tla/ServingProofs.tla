---------------------------- MODULE ServingProofs ----------------------------
(***************************************************************************)
(* Proofs about Serving for every set of pages, links, tabs and connections: *)
(* a calm request gets the current site, requests never go back to an older  *)
(* build, only a removal loses the site, only dead links are reported and    *)
(* all are checked recently, a connected page shows the latest broadcast     *)
(* and no done channel is closed twice.                                      *)
(***************************************************************************)
EXTENDS Serving, WellFoundedInduction, TLAPS

(* Serving.  A site is its number and the pages it has; one that is served  *)
(* has the start page.                                                      *)
Sites == {S!Absent} \cup [n : 1 .. built, has : {h \in SUBSET SitePages : <<>> \in h}]

Reqs == [pc : {"idle", "resolved", "ok", "pending", "missing", "redirect"}, path : Seq(Segments),
         root : {"", "out", "prev", "project"}, calm : BOOLEAN, cookie : BOOLEAN]

ServingTypes ==
  /\ built \in Nat /\ failures \in Nat /\ kills \in Nat /\ cleaning \in Nat /\ seen \in 0 .. built
  /\ out \in Sites /\ prev \in Sites /\ stage \in Sites
  /\ at \in {"idle", "remove", "backup", "promote"}
  /\ req \in Reqs

(* During a promotion the staging directory has the newest build.           *)
StageIsNewest == at # "idle" => stage.n = built /\ stage # S!Absent

(* The backup is not newer than the output, and neither is older than what  *)
(* was seen and can still be asked for.                                     *)
SeenIsOlder ==
  /\ out # S!Absent /\ prev # S!Absent => out.n >= prev.n
  /\ out # S!Absent => out.n >= seen
  /\ out = S!Absent /\ prev # S!Absent => prev.n >= seen
  /\ req.pc = "resolved" /\ req.root = "prev" /\ prev # S!Absent => prev.n >= seen

(* A request that nothing has disturbed is looked up in the output.         *)
CalmIsOut == req.calm /\ at = "idle" /\ out # S!Absent /\ req.pc = "resolved" => req.root = "out"

ServingInv ==
  ServingTypes /\ StageIsNewest /\ SeenIsOlder /\ CalmIsOut /\ S!CalmIsCurrent /\ S!RedirectIsFound

(* The nearest page above is there when the site has its start page.        *)
LEMMA NearestIsFound ==
  ASSUME NEW path \in Seq(Segments), path # <<>>, NEW root, <<>> \in S!At(root).has
  PROVE  /\ S!FindNearestValidParent(root, path) \in S!At(root).has
         /\ S!FindNearestValidParent(root, path) \in Seq(Segments)
<1> DEFINE above == {q \in S!Prefixes(path) : q # path /\ S!Found(root, q)}
<1>1. S!Prefixes(path) = {SubSeq(path, 1, l) : l \in 0 .. Len(path)}
  BY DEF S!Prefixes
<1>2. \A q \in S!Prefixes(path) : q \in Seq(Segments) /\ Len(q) \in 0 .. Len(path)
  BY <1>1
<1>3. <<>> \in S!Prefixes(path)
  <2>1. SubSeq(path, 1, 0) = <<>> /\ 0 \in 0 .. Len(path)
    OBVIOUS
  <2> QED BY <1>1, <2>1
<1>4. <<>> \in above
  BY <1>3 DEF S!Found
<1>5. \E q \in above : \A r \in above : Len(r) <= Len(q)
  <2> DEFINE T == {Len(path) - Len(q) : q \in above}
  <2>1. T \subseteq Nat /\ T # {}
    BY <1>2, <1>4
  <2>2. PICK m \in T : \A y \in T : ~(<<y, m>> \in OpToRel(<, Nat))
    BY <2>1, NatLessThanWellFounded, WFMin
  <2>3. \A y \in T : ~(y < m)
    BY <2>1, <2>2 DEF OpToRel
  <2>4. PICK q \in above : m = Len(path) - Len(q)
    BY <2>2
  <2>5. ASSUME NEW r \in above PROVE Len(r) <= Len(q)
    <3>1. Len(path) - Len(r) \in T
      BY <2>5
    <3>2. Len(r) \in Nat /\ Len(q) \in Nat /\ Len(path) \in Nat
      BY <1>2, <2>4, <2>5
    <3>3. ~(Len(path) - Len(r) < Len(path) - Len(q))
      BY <2>3, <2>4, <3>1
    <3> QED BY <3>2, <3>3
  <2> QED BY <2>4, <2>5
<1>6. S!FindNearestValidParent(root, path) = CHOOSE q \in above : \A r \in above : Len(r) <= Len(q)
  BY <1>4 DEF S!FindNearestValidParent
<1>7. S!FindNearestValidParent(root, path) \in above
  BY <1>5, <1>6
<1> QED BY <1>2, <1>7 DEF S!Found

LEMMA ServingInit == S!Init => ServingInv
<1> SUFFICES ASSUME S!Init PROVE ServingInv
  OBVIOUS
<1>1. /\ out = S!Absent /\ prev = S!Absent /\ stage = S!Absent /\ at = "idle" /\ cleaning = 0 /\ built = 0
      /\ failures = 0 /\ kills = 0 /\ seen = 0
      /\ req = [pc |-> "idle", path |-> <<>>, root |-> "", calm |-> FALSE, cookie |-> FALSE]
  BY DEF S!Init, S!NoReq
<1>2. S!Absent \in Sites
  BY DEF Sites
<1>3. req \in Reqs
  <2>1. <<>> \in Seq(Segments)
    OBVIOUS
  <2> QED BY <1>1, <2>1 DEF Reqs
<1>4. ServingTypes
  <2>1. built \in Nat /\ failures \in Nat /\ kills \in Nat /\ cleaning \in Nat /\ seen \in 0 .. built
    <3>1. built = 0 /\ failures = 0 /\ kills = 0 /\ cleaning = 0 /\ seen = 0
      BY <1>1
    <3> QED BY <3>1
  <2> QED BY <1>1, <1>2, <1>3, <2>1 DEF ServingTypes
<1>5. StageIsNewest /\ SeenIsOlder /\ CalmIsOut /\ S!CalmIsCurrent /\ S!RedirectIsFound
  BY <1>1 DEF StageIsNewest, SeenIsOlder, CalmIsOut, S!CalmIsCurrent, S!RedirectIsFound
<1> QED BY <1>4, <1>5 DEF ServingInv

(* What the directories are: absent, or a numbered site with a start page.  *)
LEMMA SiteFacts ==
  ASSUME built \in Nat, NEW d \in Sites
  PROVE  /\ d = S!Absent \/ (d.n \in 1 .. built /\ <<>> \in d.has /\ d # S!Absent)
         /\ d.n \in 0 .. built /\ (d = S!Absent => d.n = 0 /\ d.has = {})
  BY DEF Sites, S!Absent

LEMMA DisturbFacts ==
  ASSUME ServingTypes, S!Disturb
  PROVE  ~req'.calm /\ req'.pc = req.pc /\ req'.root = req.root /\ req'.path = req.path /\ req' \in Reqs
  BY DEF ServingTypes, S!Disturb, Reqs

(* finalizeStaging: whatever a step does to a request under way, it is no   *)
(* longer calm.                                                             *)
LEMMA PromotionSteps ==
  ASSUME ServingInv, S!BeginStaging \/ S!RemoveOldBackup \/ S!Backup \/ S!Promote \/ S!Clean \/ S!Kill
  PROVE  ServingInv' /\ S!NeverGoesBack /\ S!OnlyRemovalLosesSite
<1> USE ServingAssumption
<1>1. /\ built \in Nat /\ seen \in 0 .. built /\ cleaning \in Nat /\ failures \in Nat /\ kills \in Nat
      /\ out \in Sites /\ prev \in Sites /\ stage \in Sites /\ req \in Reqs
      /\ at \in {"idle", "remove", "backup", "promote"}
  BY DEF ServingInv, ServingTypes
<1>a. /\ out.n \in Nat /\ prev.n \in Nat /\ stage.n \in Nat /\ seen \in Nat
      /\ out.n <= built /\ prev.n <= built /\ stage.n <= built /\ seen <= built
  BY <1>1, SiteFacts, SMTT(40)
<1>b. ASSUME seen' = seen PROVE S!NeverGoesBack
  BY <1>b, <1>a DEF S!NeverGoesBack
<1>2. CASE S!BeginStaging
  <2>1. /\ at = "idle" /\ built' = built + 1 /\ at' = "remove"
        /\ UNCHANGED <<out, prev, cleaning, failures, kills, req, seen>>
        /\ \E h \in {SitePages, {<<>>}} : stage' = [n |-> built + 1, has |-> h]
    BY <1>2 DEF S!BeginStaging
  <2>2. stage' \in Sites' /\ stage'.n = built' /\ stage' # S!Absent
    BY <2>1, <1>1 DEF Sites, S!Absent
  <2>3. out \in Sites' /\ prev \in Sites' /\ seen \in 0 .. built' /\ built' \in Nat
    BY <2>1, <1>1, SMTT(30) DEF Sites
  <2>4. ServingTypes'
    BY <2>1, <2>2, <2>3, <1>1 DEF ServingTypes, Reqs
  <2>5. StageIsNewest' /\ CalmIsOut' /\ S!CalmIsCurrent' /\ S!RedirectIsFound'
    BY <2>1, <2>2 DEF StageIsNewest, CalmIsOut, S!CalmIsCurrent, S!RedirectIsFound
  <2>6. SeenIsOlder'
    BY <2>1 DEF ServingInv, SeenIsOlder
  <2>7. S!OnlyRemovalLosesSite
    BY <2>1 DEF S!OnlyRemovalLosesSite
  <2>8. S!NeverGoesBack
    BY <2>1, <1>b
  <2> QED BY <2>4, <2>5, <2>6, <2>7, <2>8 DEF ServingInv
<1>3. CASE S!RemoveOldBackup \/ S!Backup \/ S!Promote \/ S!Clean
  <2>1. /\ S!Disturb /\ UNCHANGED <<built, kills, seen>> /\ Sites' = Sites
    BY <1>3 DEF S!RemoveOldBackup, S!Backup, S!Promote, S!Clean, Sites
  <2>2. /\ ~req'.calm /\ req'.pc = req.pc /\ req'.root = req.root /\ req' \in Reqs
    BY <2>1, DisturbFacts DEF ServingInv
  <2>3. CalmIsOut' /\ S!CalmIsCurrent' /\ S!RedirectIsFound'
    BY <2>2 DEF CalmIsOut, S!CalmIsCurrent, S!RedirectIsFound
  <2>4. S!NeverGoesBack
    BY <2>1, <1>b
  <2>5. S!Absent \in Sites /\ S!Absent.n = 0
    BY DEF Sites, S!Absent
  <2>x. ASSUME out' \in Sites, prev' \in Sites, stage' \in Sites, cleaning' \in Nat, failures' \in Nat,
               at' \in {"idle", "remove", "backup", "promote"}
        PROVE  ServingTypes'
    BY <2>x, <2>1, <2>2, <1>1 DEF ServingTypes, Reqs
  <2>6. CASE S!RemoveOldBackup
    <3>1. /\ at = "remove" /\ at' = "backup" /\ prev' \in {S!Absent, prev} /\ failures' \in {failures, failures + 1}
          /\ UNCHANGED <<out, stage, cleaning>>
      BY <2>6 DEF S!RemoveOldBackup
    <3>2. ServingTypes'
      <4>1. failures' \in Nat
        BY <3>1, <1>1
      <4>2. out' \in Sites /\ prev' \in Sites /\ stage' \in Sites /\ cleaning' \in Nat
        BY <3>1, <2>5, <1>1
      <4> QED BY <4>1, <4>2, <3>1, <2>x
    <3>3. StageIsNewest' /\ SeenIsOlder'
      BY <3>1, <2>1, <2>2 DEF ServingInv, StageIsNewest, SeenIsOlder
    <3>4. S!OnlyRemovalLosesSite
      BY <3>1 DEF S!OnlyRemovalLosesSite
    <3> QED BY <3>2, <3>3, <3>4, <2>3, <2>4 DEF ServingInv
  <2>7. CASE S!Backup
    <3>1. /\ at = "backup" /\ UNCHANGED <<cleaning, failures>>
          /\ \/ at' = "idle" /\ stage' = S!Absent /\ out' = out /\ prev' = prev
             \/ /\ at' = "promote" /\ stage' = stage /\ out' = S!Absent
                /\ out # S!Absent => prev = S!Absent
                /\ prev' = IF out # S!Absent THEN out ELSE prev
      BY <2>7 DEF S!Backup
    <3>2. ServingTypes'
      <4>1. out' \in Sites /\ prev' \in Sites /\ stage' \in Sites /\ cleaning' \in Nat /\ failures' \in Nat
        BY <3>1, <2>5, <1>1
      <4> QED BY <4>1, <3>1, <2>x
    <3>3. StageIsNewest' /\ SeenIsOlder'
      BY <3>1, <2>1, <2>2 DEF ServingInv, StageIsNewest, SeenIsOlder
    <3>4. S!OnlyRemovalLosesSite
      BY <3>1 DEF S!OnlyRemovalLosesSite
    <3> QED BY <3>2, <3>3, <3>4, <2>3, <2>4 DEF ServingInv
  <2>8. CASE S!Promote
    <3>1. /\ at = "promote" /\ at' = "idle" /\ stage' = S!Absent /\ prev' = prev
          /\ \/ out' = stage /\ cleaning' = cleaning + 1 /\ failures' = failures
             \/ out' = out /\ cleaning' = cleaning /\ failures' = failures + 1
      BY <2>8 DEF S!Promote
    <3>2. stage.n = built /\ stage # S!Absent
      BY <3>1 DEF ServingInv, StageIsNewest
    <3>3. ServingTypes'
      <4>1. cleaning' \in Nat /\ failures' \in Nat
        BY <3>1, <1>1, SMTT(40)
      <4>2. out' \in Sites /\ prev' \in Sites /\ stage' \in Sites
        BY <3>1, <2>5, <1>1
      <4> QED BY <4>1, <4>2, <3>1, <2>x
    <3>4. StageIsNewest' /\ SeenIsOlder'
      <4>1. stage.n >= seen /\ (out # S!Absent => out.n >= seen)
        BY <3>2, <1>a DEF ServingInv, SeenIsOlder
      <4>3. out' # S!Absent /\ prev' # S!Absent => out'.n >= prev'.n
        BY <3>1, <3>2, <1>a DEF ServingInv, SeenIsOlder
      <4>2. (out' # S!Absent => out'.n >= seen) /\ (out' = S!Absent => out' = out)
        BY <4>1, <3>1, <3>2
      <4> QED BY <3>1, <4>2, <4>3, <2>1, <2>2 DEF ServingInv, StageIsNewest, SeenIsOlder
    <3>5. S!OnlyRemovalLosesSite
      BY <3>1, <3>2 DEF S!OnlyRemovalLosesSite
    <3> QED BY <3>3, <3>4, <3>5, <2>3, <2>4 DEF ServingInv
  <2>9. CASE S!Clean
    <3>1. /\ cleaning > 0 /\ cleaning' = cleaning - 1 /\ prev' = S!Absent /\ UNCHANGED <<out, stage, at, failures>>
      BY <2>9 DEF S!Clean
    <3>2. ServingTypes'
      <4>1. cleaning' \in Nat
        BY <3>1, <1>1, SMTT(30)
      <4>2. out' \in Sites /\ prev' \in Sites /\ stage' \in Sites /\ failures' \in Nat
        BY <3>1, <2>5, <1>1
      <4> QED BY <4>1, <4>2, <3>1, <1>1, <2>x
    <3>3. StageIsNewest' /\ SeenIsOlder'
      BY <3>1, <2>1, <2>2 DEF ServingInv, StageIsNewest, SeenIsOlder
    <3>4. S!OnlyRemovalLosesSite
      <4>1. cleaning' < cleaning
        BY <3>1, <1>1
      <4>2. {out', prev'} = {S!Absent} => out = S!Absent
        BY <3>1
      <4> QED BY <4>1, <4>2 DEF S!OnlyRemovalLosesSite
    <3> QED BY <3>2, <3>3, <3>4, <2>3, <2>4 DEF ServingInv
  <2> QED BY <1>3, <2>6, <2>7, <2>8, <2>9
<1>4. CASE S!Kill
  <2>1. /\ at' = "idle" /\ cleaning' = 0 /\ req' = S!NoReq /\ kills' = kills + 1
        /\ UNCHANGED <<out, prev, stage, built, failures, seen>> /\ Sites' = Sites
    BY <1>4 DEF S!Kill, Sites
  <2>2. req'.pc = "idle" /\ ~req'.calm /\ req' \in Reqs
    BY <2>1 DEF S!NoReq, Reqs
  <2>3. ServingTypes'
    <3>1. cleaning' \in Nat /\ kills' \in Nat
      BY <2>1, <1>1, SMTT(30)
    <3> QED BY <3>1, <2>1, <2>2, <1>1 DEF ServingTypes, Reqs
  <2>4. StageIsNewest' /\ CalmIsOut' /\ S!CalmIsCurrent' /\ S!RedirectIsFound'
    BY <2>1, <2>2 DEF StageIsNewest, CalmIsOut, S!CalmIsCurrent, S!RedirectIsFound
  <2>5. SeenIsOlder'
    BY <2>1, <2>2 DEF ServingInv, SeenIsOlder
  <2>6. S!OnlyRemovalLosesSite
    BY <2>1 DEF S!OnlyRemovalLosesSite
  <2>7. S!NeverGoesBack
    BY <2>1, <1>b
  <2> QED BY <2>3, <2>4, <2>5, <2>6, <2>7 DEF ServingInv
<1> QED BY <1>2, <1>3, <1>4

(* Requests: the root is looked up when a request arrives or follows a      *)
(* redirect, and the page is opened below it later.                         *)
LEMMA RequestSteps ==
  ASSUME ServingInv,
         \/ \E p \in SitePages : S!Request(p)
         \/ S!HandleStatusPage \/ S!ServeFile \/ S!Answer \/ S!Follow
  PROVE  ServingInv' /\ S!NeverGoesBack /\ S!OnlyRemovalLosesSite
<1> USE ServingAssumption
<1>1. /\ built \in Nat /\ seen \in 0 .. built /\ cleaning \in Nat /\ failures \in Nat /\ kills \in Nat
      /\ out \in Sites /\ prev \in Sites /\ stage \in Sites /\ req \in Reqs
      /\ at \in {"idle", "remove", "backup", "promote"}
  BY DEF ServingInv, ServingTypes
<1>a. /\ out.n \in 0 .. built /\ prev.n \in 0 .. built /\ seen \in Nat
      /\ out # S!Absent => <<>> \in out.has
      /\ prev # S!Absent => <<>> \in prev.has
      /\ S!Absent.has = {}
  BY <1>1, SiteFacts DEF S!Absent
<1>2. UNCHANGED <<out, prev, stage, at, cleaning, built, failures, kills>> /\ Sites' = Sites
  BY DEF S!Request, S!HandleStatusPage, S!ServeFile, S!Answer, S!Follow, Sites
<1>3. S!OnlyRemovalLosesSite
  BY <1>2 DEF S!OnlyRemovalLosesSite
<1>4. StageIsNewest'
  BY <1>2 DEF ServingInv, StageIsNewest
<1>5. /\ S!ResolveDocsRoot \in {"out", "prev", "project"}
      /\ out # S!Absent => S!ResolveDocsRoot = "out"
      /\ S!ResolveDocsRoot = "prev" => out = S!Absent
  BY DEF S!ResolveDocsRoot
<1>b. ASSUME req' \in Reqs, seen' \in 0 .. built PROVE ServingTypes'
  BY <1>b, <1>1, <1>2 DEF ServingTypes, Reqs
<1>6. ASSUME req' \in Reqs, seen' = seen, req'.pc \in {"idle", "resolved", "redirect"},
             req'.pc = "resolved" => req'.root = S!ResolveDocsRoot,
             req'.pc = "redirect" /\ out # S!Absent => req'.path \in out.has
      PROVE  ServingInv' /\ S!NeverGoesBack
  <2>1. ServingTypes'
    BY <1>b, <1>1, <1>6
  <2>2. SeenIsOlder'
    BY <1>2, <1>5, <1>6 DEF ServingInv, SeenIsOlder
  <2>3. CalmIsOut' /\ S!CalmIsCurrent'
    BY <1>2, <1>5, <1>6 DEF CalmIsOut, S!CalmIsCurrent
  <2>4. S!RedirectIsFound'
    BY <1>2, <1>6 DEF S!RedirectIsFound, S!Found, S!At
  <2>5. S!NeverGoesBack
    BY <1>a, <1>6 DEF S!NeverGoesBack
  <2> QED BY <2>1, <2>2, <2>3, <2>4, <2>5, <1>4 DEF ServingInv
<1>7. ASSUME NEW p \in SitePages, S!Request(p) PROVE ServingInv' /\ S!NeverGoesBack
  <2>1. PICK c \in BOOLEAN :
          req' = [pc |-> "resolved", path |-> p, root |-> S!ResolveDocsRoot, calm |-> at = "idle", cookie |-> c]
    BY <1>7 DEF S!Request
  <2>2. p \in Seq(Segments) /\ (at = "idle") \in BOOLEAN
    BY <1>7
  <2>3. req' \in Reqs /\ req'.pc = "resolved" /\ req'.root = S!ResolveDocsRoot
    BY <1>5, <2>1, <2>2 DEF Reqs
  <2>4. seen' = seen
    BY <1>7 DEF S!Request
  <2> QED BY <2>3, <2>4, <1>6
<1>8. CASE S!Follow
  <2>1. req' = [req EXCEPT !.pc = "resolved", !.root = S!ResolveDocsRoot, !.cookie = FALSE] /\ seen' = seen
    BY <1>8 DEF S!Follow
  <2>2. req' \in Reqs /\ req'.pc = "resolved" /\ req'.root = S!ResolveDocsRoot
    BY <1>1, <1>5, <2>1 DEF Reqs
  <2> QED BY <2>1, <2>2, <1>3, <1>6
<1>9. CASE S!Answer
  <2> DEFINE to == S!FindNearestValidParent(S!ResolveDocsRoot, req.path)
  <2>1. /\ seen' = seen
        /\ \/ req' = S!NoReq
           \/ to # req.path /\ req' = [req EXCEPT !.pc = "redirect", !.path = to, !.root = S!ResolveDocsRoot]
    BY <1>9 DEF S!Answer
  <2>2. CASE req' = S!NoReq
    <3>1. req' \in Reqs /\ req'.pc = "idle"
      BY <2>2 DEF S!NoReq, Reqs
    <3> QED BY <2>1, <3>1, <1>3, <1>6
  <2>3. CASE to # req.path /\ req' = [req EXCEPT !.pc = "redirect", !.path = to, !.root = S!ResolveDocsRoot]
    <3>1. to \in Seq(Segments) /\ (out # S!Absent => to \in out.has)
      <4>1. req.path \in Seq(Segments)
        BY <1>1 DEF Reqs
      <4>2. CASE S!At(S!ResolveDocsRoot) = S!Absent
        <5>1. to = <<>>
          BY <4>2, <1>a DEF S!FindNearestValidParent, S!Found
        <5>2. out = S!Absent
          BY <4>2, <1>5 DEF S!At
        <5> QED BY <5>1, <5>2
      <4>3. CASE S!At(S!ResolveDocsRoot) # S!Absent
        <5>1. <<>> \in S!At(S!ResolveDocsRoot).has
          BY <4>3, <1>a, <1>5 DEF S!At
        <5>2. CASE req.path # <<>>
          <6>1. to \in S!At(S!ResolveDocsRoot).has /\ to \in Seq(Segments)
            BY <4>1, <5>1, <5>2, NearestIsFound
          <6> QED BY <6>1, <1>5 DEF S!At
        <5>3. CASE req.path = <<>>
          <6>1. S!Prefixes(req.path) \subseteq {<<>>}
            BY <5>3 DEF S!Prefixes
          <6>2. to = <<>>
            BY <6>1, <5>3 DEF S!FindNearestValidParent
          <6> QED BY <6>2, <5>3, <2>3
        <5> QED BY <5>2, <5>3
      <4> QED BY <4>2, <4>3
    <3> HIDE DEF to
    <3>2. req' \in Reqs /\ req'.pc = "redirect" /\ req'.path = to
      BY <2>3, <3>1, <1>1, <1>5 DEF Reqs
    <3> QED BY <2>1, <3>1, <3>2, <1>3, <1>6
  <2> QED BY <2>1, <2>2, <2>3
<1>10. CASE S!HandleStatusPage
  <2>1. /\ req.pc = "resolved" /\ out = S!Absent /\ seen' = seen
        /\ req' = [req EXCEPT !.pc = IF req.path = <<>> THEN "pending" ELSE "missing"]
    BY <1>10 DEF S!HandleStatusPage, S!ShouldShowStatusPage
  <2>2. req' \in Reqs /\ req'.pc \in {"pending", "missing"}
    BY <2>1, <1>1 DEF Reqs
  <2>3. ServingTypes'
    BY <2>1, <2>2, <1>b, <1>1
  <2>4. SeenIsOlder' /\ CalmIsOut' /\ S!CalmIsCurrent' /\ S!RedirectIsFound'
    BY <2>1, <2>2, <1>2 DEF ServingInv, SeenIsOlder, CalmIsOut, S!CalmIsCurrent, S!RedirectIsFound
  <2>5. S!NeverGoesBack
    BY <2>1, <1>a DEF S!NeverGoesBack
  <2> QED BY <2>3, <2>4, <2>5, <1>3, <1>4 DEF ServingInv
<1>11. CASE S!ServeFile
  <2> DEFINE found == S!Found(req.root, req.path)
  <2>1. /\ req.pc = "resolved"
        /\ req' = [req EXCEPT !.pc = IF found THEN "ok" ELSE "missing"]
        /\ seen' = IF found THEN S!At(req.root).n ELSE seen
    BY <1>11 DEF S!ServeFile
  <2>2. found => /\ req.root \in {"out", "prev"} /\ S!At(req.root) # S!Absent
                 /\ req.root = "out" => S!At(req.root) = out
                 /\ req.root = "prev" => S!At(req.root) = prev
    BY <1>a DEF S!Found, S!At
  <2>3. S!Found("out", req.path) = (req.path \in out.has)
    BY DEF S!Found, S!At
  <2>4. found \in BOOLEAN /\ (req.root = "out" => found = (req.path \in out.has))
    BY DEF S!Found, S!At
  <2> HIDE DEF found
  <2>5. /\ req' \in Reqs /\ req'.pc = (IF found THEN "ok" ELSE "missing") /\ req'.calm = req.calm
        /\ req'.path = req.path
    BY <2>1, <1>1 DEF Reqs
  <2>6. seen' \in 0 .. built
    BY <2>1, <2>2, <1>a, <1>1
  <2>7. seen' >= seen
    <3>1. found => S!At(req.root).n >= seen
      BY <2>1, <2>2 DEF ServingInv, SeenIsOlder
    <3> QED BY <3>1, <2>1, <1>a
  <2>8. ServingTypes'
    BY <2>5, <2>6, <1>b
  <2>9. SeenIsOlder'
    <3>1. CASE ~found
      BY <3>1, <2>1, <2>5, <1>2 DEF ServingInv, SeenIsOlder
    <3>2. CASE found /\ req.root = "out"
      <4>1. out # S!Absent /\ seen' = out.n /\ out.n \in Nat
        BY <3>2, <2>1, <2>2, <1>a, <1>1, SMTT(40)
      <4> QED BY <3>2, <4>1, <2>5, <1>2 DEF ServingInv, SeenIsOlder
    <3>3. CASE found /\ req.root = "prev"
      <4>1. prev # S!Absent /\ seen' = prev.n /\ prev.n \in Nat
        BY <3>3, <2>1, <2>2, <1>a, <1>1, SMTT(40)
      <4>2. out # S!Absent => out.n >= prev.n
        BY <4>1 DEF ServingInv, SeenIsOlder
      <4> QED BY <3>3, <4>1, <4>2, <2>5, <1>2 DEF SeenIsOlder
    <3> QED BY <3>1, <3>2, <3>3, <2>2
  <2>10. CalmIsOut' /\ S!RedirectIsFound'
    BY <2>5 DEF CalmIsOut, S!RedirectIsFound
  <2>11. S!CalmIsCurrent'
    <3>1. ASSUME req.calm, at = "idle", out # S!Absent
          PROVE  found = (req.path \in out.has) /\ (found => seen' = out.n)
      <4>1. req.root = "out"
        BY <3>1, <2>1 DEF ServingInv, CalmIsOut
      <4> QED BY <4>1, <2>1, <2>2, <2>4
    <3>2. S!Found("out", req.path)' = (req.path \in out.has)
      BY <2>5, <1>2 DEF S!Found, S!At
    <3>3. (req'.pc = "ok") = found
      BY <2>4, <2>5
    <3> QED BY <2>5, <3>1, <3>2, <3>3, <1>2 DEF S!CalmIsCurrent
  <2> QED BY <2>7, <2>8, <2>9, <2>10, <2>11, <1>3, <1>4 DEF ServingInv, S!NeverGoesBack
<1> QED BY <1>3, <1>7, <1>8, <1>9, <1>10, <1>11

LEMMA ServingStep == ServingInv /\ S!Next => ServingInv' /\ S!NeverGoesBack /\ S!OnlyRemovalLosesSite
  BY PromotionSteps, RequestSteps DEF S!Next

LEMMA ServingStutter == ServingInv /\ UNCHANGED servingVars => ServingInv' /\ S!NeverGoesBack /\ S!OnlyRemovalLosesSite
<1> SUFFICES ASSUME ServingInv, UNCHANGED servingVars PROVE ServingInv' /\ S!NeverGoesBack /\ S!OnlyRemovalLosesSite
  OBVIOUS
<1>1. UNCHANGED <<out, prev, stage, at, cleaning, built, failures, kills, req, seen>>
  BY DEF servingVars
<1>2. seen \in Nat
  BY DEF ServingInv, ServingTypes
<1>3. ServingInv'
  <2>1. ServingTypes'
    BY <1>1 DEF ServingInv, ServingTypes, Sites
  <2>2. StageIsNewest' /\ SeenIsOlder' /\ CalmIsOut'
    BY <1>1 DEF ServingInv, StageIsNewest, SeenIsOlder, CalmIsOut
  <2>3. S!CalmIsCurrent' /\ S!RedirectIsFound'
    BY <1>1 DEF ServingInv, S!CalmIsCurrent, S!RedirectIsFound, S!Found, S!At
  <2> QED BY <2>1, <2>2, <2>3 DEF ServingInv
<1> QED BY <1>1, <1>2, <1>3 DEF S!NeverGoesBack, S!OnlyRemovalLosesSite

(* A step of another part leaves the variables of this one alone, and the   *)
(* part is chosen once.                                                     *)
LEMMA ServingPart ==
  [Next]_vars => part' = part /\ (part = "serving" => S!Next \/ UNCHANGED servingVars)
  BY DEF Next, vars, NotReload, NotServing, NotPreview, NotLinks

\* The inductive invariant of the documentation server.
THEOREM ServingKept == Spec => [](part = "serving" => ServingInv)
<1>1. Init => (part = "serving" => ServingInv)
  BY ServingInit DEF Init
<1>2. (part = "serving" => ServingInv) /\ [Next]_vars => (part = "serving" => ServingInv)'
  BY ServingStep, ServingStutter, ServingPart
<1> QED BY <1>1, <1>2, PTL DEF Spec

\* A request during which nothing is promoted is answered with the page of the
\* output, and a redirect made then leads to a page that is there.
THEOREM CalmRequestsAreCurrent == Spec => []CalmIsCurrent
<1>1. (part = "serving" => ServingInv) => CalmIsCurrent
  BY DEF CalmIsCurrent, ServingInv
<1> QED BY <1>1, ServingKept, PTL

\* No step of a promotion, a request or a kill lets requests go back to an older
\* build, and only the removal of a backup loses the last copy of the site.
THEOREM SiteIsNeverLost == Spec => SiteIsKept
<1>1. (part = "serving" => ServingInv) /\ [Next]_vars
        => [part = "serving" => S!NeverGoesBack /\ S!OnlyRemovalLosesSite]_vars
  BY ServingStep, ServingStutter, ServingPart
<1> QED BY <1>1, ServingKept, PTL DEF Spec, SiteIsKept

-----------------------------------------------------------------------------
(* Links.  The types; times are compared below.                             *)
Entry == [valid : BOOLEAN, at : Nat, fails : Nat]
PageEntry == [hash : {1, 2}, at : Nat]
Job == [pc : {"idle", "read", "check", "write"}, prior : Nat, ok : BOOLEAN]

LinkTypes ==
  /\ now \in Nat
  /\ world \in [V!Links -> {"ok", "gone"} \cup Behaviours]
  /\ \A l \in V!Links : V!IsInternalLink(l) => world[l] \in {"ok", "gone"}
  /\ cache \in [V!Links -> Entry \cup {None}] /\ hashes \in [DocPages -> PageEntry \cup {None}]
  /\ page \in [DocPages -> {"idle", "look", "links", "slot", "done"}] /\ todo \subseteq DocPages
  /\ left \in [DocPages -> SUBSET V!Links] /\ \A p \in DocPages : left[p] \subseteq V!LinksOf[p]
  /\ worker \in [V!Worker -> Job]
  /\ reported \subseteq V!Links /\ checked \in [V!Links -> Nat]
  /\ html \in [DocPages -> {1, 2}] /\ meta \in [DocPages -> {1, 2}]

(* A link that has been dead at some time.                                  *)
Dead(l) == \E b \in {"gone", "down", "private"} : <<l, b>> \in answers

(* How a link answers has been recorded, and only a dead one is taken for   *)
(* broken: by the check, by a worker that is about to write, in the cache.  *)
BrokenIsDead ==
  /\ \A l \in V!Links : world[l] # "ok" => <<l, world[l]>> \in answers
  /\ swapping => \A l \in V!Internal : <<l, "gone">> \in answers
  /\ \A l \in V!Links : cache[l] # None /\ ~cache[l].valid => Dead(l)
  /\ \A w \in V!Worker : ~worker[w].ok => Dead(w[2])

(* A worker is a page and one of its links.                                 *)
LEMMA WorkerFacts ==
  /\ \A w \in V!Worker : w[1] \in DocPages /\ w[2] \in V!Links /\ w[2] \in V!LinksOf[w[1]]
  /\ \A p \in DocPages : V!LinksOf[p] \subseteq V!Links
  /\ \A p \in DocPages : \A l \in V!LinksOf[p] : <<p, l>> \in V!Worker
  /\ \A l \in V!Links : \E p \in DocPages : l \in V!LinksOf[p]
<1>1. \A p \in DocPages : \A l \in V!LinksOf[p] : l \in V!Links
  BY DEF V!Links
<1>2. \A l \in V!Links : \E p \in DocPages : l \in V!LinksOf[p]
  BY DEF V!Links
<1>3. \A w \in V!Worker : w[1] \in DocPages /\ w[2] \in V!Links /\ w[2] \in V!LinksOf[w[1]]
  BY DEF V!Worker
<1>4. \A p \in DocPages : \A l \in V!LinksOf[p] : <<p, l>> \in V!Worker
  BY <1>1 DEF V!Worker
<1> QED BY <1>1, <1>2, <1>3, <1>4

(* Only three of the ways a server answers make a link broken.              *)
LEMMA ExternalIsDead ==
  ASSUME NEW b \in {"ok", "gone", "headless", "busy", "private", "nomethod", "down", "slow"},
         ~V!CheckExternalLink(b)
  PROVE  b \in {"gone", "down", "private"}
<1> DEFINE good(s) == ~V!DoExternalRequest(s) \/ V!IsTimeoutError(s) \/ V!IsRateLimited(s)
<1>1. ~good(V!Head(b)) /\ ~(V!Head(b) \in {400, 404} /\ good(V!Get(b)))
  BY DEF V!CheckExternalLink
<1>2. good(200) /\ good(429) /\ good(405) /\ good(0)
  BY DEF V!DoExternalRequest, V!IsTimeoutError, V!IsRateLimited, V!IsAuthError
<1> HIDE DEF good
<1>3. V!Head("ok") = 200 /\ V!Head("headless") = 404 /\ V!Get("headless") = 200 /\ V!Head("busy") = 429
      /\ V!Head("nomethod") = 405 /\ V!Head("slow") = 0
  BY DEF V!Head, V!Get
<1> QED BY <1>1, <1>2, <1>3

LEMMA CheckIsDead ==
  ASSUME LinkTypes, BrokenIsDead, NEW l \in V!Links, ~V!CheckLink(l)
  PROVE  Dead(l)
<1> USE ServingAssumption
<1>1. CASE V!IsInternalLink(l)
  <2>1. world[l] \in {"ok", "gone"} /\ l \in V!Internal
    BY <1>1 DEF LinkTypes, V!Internal
  <2>2. world[l] # "ok" \/ swapping
    BY <1>1 DEF V!CheckLink, V!CheckInternalLink
  <2>3. <<l, "gone">> \in answers
    BY <2>1, <2>2 DEF BrokenIsDead
  <2> QED BY <2>3 DEF Dead
<1>2. CASE ~V!IsInternalLink(l)
  <2>1. world[l] \in {"ok", "gone"} \cup Behaviours
    BY DEF LinkTypes
  <2>2. ~V!CheckExternalLink(world[l])
    BY <1>2 DEF V!CheckLink
  <2>3. world[l] \in {"ok", "gone", "headless", "busy", "private", "nomethod", "down", "slow"}
    BY <2>1
  <2>4. world[l] \in {"gone", "down", "private"}
    BY <2>2, <2>3, ExternalIsDead
  <2>5. <<l, world[l]>> \in answers
    BY <2>4 DEF BrokenIsDead
  <2> QED BY <2>4, <2>5 DEF Dead
<1> QED BY <1>1, <1>2

LEMMA LinkInit == V!Init => LinkTypes /\ BrokenIsDead /\ V!NoFalseAlarm
<1> SUFFICES ASSUME V!Init PROVE LinkTypes /\ BrokenIsDead /\ V!NoFalseAlarm
  OBVIOUS
<1> DEFINE job == [pc |-> "idle", prior |-> 0, ok |-> TRUE]
<1>1. /\ now = 0 /\ world = [l \in V!Links |-> "ok"] /\ html = [p \in DocPages |-> 1] /\ swapping = FALSE
      /\ cache = [l \in V!Links |-> None] /\ hashes = [p \in DocPages |-> None] /\ todo = {}
      /\ meta = [p \in DocPages |-> 1] /\ page = [p \in DocPages |-> "idle"] /\ left = [p \in DocPages |-> {}]
      /\ reported = {} /\ checked = [l \in V!Links |-> 0]
  BY DEF V!Init
<1>2. worker = [w \in V!Worker |-> job]
  BY DEF V!Init
<1>3. job \in Job /\ job.ok
  BY DEF Job
<1> HIDE DEF job
<1>4. worker \in [V!Worker -> Job] /\ \A w \in V!Worker : worker[w].ok
  BY <1>2, <1>3
<1>5. now \in Nat /\ checked \in [V!Links -> Nat]
  BY <1>1
<1>6. /\ html \in [DocPages -> {1, 2}] /\ meta \in [DocPages -> {1, 2}] /\ todo \subseteq DocPages
      /\ left \in [DocPages -> SUBSET V!Links] /\ \A p \in DocPages : left[p] \subseteq V!LinksOf[p]
  BY <1>1
<1>7. /\ world \in [V!Links -> {"ok", "gone"} \cup Behaviours] /\ \A l \in V!Links : world[l] = "ok"
      /\ cache \in [V!Links -> Entry \cup {None}] /\ hashes \in [DocPages -> PageEntry \cup {None}]
      /\ page \in [DocPages -> {"idle", "look", "links", "slot", "done"}] /\ reported \subseteq V!Links
  BY <1>1
<1>8. LinkTypes
  BY <1>4, <1>5, <1>6, <1>7 DEF LinkTypes
<1>9. BrokenIsDead /\ V!NoFalseAlarm
  BY <1>1, <1>4, <1>7 DEF BrokenIsDead, V!NoFalseAlarm
<1> QED BY <1>8, <1>9

(* Each step of a verification and of what happens around it keeps the      *)
(* types.                                                                   *)
LEMMA LinkTypesStep == LinkTypes /\ V!Next => LinkTypes'
<1> SUFFICES ASSUME LinkTypes, V!Next PROVE LinkTypes'
  OBVIOUS
<1>1. /\ now \in Nat /\ world \in [V!Links -> {"ok", "gone"} \cup Behaviours]
      /\ \A l \in V!Links : V!IsInternalLink(l) => world[l] \in {"ok", "gone"}
      /\ cache \in [V!Links -> Entry \cup {None}] /\ hashes \in [DocPages -> PageEntry \cup {None}]
      /\ page \in [DocPages -> {"idle", "look", "links", "slot", "done"}] /\ todo \subseteq DocPages
      /\ left \in [DocPages -> SUBSET V!Links] /\ \A p \in DocPages : left[p] \subseteq V!LinksOf[p]
      /\ worker \in [V!Worker -> Job]
      /\ reported \subseteq V!Links /\ checked \in [V!Links -> Nat]
      /\ html \in [DocPages -> {1, 2}] /\ meta \in [DocPages -> {1, 2}]
  BY DEF LinkTypes
<1> DEFINE
  Around == /\ now \in Nat /\ world \in [V!Links -> {"ok", "gone"} \cup Behaviours]
            /\ \A l \in V!Links : V!IsInternalLink(l) => world[l] \in {"ok", "gone"}
            /\ html \in [DocPages -> {1, 2}]
  Results == /\ cache \in [V!Links -> Entry \cup {None}] /\ reported \subseteq V!Links /\ checked \in [V!Links -> Nat]
             /\ worker \in [V!Worker -> Job]
  Walk == /\ hashes \in [DocPages -> PageEntry \cup {None}] /\ meta \in [DocPages -> {1, 2}]
          /\ page \in [DocPages -> {"idle", "look", "links", "slot", "done"}] /\ todo \subseteq DocPages
          /\ left \in [DocPages -> SUBSET V!Links] /\ \A p \in DocPages : left[p] \subseteq V!LinksOf[p]
<1>2. ASSUME UNCHANGED <<now, world, html>> PROVE Around'
  BY <1>1, <1>2
<1>3. ASSUME UNCHANGED <<cache, reported, checked, worker>> PROVE Results'
  BY <1>1, <1>3
<1>4. ASSUME UNCHANGED <<hashes, meta, page, todo, left>> PROVE Walk'
  BY <1>1, <1>4
<1>5. Around' /\ Results' /\ Walk' => LinkTypes'
  BY DEF LinkTypes
<1>6. Around /\ Results /\ Walk
  BY <1>1
<1> HIDE DEF Around, Results, Walk
<1>7. CASE V!VerifyPages
  <2>1. /\ todo' = DocPages /\ meta' = html
        /\ UNCHANGED <<now, world, html, cache, reported, checked, worker, hashes, page, left>>
    BY <1>7 DEF V!VerifyPages, V!env
  <2>2. Walk'
    BY <1>1, <2>1 DEF Walk
  <2> QED BY <2>1, <2>2, <1>2, <1>3, <1>5
<1>8. ASSUME NEW p \in DocPages, V!StartPage(p) PROVE LinkTypes'
  <2>1. /\ todo' = todo \ {p} /\ page' = [page EXCEPT ![p] = "look"]
        /\ UNCHANGED <<now, world, html, cache, reported, checked, worker, hashes, meta, left>>
    BY <1>8 DEF V!StartPage, V!env
  <2>2. Walk'
    BY <1>1, <2>1 DEF Walk
  <2> QED BY <2>1, <2>2, <1>2, <1>3, <1>5
<1>9. ASSUME NEW p \in DocPages, V!VerifyPage(p) PROVE LinkTypes'
  <2>1. PICK same \in BOOLEAN :
          /\ page' = [page EXCEPT ![p] = IF same THEN "done" ELSE "links"]
          /\ left' = [left EXCEPT ![p] = IF same THEN {} ELSE V!LinksOf[p]]
    BY <1>9 DEF V!VerifyPage
  <2>2. UNCHANGED <<now, world, html, cache, reported, checked, worker, hashes, meta, todo>>
    BY <1>9 DEF V!VerifyPage, V!env
  <2>3. Walk'
    BY <1>1, <2>1, <2>2, WorkerFacts DEF Walk
  <2> QED BY <2>2, <2>3, <1>2, <1>3, <1>5
<1>10. ASSUME NEW p \in DocPages, V!PageEnds(p) PROVE LinkTypes'
  <2>1. /\ page' = [page EXCEPT ![p] = "done"] /\ left' = [left EXCEPT ![p] = {}]
        /\ hashes' \in {hashes, [hashes EXCEPT ![p] = [hash |-> meta[p], at |-> now]]}
        /\ UNCHANGED <<now, world, html, cache, reported, checked, worker, meta, todo>>
    BY <1>10 DEF V!PageEnds, V!env, V!SetPageHash
  <2>2. [hash |-> meta[p], at |-> now] \in PageEntry
    BY <1>1 DEF PageEntry
  <2>3. hashes' \in [DocPages -> PageEntry \cup {None}]
    BY <1>1, <2>1, <2>2
  <2>4. Walk'
    BY <1>1, <2>1, <2>3 DEF Walk
  <2> QED BY <2>1, <2>4, <1>2, <1>3, <1>5
<1>11. ASSUME NEW p \in DocPages, NEW l \in left[p], V!StartLink(p, l) PROVE LinkTypes'
  <2>1. /\ page' = [page EXCEPT ![p] = "links"] /\ left' = [left EXCEPT ![p] = @ \ {l}]
        /\ worker' = [worker EXCEPT ![<<p, l>>] = [pc |-> "read", prior |-> 0, ok |-> TRUE]]
        /\ UNCHANGED <<now, world, html, cache, reported, checked, hashes, meta, todo>>
    BY <1>11 DEF V!StartLink, V!env
  <2>2. [pc |-> "read", prior |-> 0, ok |-> TRUE] \in Job
    BY DEF Job
  <2>3. Results'
    BY <1>1, <2>1, <2>2 DEF Results
  <2>4. Walk'
    BY <1>1, <2>1 DEF Walk
  <2> QED BY <2>1, <2>3, <2>4, <1>2, <1>5
<1>12. ASSUME NEW w \in V!Worker, V!ReadCache(w) PROVE LinkTypes'
  <2>1. UNCHANGED <<now, world, html, cache, hashes, meta, todo, page, left, checked>>
    BY <1>12 DEF V!ReadCache, V!env
  <2>2. PICK e \in {None, cache[w[2]]} :
          /\ reported' \in {reported, reported \cup {w[2]}}
          /\ \/ worker' = [worker EXCEPT ![w] = [@ EXCEPT !.pc = "idle"]]
             \/ worker' = [worker EXCEPT ![w] = [pc |-> "check", prior |-> IF e = None THEN 0 ELSE e.fails, ok |-> TRUE]]
    BY <1>12 DEF V!ReadCache, V!GetCachedResult, V!Finish, V!HandleBrokenLink, V!PublishBrokenLink
  <2>3. w[2] \in V!Links /\ worker[w] \in Job
    BY <1>1, WorkerFacts
  <2>4. [worker[w] EXCEPT !.pc = "idle"] \in Job
    BY <2>3 DEF Job
  <2>5. (IF e = None THEN 0 ELSE e.fails) \in Nat
    BY <1>1, <2>2, <2>3 DEF Entry
  <2>6. [pc |-> "check", prior |-> IF e = None THEN 0 ELSE e.fails, ok |-> TRUE] \in Job
    BY <2>5 DEF Job
  <2>7. Results'
    BY <1>1, <2>1, <2>2, <2>3, <2>4, <2>6, ZenonT(60) DEF Results
  <2> QED BY <2>1, <2>7, <1>2, <1>4, <1>5
<1>13. ASSUME NEW w \in V!Worker, V!VerifyLink(w) PROVE LinkTypes'
  <2>1. UNCHANGED <<now, world, html, cache, hashes, meta, todo, page, left>>
    BY <1>13 DEF V!VerifyLink, V!env
  <2>2. PICK good \in BOOLEAN :
          /\ reported' \in {reported, reported \cup {w[2]}}
          /\ checked' \in {checked, [checked EXCEPT ![w[2]] = now]}
          /\ worker' = [worker EXCEPT ![w] = [pc |-> "write", prior |-> IF good THEN 0 ELSE @.prior + 1, ok |-> good]]
    <3>1. V!CheckLink(w[2]) \in BOOLEAN
      BY DEF V!CheckLink, V!CheckInternalLink, V!CheckExternalLink
    <3> QED BY <3>1, <1>13 DEF V!VerifyLink, V!HandleBrokenLink, V!PublishBrokenLink
  <2>3. w[2] \in V!Links /\ worker[w] \in Job
    BY <1>1, WorkerFacts
  <2>4. [pc |-> "write", prior |-> IF good THEN 0 ELSE worker[w].prior + 1, ok |-> good] \in Job
    BY <2>3 DEF Job
  <2>5. Results'
    BY <1>1, <2>1, <2>2, <2>3, <2>4 DEF Results
  <2> QED BY <2>1, <2>5, <1>2, <1>4, <1>5
<1>14. ASSUME NEW w \in V!Worker, V!WriteCache(w) PROVE LinkTypes'
  <2>1. UNCHANGED <<now, world, html, hashes, meta, todo, page, left, reported, checked>>
    BY <1>14 DEF V!WriteCache, V!env
  <2> DEFINE entry == [valid |-> worker[w].ok, at |-> now, fails |-> worker[w].prior]
  <2>2. /\ cache' \in {cache, [cache EXCEPT ![w[2]] = entry]}
        /\ worker' = [worker EXCEPT ![w] = [@ EXCEPT !.pc = "idle"]]
    BY <1>14 DEF V!WriteCache, V!SetCachedResult, V!Finish
  <2>3. w[2] \in V!Links /\ worker[w] \in Job
    BY <1>1, WorkerFacts
  <2>4. [worker[w] EXCEPT !.pc = "idle"] \in Job /\ entry \in Entry
    BY <2>3, <1>1 DEF Job, Entry
  <2> HIDE DEF entry
  <2>5. Results'
    BY <1>1, <2>1, <2>2, <2>3, <2>4 DEF Results
  <2> QED BY <2>1, <2>5, <1>2, <1>4, <1>5
<1>15. CASE V!RunEnds
  <2>1. /\ todo' = {} /\ page' = [p \in DocPages |-> "idle"]
        /\ UNCHANGED <<now, world, html, cache, reported, checked, worker, hashes, meta, left>>
    BY <1>15 DEF V!RunEnds, V!env
  <2>2. Walk'
    BY <1>1, <2>1 DEF Walk
  <2> QED BY <2>1, <2>2, <1>2, <1>3, <1>5
<1>16. CASE V!Cancel
  <2>1. /\ \E waiting : page' = [p \in DocPages |-> IF p \in waiting THEN "slot" ELSE page[p]]
        /\ UNCHANGED <<now, world, html, cache, reported, checked, worker, hashes, meta, todo, left>>
    BY <1>16 DEF V!Cancel
  <2>2. Walk'
    BY <1>1, <2>1 DEF Walk
  <2> QED BY <2>1, <2>2, <1>2, <1>3, <1>5
<1>17. CASE V!Tick \/ V!Swap \/ V!Swapped \/ V!Outage \/ V!Recovery \/ \E l \in DOMAIN world : V!Change(l)
  <2>1. UNCHANGED <<cache, reported, checked, worker, hashes, meta, page, todo, left>>
    BY <1>17 DEF V!Tick, V!Swap, V!Swapped, V!Outage, V!Recovery, V!Change, V!work
  <2>2. Around'
    <3>1. CASE V!Tick
      <4>1. now' = now + 1 /\ UNCHANGED <<world, html>>
        BY <3>1 DEF V!Tick
      <4> QED BY <4>1, <1>1 DEF Around
    <3>2. CASE V!Swapped
      <4>1. PICK p \in DocPages : html' = [html EXCEPT ![p] = 3 - @]
        BY <3>2 DEF V!Swapped
      <4>2. UNCHANGED <<now, world>>
        BY <3>2 DEF V!Swapped
      <4>3. html[p] \in {1, 2}
        BY <1>1
      <4>4. 3 - html[p] \in {1, 2}
        BY <4>3
      <4>5. html' \in [DocPages -> {1, 2}]
        BY <4>1, <4>4, <1>1
      <4> QED BY <4>2, <4>5, <1>1 DEF Around
    <3>3. ASSUME NEW l \in DOMAIN world, V!Change(l) PROVE Around'
      <4>1. UNCHANGED <<now, html>> /\ l \in V!Links
        BY <3>3, <1>1 DEF V!Change
      <4>2. PICK b \in IF V!IsInternalLink(l) THEN {"ok", "gone"} ELSE Behaviours : world' = [world EXCEPT ![l] = b]
        BY <3>3 DEF V!Change
      <4> QED BY <4>1, <4>2, <1>1 DEF Around
    <3>4. CASE V!Swap \/ V!Outage \/ V!Recovery
      BY <3>4, <1>2 DEF V!Swap, V!Outage, V!Recovery
    <3> QED BY <1>17, <3>1, <3>2, <3>3, <3>4
  <2> QED BY <2>1, <2>2, <1>3, <1>4, <1>5
<1>18. DOMAIN worker = V!Worker
  BY <1>1
<1> QED BY <1>7, <1>8, <1>9, <1>10, <1>11, <1>12, <1>13, <1>14, <1>15, <1>16, <1>17, <1>18 DEF V!Next, V!RunStep

(* What a step may do to the cache, the workers, the events and the world:  *)
(* a result is that of a check, or one that was written before.             *)
Recorded ==
  /\ answers \subseteq answers'
  /\ \A l \in V!Links : world'[l] = world[l] \/ <<l, world'[l]>> \in answers'
  /\ swapping' => swapping \/ \A l \in V!Internal : <<l, "gone">> \in answers'
  /\ \A l \in V!Links : cache'[l] = cache[l] \/ \E w \in V!Worker : w[2] = l /\ cache'[l].valid = worker[w].ok
  /\ \A w \in V!Worker : worker'[w].ok \/ worker'[w].ok = worker[w].ok \/ ~V!CheckLink(w[2])
  /\ \A l \in reported' : l \in reported \/ (cache[l] # None /\ ~cache[l].valid) \/ ~V!CheckLink(l)

LEMMA StepIsRecorded ==
  ASSUME LinkTypes, V!Next PROVE Recorded
<1>1. /\ world \in [V!Links -> {"ok", "gone"} \cup Behaviours]
      /\ cache \in [V!Links -> Entry \cup {None}] /\ worker \in [V!Worker -> Job]
      /\ DOMAIN worker = V!Worker /\ DOMAIN world = V!Links
  BY DEF LinkTypes
<1>2. ASSUME UNCHANGED <<world, swapping, answers, cache, worker, reported>> PROVE Recorded
  BY <1>2 DEF Recorded
<1>3. CASE V!VerifyPages \/ V!RunEnds \/ \E p \in DocPages : V!StartPage(p) \/ V!VerifyPage(p) \/ V!PageEnds(p)
  BY <1>3, <1>2 DEF V!VerifyPages, V!RunEnds, V!StartPage, V!VerifyPage, V!PageEnds, V!env
<1>4. CASE V!Cancel \/ V!Tick \/ V!Swapped \/ V!Outage \/ V!Recovery
  <2>1. UNCHANGED <<world, answers, cache, worker, reported>> /\ (swapping' => swapping)
    BY <1>4 DEF V!Cancel, V!Tick, V!Swapped, V!Outage, V!Recovery, V!work
  <2> QED BY <2>1 DEF Recorded
<1>5. CASE V!Swap
  <2>1. /\ answers' = answers \cup {<<l, "gone">> : l \in V!Internal}
        /\ UNCHANGED <<world, cache, worker, reported>>
    BY <1>5 DEF V!Swap, V!work
  <2> QED BY <2>1 DEF Recorded
<1>6. ASSUME NEW l \in V!Links, V!Change(l) PROVE Recorded
  <2>1. /\ answers' = answers \cup {<<l, world'[l]>>} /\ \E b : world' = [world EXCEPT ![l] = b]
        /\ UNCHANGED <<swapping, cache, worker, reported>>
    BY <1>6 DEF V!Change, V!work
  <2>2. \A k \in V!Links : world'[k] = world[k] \/ <<k, world'[k]>> \in answers'
    BY <1>1, <2>1
  <2> QED BY <2>1, <2>2 DEF Recorded
<1>7. ASSUME NEW p \in DocPages, NEW l \in left[p], V!StartLink(p, l) PROVE Recorded
  <2>1. /\ worker' = [worker EXCEPT ![<<p, l>>] = [pc |-> "read", prior |-> 0, ok |-> TRUE]]
        /\ UNCHANGED <<world, swapping, answers, cache, reported>>
    BY <1>7 DEF V!StartLink, V!env
  <2>2. \A w \in V!Worker : worker'[w].ok \/ worker'[w].ok = worker[w].ok
    BY <1>1, <2>1
  <2> QED BY <2>1, <2>2 DEF Recorded
<1>8. ASSUME NEW w \in V!Worker, V!ReadCache(w) PROVE Recorded
  <2>1. UNCHANGED <<world, swapping, answers, cache>>
    BY <1>8 DEF V!ReadCache, V!env
  <2>2. PICK ok \in BOOLEAN, e \in {None, cache[w[2]]} :
          \/ /\ worker' = [worker EXCEPT ![w] = [@ EXCEPT !.pc = "idle"]] /\ e # None
             /\ reported' \in (IF e.valid THEN {reported} ELSE {reported, reported \cup {w[2]}})
          \/ /\ worker' = [worker EXCEPT ![w] = [pc |-> "check", prior |-> IF e = None THEN 0 ELSE e.fails, ok |-> TRUE]]
             /\ reported' = reported
    BY <1>8 DEF V!ReadCache, V!GetCachedResult, V!IsCacheValid, V!Finish, V!HandleBrokenLink, V!PublishBrokenLink
  <2>3. \A v \in V!Worker : worker'[v].ok \/ worker'[v].ok = worker[v].ok
    BY <1>1, <2>2 DEF Job
  <2>4. \A l \in reported' : l \in reported \/ (cache[l] # None /\ ~cache[l].valid)
    BY <2>2
  <2> QED BY <2>1, <2>3, <2>4 DEF Recorded
<1>9. ASSUME NEW w \in V!Worker, V!VerifyLink(w) PROVE Recorded
  <2> DEFINE good == V!CheckLink(w[2])
  <2>1. UNCHANGED <<world, swapping, answers, cache>>
    BY <1>9 DEF V!VerifyLink, V!env
  <2>2. /\ worker' = [worker EXCEPT ![w] = [pc |-> "write", prior |-> IF good THEN 0 ELSE @.prior + 1, ok |-> good]]
        /\ reported' \in (IF good THEN {reported} ELSE {reported, reported \cup {w[2]}})
    BY <1>9 DEF V!VerifyLink, V!HandleBrokenLink, V!PublishBrokenLink
  <2>3. \A v \in V!Worker : worker'[v].ok \/ worker'[v].ok = worker[v].ok \/ ~V!CheckLink(v[2])
    BY <1>1, <2>2
  <2>4. \A l \in reported' : l \in reported \/ ~V!CheckLink(l)
    BY <2>2
  <2> QED BY <2>1, <2>3, <2>4 DEF Recorded
<1>10. ASSUME NEW w \in V!Worker, V!WriteCache(w) PROVE Recorded
  <2>1. /\ worker' = [worker EXCEPT ![w] = [@ EXCEPT !.pc = "idle"]]
        /\ cache' \in {cache, [cache EXCEPT ![w[2]] = [valid |-> worker[w].ok, at |-> now, fails |-> worker[w].prior]]}
        /\ UNCHANGED <<world, swapping, answers, reported>>
    BY <1>10 DEF V!WriteCache, V!SetCachedResult, V!Finish, V!env
  <2>2. \A v \in V!Worker : worker'[v].ok = worker[v].ok
    BY <1>1, <2>1 DEF Job
  <2>3. \A l \in V!Links : cache'[l] = cache[l] \/ (w[2] = l /\ cache'[l].valid = worker[w].ok)
    BY <1>1, <2>1
  <2> QED BY <2>1, <2>2, <2>3 DEF Recorded
<1> QED BY <1>1, <1>3, <1>4, <1>5, <1>6, <1>7, <1>8, <1>9, <1>10 DEF V!Next, V!RunStep

LEMMA RecordedIsDead ==
  ASSUME LinkTypes, BrokenIsDead, V!NoFalseAlarm, LinkTypes', Recorded
  PROVE  BrokenIsDead' /\ V!NoFalseAlarm'
<1>1. \A l : Dead(l) => Dead(l)'
  BY DEF Recorded, Dead
<1>2. \A l \in V!Links : ~V!CheckLink(l) => Dead(l)
  BY CheckIsDead
<1>3. \A l \in V!Links : world'[l] # "ok" => <<l, world'[l]>> \in answers'
  BY DEF Recorded, BrokenIsDead
<1>4. swapping' => \A l \in V!Internal : <<l, "gone">> \in answers'
  BY DEF Recorded, BrokenIsDead
<1>5. \A l \in V!Links : cache'[l] # None /\ ~cache'[l].valid => Dead(l)
  BY DEF Recorded, BrokenIsDead
<1>6. \A w \in V!Worker : ~worker'[w].ok => Dead(w[2])
  BY <1>2, WorkerFacts DEF Recorded, BrokenIsDead
<1>7. \A l \in reported' : Dead(l)
  <2> SUFFICES ASSUME NEW l \in reported' PROVE Dead(l)
    OBVIOUS
  <2>1. l \in V!Links
    BY DEF LinkTypes
  <2>2. l \in reported => Dead(l)
    BY DEF V!NoFalseAlarm, Dead
  <2> QED BY <2>1, <2>2, <1>2 DEF Recorded, BrokenIsDead
<1>8. BrokenIsDead'
  BY <1>1, <1>3, <1>4, <1>5, <1>6, WorkerFacts DEF BrokenIsDead
<1>9. V!NoFalseAlarm'
  BY <1>1, <1>7 DEF V!NoFalseAlarm, Dead
<1> QED BY <1>8, <1>9

(* What holds of the times as long as no run has been cancelled.            *)
Pending(w) == worker[w].pc # "idle"
Within(l, age) == now - checked[l] <= age

(* A run walks over its pages; between runs nothing is under way.           *)
RunShape ==
  /\ ~cancelled /\ \A p \in DocPages : page[p] # "slot"
  /\ running => \A p \in DocPages : page[p] = "idle" => p \in todo
  /\ ~running => todo = {} /\ (\A p \in DocPages : page[p] = "idle") /\ \A w \in V!Worker : ~Pending(w)

(* A cached result is not newer than the last check of its link.            *)
CacheTimes ==
  /\ \A l \in V!Links : checked[l] <= now
  /\ \A l \in V!Links : cache[l] # None => cache[l].at <= checked[l]
  /\ \A w \in V!Worker : worker[w].pc = "write" => checked[w[2]] = now
  /\ \A p \in DocPages : hashes[p] # None => hashes[p].at <= now

(* Where a page has been looked at, its links are being checked or were     *)
(* recently: when its hash was cached, when it is done, when the goroutine  *)
(* of the link was started.                                                 *)
HashTimes ==
  \A w \in V!Worker : hashes[w[1]] # None =>
    \/ hashes[w[1]].at - checked[w[2]] <= V!Longest - 1
    \/ Pending(w) /\ hashes[w[1]].at = now
DoneTimes == \A w \in V!Worker : page[w[1]] = "done" => Pending(w) \/ Within(w[2], 2 * V!Longest - 2)
StartTimes ==
  \A w \in V!Worker : page[w[1]] = "links" /\ w[2] \notin left[w[1]] => Pending(w) \/ Within(w[2], V!Longest - 1)

Believed == RunShape /\ CacheTimes /\ HashTimes /\ DoneTimes /\ StartTimes

LEMMA LongestFacts ==
  /\ V!Longest \in Nat /\ V!Longest >= 1 /\ V!Longest >= CacheTTL /\ V!Longest >= CacheTTLFailures
  /\ V!CacheBucketTTL = V!Longest
<1>1. CacheTTL \in Nat /\ CacheTTL # 0 /\ CacheTTLFailures \in Nat /\ CacheTTLFailures # 0
  BY ServingAssumption
<1> QED BY <1>1 DEF V!Longest, V!CacheBucketTTL

(* Only a cancellation cuts a run off, and that is remembered.              *)
LEMMA CutStays == V!Next /\ ~cut' => ~cut /\ ~V!Cancel
<1>1. V!Cancel => cut'
  BY DEF V!Cancel
<1>2. V!VerifyPages \/ V!RunEnds \/ (\E p \in DocPages : V!StartPage(p) \/ V!VerifyPage(p) \/ V!PageEnds(p)) => cut' = cut
  BY DEF V!VerifyPages, V!RunEnds, V!StartPage, V!VerifyPage, V!PageEnds, V!env
<1>3. (\E p \in DocPages : \E l \in left[p] : V!StartLink(p, l)) => cut' = cut
  BY DEF V!StartLink, V!env
<1>4. (\E w \in DOMAIN worker : V!ReadCache(w) \/ V!VerifyLink(w) \/ V!WriteCache(w)) => cut' = cut
  BY DEF V!ReadCache, V!VerifyLink, V!WriteCache, V!env
<1>5. V!Tick \/ V!Swap \/ V!Swapped \/ V!Outage \/ V!Recovery \/ (\E l \in DOMAIN world : V!Change(l)) => cut' = cut
  BY DEF V!Tick, V!Swap, V!Swapped, V!Outage, V!Recovery, V!Change
<1> QED BY <1>1, <1>2, <1>3, <1>4, <1>5 DEF V!Next, V!RunStep

LEMMA BelievedInit == V!Init => Believed
<1> SUFFICES ASSUME V!Init PROVE Believed
  OBVIOUS
<1>1. /\ now = 0 /\ cache = [l \in V!Links |-> None] /\ hashes = [p \in DocPages |-> None] /\ todo = {}
      /\ page = [p \in DocPages |-> "idle"] /\ checked = [l \in V!Links |-> 0] /\ running = FALSE /\ cancelled = FALSE
  BY DEF V!Init
<1>2. \A w \in V!Worker : worker[w].pc = "idle"
  BY DEF V!Init
<1>3. \A l \in V!Links : checked[l] <= now
  BY <1>1
<1>4. RunShape
  BY <1>1, <1>2 DEF RunShape, Pending
<1>5. CacheTimes
  BY <1>1, <1>2, <1>3 DEF CacheTimes
<1>6. \A w \in V!Worker : hashes[w[1]] = None /\ page[w[1]] = "idle"
  BY <1>1, WorkerFacts
<1>7. HashTimes
  BY <1>6 DEF HashTimes
<1>8. DoneTimes /\ StartTimes
  BY <1>6 DEF DoneTimes, StartTimes
<1> QED BY <1>4, <1>5, <1>7, <1>8 DEF Believed

(* The clock stands while a run is under way.  A goroutine ends with a      *)
(* result that is not older than it may be believed; checks are only made   *)
(* later.                                                                   *)
LEMMA WorkSettles ==
  ASSUME LinkTypes, RunShape, CacheTimes, V!Next, ~V!Cancel
  PROVE  /\ \A w \in V!Worker : Pending(w) => now' = now /\ (Pending(w)' \/ Within(w[2], V!Longest - 1)')
         /\ \A l \in V!Links : checked[l] <= checked'[l] /\ checked'[l] <= now'
<1> DEFINE Ended(w) == Pending(w) => now' = now /\ (Pending(w)' \/ Within(w[2], V!Longest - 1)')
           Later(l) == checked[l] <= checked'[l] /\ checked'[l] <= now'
<1>1. /\ now \in Nat /\ cache \in [V!Links -> Entry \cup {None}] /\ worker \in [V!Worker -> Job]
      /\ checked \in [V!Links -> Nat] /\ DOMAIN worker = V!Worker /\ DOMAIN world = V!Links
  BY DEF LinkTypes
<1>2. /\ \A l \in V!Links : checked[l] \in Nat /\ checked[l] <= now
  BY <1>1 DEF CacheTimes
<1>3. ASSUME UNCHANGED <<now, checked>> PROVE \A l \in V!Links : Later(l)
  BY <1>2, <1>3
<1>4. ASSUME UNCHANGED <<now, checked, worker>> PROVE (\A w \in V!Worker : Ended(w)) /\ \A l \in V!Links : Later(l)
  BY <1>3, <1>4 DEF Pending
<1>5. CASE V!VerifyPages \/ V!RunEnds \/ \E p \in DocPages : V!StartPage(p) \/ V!VerifyPage(p) \/ V!PageEnds(p)
  BY <1>5, <1>4 DEF V!VerifyPages, V!RunEnds, V!StartPage, V!VerifyPage, V!PageEnds, V!env
<1>6. CASE V!Swap \/ V!Swapped \/ V!Outage \/ V!Recovery \/ \E l \in DOMAIN world : V!Change(l)
  BY <1>6, <1>4 DEF V!Swap, V!Swapped, V!Outage, V!Recovery, V!Change, V!work
<1>7. CASE V!Tick
  <2>1. now' = now + 1 /\ ~running /\ UNCHANGED <<checked, worker>>
    BY <1>7 DEF V!Tick, V!work
  <2>2. \A w \in V!Worker : ~Pending(w)
    BY <2>1 DEF RunShape
  <2>3. \A l \in V!Links : Later(l)
    BY <1>1, <1>2, <2>1
  <2> QED BY <2>2, <2>3
<1>8. ASSUME NEW p \in DocPages, NEW l \in left[p], V!StartLink(p, l)
      PROVE  (\A w \in V!Worker : Ended(w)) /\ \A k \in V!Links : Later(k)
  <2>1. /\ worker' = [worker EXCEPT ![<<p, l>>] = [pc |-> "read", prior |-> 0, ok |-> TRUE]]
        /\ UNCHANGED <<now, checked>>
    BY <1>8 DEF V!StartLink, V!env
  <2>2. \A w \in V!Worker : Pending(w) => Pending(w)'
    BY <1>1, <2>1 DEF Pending
  <2> QED BY <2>1, <2>2, <1>3
<1>9. ASSUME NEW w \in V!Worker, V!ReadCache(w)
      PROVE  (\A v \in V!Worker : Ended(v)) /\ \A l \in V!Links : Later(l)
  <2>1. UNCHANGED <<now, checked>>
    BY <1>9 DEF V!ReadCache, V!env
  <2>2. PICK e \in {None, cache[w[2]]} :
          \/ worker' = [worker EXCEPT ![w] = [@ EXCEPT !.pc = "idle"]] /\ V!IsCacheValid(e)
          \/ worker' = [worker EXCEPT ![w] = [pc |-> "check", prior |-> IF e = None THEN 0 ELSE e.fails, ok |-> TRUE]]
    BY <1>9 DEF V!ReadCache, V!GetCachedResult, V!Finish
  <2>3. \A v \in V!Worker : v # w => worker'[v] = worker[v]
    BY <1>1, <2>2
  <2>4. w[2] \in V!Links
    BY WorkerFacts
  <2>5. Pending(w)' \/ Within(w[2], V!Longest - 1)'
    <3>1. CASE worker' = [worker EXCEPT ![w] = [@ EXCEPT !.pc = "idle"]] /\ V!IsCacheValid(e)
      <4>1. e # None /\ now - e.at < (IF e.valid THEN CacheTTL ELSE CacheTTLFailures)
        BY <3>1 DEF V!IsCacheValid
      <4>2. cache[w[2]] # None /\ e = cache[w[2]]
        BY <4>1, <2>2
      <4>3. e.at \in Nat /\ e.at <= checked[w[2]] /\ checked[w[2]] \in Nat
        BY <4>2, <2>4, <1>1 DEF CacheTimes, Entry
      <4>4. CacheTTL \in Nat /\ CacheTTLFailures \in Nat
        BY ServingAssumption
      <4>5. now - checked[w[2]] <= V!Longest - 1
        BY <4>1, <4>3, <4>4, <1>1, LongestFacts
      <4> QED BY <4>5, <2>1 DEF Within
    <3>2. CASE worker' = [worker EXCEPT ![w] = [pc |-> "check", prior |-> IF e = None THEN 0 ELSE e.fails, ok |-> TRUE]]
      BY <3>2, <1>1 DEF Pending
    <3> QED BY <2>2, <3>1, <3>2
  <2> QED BY <2>1, <2>3, <2>5, <1>3 DEF Pending
<1>10. ASSUME NEW w \in V!Worker, V!VerifyLink(w)
       PROVE  (\A v \in V!Worker : Ended(v)) /\ \A l \in V!Links : Later(l)
  <2>1. /\ now' = now /\ checked' \in {checked, [checked EXCEPT ![w[2]] = now]}
        /\ \E n, ok : worker' = [worker EXCEPT ![w] = [pc |-> "write", prior |-> n, ok |-> ok]]
    BY <1>10 DEF V!VerifyLink, V!env
  <2>2. \A v \in V!Worker : Pending(v) => Pending(v)'
    BY <1>1, <2>1 DEF Pending
  <2>3. \A l \in V!Links : Later(l)
    BY <1>1, <1>2, <2>1
  <2> QED BY <2>1, <2>2, <2>3
<1>11. ASSUME NEW w \in V!Worker, V!WriteCache(w)
       PROVE  (\A v \in V!Worker : Ended(v)) /\ \A l \in V!Links : Later(l)
  <2>1. /\ worker[w].pc = "write" /\ worker' = [worker EXCEPT ![w] = [@ EXCEPT !.pc = "idle"]]
        /\ UNCHANGED <<now, checked>>
    BY <1>11 DEF V!WriteCache, V!Finish, V!env
  <2>2. \A v \in V!Worker : v # w => worker'[v] = worker[v]
    BY <1>1, <2>1
  <2>3. checked[w[2]] = now
    BY <2>1 DEF CacheTimes
  <2>4. now - checked[w[2]] <= V!Longest - 1
    BY <2>3, <1>1, LongestFacts
  <2>5. Within(w[2], V!Longest - 1)'
    BY <2>1, <2>4 DEF Within
  <2> QED BY <2>1, <2>2, <2>5, <1>3 DEF Pending
<1> QED BY <1>1, <1>5, <1>6, <1>7, <1>8, <1>9, <1>10, <1>11 DEF V!Next, V!RunStep

LEMMA RunShapeStep ==
  ASSUME LinkTypes, RunShape, V!Next, ~V!Cancel
  PROVE  RunShape'
<1>1. /\ page \in [DocPages -> {"idle", "look", "links", "slot", "done"}] /\ worker \in [V!Worker -> Job]
      /\ left \in [DocPages -> SUBSET V!Links] /\ todo \subseteq DocPages
      /\ DOMAIN worker = V!Worker /\ DOMAIN world = V!Links
  BY DEF LinkTypes
<1>2. /\ ~cancelled /\ \A p \in DocPages : page[p] # "slot"
      /\ running => \A p \in DocPages : page[p] = "idle" => p \in todo
      /\ ~running => todo = {} /\ (\A p \in DocPages : page[p] = "idle") /\ \A w \in V!Worker : ~Pending(w)
  BY DEF RunShape
<1>3. ASSUME UNCHANGED <<running, cancelled, todo, page, worker>> PROVE RunShape'
  BY <1>2, <1>3 DEF RunShape, Pending
<1>4. ASSUME UNCHANGED <<running, cancelled, todo>>, NEW p \in DocPages, page[p] # "idle",
             NEW s \in {"links", "done"}, page' = [page EXCEPT ![p] = s]
      PROVE  RunShape'
  <2>1. running
    BY <1>2, <1>4
  <2>2. \A q \in DocPages : page'[q] # "slot" /\ (page'[q] = "idle" => page[q] = "idle")
    BY <1>1, <1>2, <1>4
  <2> QED BY <1>2, <1>4, <2>1, <2>2 DEF RunShape
<1>5. ASSUME UNCHANGED <<running, cancelled, todo, page>>, NEW w \in V!Worker, worker[w].pc # "idle" PROVE RunShape'
  <2>1. running
    BY <1>2, <1>5 DEF Pending
  <2> QED BY <1>2, <1>5, <2>1 DEF RunShape
<1>6. CASE V!VerifyPages
  <2>1. running' = TRUE /\ cancelled' = FALSE /\ todo' = DocPages /\ page' = page
    BY <1>6 DEF V!VerifyPages
  <2> QED BY <1>2, <2>1 DEF RunShape
<1>7. CASE V!RunEnds
  <2>1. /\ running' = FALSE /\ cancelled' = cancelled /\ todo' = {} /\ page' = [p \in DocPages |-> "idle"]
        /\ worker' = worker /\ \A w \in V!Worker : worker[w].pc = "idle"
    BY <1>1, <1>7 DEF V!RunEnds
  <2> QED BY <1>2, <2>1 DEF RunShape, Pending
<1>8. ASSUME NEW p \in DocPages, V!StartPage(p) PROVE RunShape'
  <2>1. /\ p \in todo /\ todo' = todo \ {p} /\ page' = [page EXCEPT ![p] = "look"]
        /\ UNCHANGED <<running, cancelled, worker>>
    BY <1>8 DEF V!StartPage
  <2>2. running
    BY <1>2, <2>1
  <2>3. \A q \in DocPages : page'[q] # "slot" /\ (page'[q] = "idle" => page[q] = "idle" /\ q # p)
    BY <1>1, <1>2, <2>1
  <2> QED BY <1>2, <2>1, <2>2, <2>3 DEF RunShape
<1>9. ASSUME NEW p \in DocPages, V!VerifyPage(p) PROVE RunShape'
  <2>1. /\ page[p] = "look" /\ UNCHANGED <<running, cancelled, todo>>
        /\ \E s \in {"links", "done"} : page' = [page EXCEPT ![p] = s]
    BY <1>9 DEF V!VerifyPage
  <2> QED BY <1>4, <2>1
<1>10. ASSUME NEW p \in DocPages, V!PageEnds(p) PROVE RunShape'
  <2>1. page[p] = "links" /\ UNCHANGED <<running, cancelled, todo>> /\ page' = [page EXCEPT ![p] = "done"]
    BY <1>10 DEF V!PageEnds
  <2> QED BY <1>4, <2>1
<1>11. ASSUME NEW p \in DocPages, NEW l \in left[p], V!StartLink(p, l) PROVE RunShape'
  <2>1. page[p] \in {"slot", "links"} /\ UNCHANGED <<running, cancelled, todo>> /\ page' = [page EXCEPT ![p] = "links"]
    BY <1>11 DEF V!StartLink
  <2> QED BY <1>4, <2>1
<1>12. ASSUME NEW w \in V!Worker, V!ReadCache(w) \/ V!VerifyLink(w) \/ V!WriteCache(w) PROVE RunShape'
  <2>1. worker[w].pc # "idle" /\ UNCHANGED <<running, cancelled, todo, page>>
    BY <1>12 DEF V!ReadCache, V!VerifyLink, V!WriteCache
  <2> QED BY <1>5, <2>1
<1>13. CASE V!Tick \/ V!Swap \/ V!Swapped \/ V!Outage \/ V!Recovery \/ \E l \in DOMAIN world : V!Change(l)
  BY <1>3, <1>13 DEF V!Tick, V!Swap, V!Swapped, V!Outage, V!Recovery, V!Change, V!work
<1> QED BY <1>1, <1>6, <1>7, <1>8, <1>9, <1>10, <1>11, <1>12, <1>13 DEF V!Next, V!RunStep

LEMMA CacheTimesStep ==
  ASSUME LinkTypes, RunShape, CacheTimes, V!Next, ~V!Cancel
  PROVE  CacheTimes'
<1>1. /\ now \in Nat /\ cache \in [V!Links -> Entry \cup {None}] /\ worker \in [V!Worker -> Job]
      /\ hashes \in [DocPages -> PageEntry \cup {None}]
      /\ checked \in [V!Links -> Nat] /\ DOMAIN worker = V!Worker /\ DOMAIN world = V!Links
  BY DEF LinkTypes
<1>2. /\ \A l \in V!Links : checked[l] \in Nat /\ checked[l] <= now
      /\ \A l \in V!Links : cache[l] # None => cache[l].at <= checked[l]
      /\ \A w \in V!Worker : worker[w].pc = "write" => checked[w[2]] = now
      /\ \A p \in DocPages : hashes[p] # None => hashes[p].at <= now
  BY <1>1 DEF CacheTimes
<1>3. \A l \in V!Links : checked[l] <= checked'[l] /\ checked'[l] <= now'
  BY WorkSettles
<1>4. \A w \in V!Worker : w[1] \in DocPages /\ w[2] \in V!Links
  BY WorkerFacts
<1>5. ASSUME UNCHANGED <<now, checked, cache, hashes>>, \A w \in V!Worker : worker'[w].pc = "write" => worker[w].pc = "write"
      PROVE  CacheTimes'
  BY <1>2, <1>5 DEF CacheTimes
<1>6. CASE V!VerifyPages \/ V!RunEnds \/ \E p \in DocPages : V!StartPage(p) \/ V!VerifyPage(p)
  BY <1>6, <1>5 DEF V!VerifyPages, V!RunEnds, V!StartPage, V!VerifyPage, V!env
<1>7. CASE V!Swap \/ V!Swapped \/ V!Outage \/ V!Recovery \/ \E l \in DOMAIN world : V!Change(l)
  BY <1>7, <1>5 DEF V!Swap, V!Swapped, V!Outage, V!Recovery, V!Change, V!work
<1>8. CASE V!Tick
  <2>1. now' = now + 1 /\ ~running /\ UNCHANGED <<checked, worker, cache, hashes>>
    BY <1>8 DEF V!Tick, V!work
  <2>2. \A w \in V!Worker : worker'[w].pc # "write"
    BY <2>1 DEF RunShape, Pending
  <2>3. \A p \in DocPages : hashes'[p] # None => hashes'[p].at <= now'
    <3> SUFFICES ASSUME NEW p \in DocPages, hashes[p] # None PROVE hashes[p].at <= now + 1
      BY <2>1
    <3>1. hashes[p].at \in Nat /\ hashes[p].at <= now
      BY <1>1, <1>2 DEF PageEntry
    <3> QED BY <1>1, <3>1
  <2> QED BY <1>2, <1>3, <2>1, <2>2, <2>3 DEF CacheTimes
<1>9. ASSUME NEW p \in DocPages, V!PageEnds(p) PROVE CacheTimes'
  <2>1. /\ hashes' \in {hashes, [hashes EXCEPT ![p] = [hash |-> meta[p], at |-> now]]}
        /\ UNCHANGED <<now, checked, worker, cache>>
    BY <1>9 DEF V!PageEnds, V!env, V!SetPageHash
  <2>2. \A q \in DocPages : hashes'[q] # None => hashes'[q].at <= now
    BY <1>1, <1>2, <2>1
  <2> QED BY <1>2, <2>1, <2>2 DEF CacheTimes
<1>10. ASSUME NEW p \in DocPages, NEW l \in left[p], V!StartLink(p, l) PROVE CacheTimes'
  <2>1. /\ worker' = [worker EXCEPT ![<<p, l>>] = [pc |-> "read", prior |-> 0, ok |-> TRUE]]
        /\ UNCHANGED <<now, checked, cache, hashes>>
    BY <1>10 DEF V!StartLink, V!env
  <2>2. \A w \in V!Worker : worker'[w].pc = "write" => worker[w].pc = "write"
    BY <1>1, <2>1
  <2> QED BY <1>5, <2>1, <2>2
<1>11. ASSUME NEW w \in V!Worker, V!ReadCache(w) PROVE CacheTimes'
  <2>1. /\ UNCHANGED <<now, checked, cache, hashes>>
        /\ \/ worker' = [worker EXCEPT ![w] = [@ EXCEPT !.pc = "idle"]]
           \/ \E n : worker' = [worker EXCEPT ![w] = [pc |-> "check", prior |-> n, ok |-> TRUE]]
    BY <1>11 DEF V!ReadCache, V!env, V!Finish
  <2>2. \A v \in V!Worker : worker'[v].pc = "write" => worker[v].pc = "write"
    BY <1>1, <2>1, SMTT(30) DEF Job
  <2> QED BY <1>5, <2>1, <2>2
<1>12. ASSUME NEW w \in V!Worker, V!VerifyLink(w) PROVE CacheTimes'
  <2>1. /\ checked' = [checked EXCEPT ![w[2]] = now] /\ UNCHANGED <<now, cache, hashes>>
        /\ \E n, ok : worker' = [worker EXCEPT ![w] = [pc |-> "write", prior |-> n, ok |-> ok]]
    BY <1>12 DEF V!VerifyLink, V!env, RunShape
  <2>2. \A v \in V!Worker : worker'[v].pc = "write" => checked'[v[2]] = now
    BY <1>1, <1>2, <1>4, <2>1
  <2>3. \A l \in V!Links : cache[l] # None => cache[l].at <= checked'[l]
    <3> SUFFICES ASSUME NEW l \in V!Links, cache[l] # None PROVE cache[l].at <= checked'[l]
      OBVIOUS
    <3>1. cache[l].at \in Nat /\ cache[l].at <= checked[l] /\ checked[l] <= checked'[l] /\ checked[l] \in Nat
      BY <1>1, <1>2, <1>3 DEF Entry
    <3>2. checked'[l] \in Nat
      BY <1>1, <2>1
    <3> QED BY <3>1, <3>2
  <2> QED BY <1>2, <1>3, <2>1, <2>2, <2>3 DEF CacheTimes
<1>13. ASSUME NEW w \in V!Worker, V!WriteCache(w) PROVE CacheTimes'
  <2>1. /\ worker[w].pc = "write" /\ worker' = [worker EXCEPT ![w] = [@ EXCEPT !.pc = "idle"]]
        /\ cache' \in {cache, [cache EXCEPT ![w[2]] = [valid |-> worker[w].ok, at |-> now, fails |-> worker[w].prior]]}
        /\ UNCHANGED <<now, checked, hashes>>
    BY <1>13 DEF V!WriteCache, V!SetCachedResult, V!Finish, V!env
  <2>2. \A v \in V!Worker : worker'[v].pc = "write" => worker[v].pc = "write"
    BY <1>1, <2>1 DEF Job
  <2>3. checked[w[2]] = now /\ now <= now
    BY <1>1, <1>2, <2>1
  <2>4. \A l \in V!Links : cache'[l] # None => cache'[l].at <= checked[l]
    BY <1>1, <1>2, <2>1, <2>3
  <2> QED BY <1>2, <2>1, <2>2, <2>4 DEF CacheTimes
<1> QED BY <1>1, <1>6, <1>7, <1>8, <1>9, <1>10, <1>11, <1>12, <1>13 DEF V!Next, V!RunStep

(* How long ago a link may have been checked, page by page.                 *)
LEMMA PageTimesStep ==
  ASSUME LinkTypes, LinkTypes', Believed, V!Next, ~V!Cancel
  PROVE  HashTimes' /\ DoneTimes' /\ StartTimes'
<1> DEFINE T == V!Longest
<1>1. /\ now \in Nat /\ hashes \in [DocPages -> PageEntry \cup {None}] /\ left \in [DocPages -> SUBSET V!Links]
      /\ page \in [DocPages -> {"idle", "look", "links", "slot", "done"}] /\ worker \in [V!Worker -> Job]
      /\ DOMAIN worker = V!Worker /\ DOMAIN world = V!Links
  BY DEF LinkTypes
<1>2. T \in Nat /\ T >= 1 /\ V!CacheBucketTTL = T
  BY LongestFacts
<1> HIDE DEF T
<1>3. ASSUME NEW w \in V!Worker
      PROVE  /\ w[1] \in DocPages /\ w[2] \in V!Links /\ w[2] \in V!LinksOf[w[1]]
             /\ checked[w[2]] \in Nat /\ checked'[w[2]] \in Nat /\ checked[w[2]] <= checked'[w[2]]
             /\ Pending(w) => now' = now /\ (Pending(w)' \/ now' - checked'[w[2]] <= T - 1)
             /\ hashes[w[1]] # None => hashes[w[1]].at \in Nat /\ hashes[w[1]].at <= now
  <2>1. w[1] \in DocPages /\ w[2] \in V!Links /\ w[2] \in V!LinksOf[w[1]]
    BY WorkerFacts
  <2>2. checked[w[2]] \in Nat /\ checked'[w[2]] \in Nat
    BY <2>1 DEF LinkTypes
  <2>3. /\ checked[w[2]] <= checked'[w[2]]
        /\ Pending(w) => now' = now /\ (Pending(w)' \/ Within(w[2], T - 1)')
    BY <2>1, WorkSettles DEF Believed, T
  <2>4. hashes[w[1]] # None => hashes[w[1]].at \in Nat /\ hashes[w[1]].at <= now
    BY <2>1, <1>1 DEF Believed, CacheTimes, PageEntry
  <2> QED BY <2>1, <2>2, <2>3, <2>4 DEF Within
(* What a step that leaves the clock alone keeps of the three bounds.       *)
<1>4. ASSUME NEW w \in V!Worker, now' = now,
             hashes[w[1]] # None PROVE \/ hashes[w[1]].at - checked'[w[2]] <= T - 1
                                       \/ Pending(w)' /\ hashes[w[1]].at = now'
  <2>1. hashes[w[1]].at - checked[w[2]] <= T - 1 \/ (Pending(w) /\ hashes[w[1]].at = now)
    BY <1>4 DEF Believed, HashTimes, T
  <2>2. now' \in Nat
    BY <1>1, <1>4
  <2> QED BY <1>1, <1>2, <1>3, <1>4, <2>1, <2>2
<1>5. ASSUME NEW w \in V!Worker, now' = now, page[w[1]] = "done" PROVE Pending(w)' \/ Within(w[2], 2 * T - 2)'
  <2>1. Pending(w) \/ now - checked[w[2]] <= 2 * T - 2
    BY <1>5 DEF Believed, DoneTimes, Within, T
  <2>2. Pending(w)' \/ now' - checked'[w[2]] <= 2 * T - 2
    BY <1>1, <1>2, <1>3, <1>5, <2>1
  <2> QED BY <2>2 DEF Within
<1>6. ASSUME NEW w \in V!Worker, now' = now, page[w[1]] = "links", w[2] \notin left[w[1]]
      PROVE  Pending(w)' \/ now' - checked'[w[2]] <= T - 1
  <2>1. Pending(w) \/ now - checked[w[2]] <= T - 1
    BY <1>6 DEF Believed, StartTimes, Within, T
  <2> QED BY <1>1, <1>2, <1>3, <1>6, <2>1
<1>7. ASSUME now' = now, hashes' = hashes PROVE HashTimes'
  BY <1>4, <1>7 DEF HashTimes, T
<1>8. ASSUME now' = now, \A w \in V!Worker : page'[w[1]] = "done" => page[w[1]] = "done" PROVE DoneTimes'
  BY <1>5, <1>8 DEF DoneTimes, T
<1>9. ASSUME now' = now,
             \A w \in V!Worker : page'[w[1]] = "links" /\ w[2] \notin left'[w[1]]
                                   => page[w[1]] = "links" /\ w[2] \notin left[w[1]]
      PROVE  StartTimes'
  BY <1>6, <1>9 DEF StartTimes, Within, T
<1>10. CASE V!VerifyPages \/ (\E w \in DOMAIN worker : V!ReadCache(w) \/ V!VerifyLink(w) \/ V!WriteCache(w))
         \/ V!Swap \/ V!Swapped \/ V!Outage \/ V!Recovery \/ \E l \in DOMAIN world : V!Change(l)
  <2>1. UNCHANGED <<now, hashes, page, left>>
    BY <1>10 DEF V!VerifyPages, V!ReadCache, V!VerifyLink, V!WriteCache, V!Swap, V!Swapped, V!Outage, V!Recovery,
       V!Change, V!env, V!work
  <2> QED BY <2>1, <1>7, <1>8, <1>9
<1>11. CASE V!RunEnds
  <2>1. UNCHANGED <<now, hashes, left>> /\ page' = [p \in DocPages |-> "idle"]
    BY <1>11 DEF V!RunEnds, V!env
  <2>2. \A w \in V!Worker : page'[w[1]] = "idle"
    BY <2>1, <1>3
  <2> QED BY <2>1, <2>2, <1>7, <1>8, <1>9
<1>12. CASE V!Tick
  <2>1. UNCHANGED <<hashes, page, left, checked, worker>> /\ ~running
    BY <1>12 DEF V!Tick, V!work
  <2>2. \A w \in V!Worker : page'[w[1]] = "idle" /\ ~Pending(w)
    BY <2>1, <1>3 DEF Believed, RunShape
  <2>3. HashTimes'
    BY <2>1, <2>2 DEF Believed, HashTimes
  <2> QED BY <2>2, <2>3 DEF DoneTimes, StartTimes
<1>13. ASSUME NEW p \in DocPages, V!StartPage(p) PROVE HashTimes' /\ DoneTimes' /\ StartTimes'
  <2>1. UNCHANGED <<now, hashes, left>> /\ page' = [page EXCEPT ![p] = "look"]
    BY <1>13 DEF V!StartPage, V!env
  <2>2. \A w \in V!Worker : page'[w[1]] = page[w[1]] \/ page'[w[1]] = "look"
    BY <2>1, <1>1, <1>3
  <2> QED BY <2>1, <2>2, <1>7, <1>8, <1>9
<1>14. ASSUME NEW p \in DocPages, V!VerifyPage(p) PROVE HashTimes' /\ DoneTimes' /\ StartTimes'
  <2>1. UNCHANGED <<now, hashes>>
    BY <1>14 DEF V!VerifyPage, V!env
  <2>2. PICK ok \in BOOLEAN :
          /\ page' = [page EXCEPT ![p] = IF V!GetPageHash(p, ok) = meta[p] THEN "done" ELSE "links"]
          /\ left' = [left EXCEPT ![p] = IF V!GetPageHash(p, ok) = meta[p] THEN {} ELSE V!LinksOf[p]]
    BY <1>14 DEF V!VerifyPage
  <2>3. V!GetPageHash(p, ok) = meta[p] => hashes[p] # None /\ now - hashes[p].at <= T - 1
    <3> SUFFICES ASSUME V!GetPageHash(p, ok) = meta[p] PROVE hashes[p] # None /\ now - hashes[p].at <= T - 1
      OBVIOUS
    <3>1. meta[p] # None
      <4>1. meta[p] \in {1, 2}
        BY DEF LinkTypes
      <4>2. meta[p] \in Nat
        BY <4>1
      <4> QED BY <4>2, ServingAssumption
    <3>2. V!Kept(hashes[p])
      BY <3>1 DEF V!GetPageHash
    <3>3. hashes[p] # None /\ now - hashes[p].at < T
      BY <3>2, <1>2 DEF V!Kept
    <3>4. hashes[p].at \in Nat
      BY <3>3, <1>1 DEF PageEntry
    <3> QED BY <3>3, <3>4, <1>1, <1>2
  <2>4. \A w \in V!Worker : w[1] # p => page'[w[1]] = page[w[1]] /\ left'[w[1]] = left[w[1]]
    BY <2>2, <1>1, <1>3
  <2>5. ASSUME NEW w \in V!Worker, page'[w[1]] = "done" PROVE Pending(w)' \/ Within(w[2], 2 * T - 2)'
    <3>1. CASE w[1] # p
      BY <3>1, <2>1, <2>4, <2>5, <1>5
    <3>2. CASE w[1] = p
      <4>1. hashes[w[1]] # None /\ now - hashes[w[1]].at <= T - 1
        BY <3>2, <2>2, <2>3, <2>5, <1>1
      <4>2. hashes[w[1]].at - checked'[w[2]] <= T - 1 \/ Pending(w)'
        BY <4>1, <2>1, <1>4
      <4>3. Pending(w)' \/ now' - checked'[w[2]] <= 2 * T - 2
        BY <4>1, <4>2, <2>1, <1>1, <1>2, <1>3
      <4> QED BY <4>3 DEF Within
    <3> QED BY <3>1, <3>2
  <2>6. ASSUME NEW w \in V!Worker, page'[w[1]] = "links", w[2] \notin left'[w[1]]
        PROVE  page[w[1]] = "links" /\ w[2] \notin left[w[1]]
    <3>1. w[1] # p
      <4> SUFFICES ASSUME w[1] = p PROVE FALSE
        OBVIOUS
      <4>1. V!GetPageHash(p, ok) # meta[p]
        BY <2>2, <2>6, <1>1
      <4>2. left'[p] = V!LinksOf[p]
        BY <4>1, <2>2, <1>1
      <4> QED BY <4>2, <2>6, <1>3
    <3> QED BY <3>1, <2>4, <2>6
  <2>7. DoneTimes'
    BY <2>5 DEF DoneTimes, T
  <2> QED BY <2>1, <2>6, <2>7, <1>7, <1>9
<1>15. ASSUME NEW p \in DocPages, NEW l \in left[p], V!StartLink(p, l) PROVE HashTimes' /\ DoneTimes' /\ StartTimes'
  <2>1. /\ UNCHANGED <<now, hashes>>
        /\ page' = [page EXCEPT ![p] = "links"] /\ left' = [left EXCEPT ![p] = @ \ {l}]
        /\ worker' = [worker EXCEPT ![<<p, l>>] = [pc |-> "read", prior |-> 0, ok |-> TRUE]]
        /\ page[p] = "slot" \/ page[p] = "links"
    BY <1>15 DEF V!StartLink, V!env
  <2>2. page[p] = "links"
    BY <2>1 DEF Believed, RunShape
  <2>3. page' = page
    BY <2>1, <2>2, <1>1
  <2>4. ASSUME NEW w \in V!Worker, page[w[1]] = "links", w[2] \notin left'[w[1]]
        PROVE  Pending(w)' \/ now' - checked'[w[2]] <= T - 1
    <3>1. CASE w[1] = p /\ w[2] = l
      <4>1. w = <<p, l>>
        BY <3>1, <1>3 DEF V!Worker
      <4>2. worker'[w].pc = "read"
        BY <4>1, <2>1, <1>1
      <4> QED BY <4>2 DEF Pending
    <3>2. CASE ~(w[1] = p /\ w[2] = l)
      <4>1. w[2] \notin left[w[1]]
        BY <3>2, <2>1, <2>4, <1>1, <1>3
      <4> QED BY <4>1, <2>1, <2>4, <1>6
    <3> QED BY <3>1, <3>2
  <2>5. StartTimes'
    BY <2>3, <2>4 DEF StartTimes, Within, T
  <2> QED BY <2>1, <2>3, <2>5, <1>7, <1>8
<1>16. ASSUME NEW p \in DocPages, V!PageEnds(p) PROVE HashTimes' /\ DoneTimes' /\ StartTimes'
  <2>1. /\ now' = now /\ page[p] = "links" /\ left[p] = {}
        /\ page' = [page EXCEPT ![p] = "done"] /\ left' = [left EXCEPT ![p] = {}]
        /\ hashes' \in {hashes, [hashes EXCEPT ![p] = [hash |-> meta[p], at |-> now]]}
    BY <1>16 DEF V!PageEnds, V!env, V!SetPageHash, Believed, RunShape
  <2>2. ASSUME NEW w \in V!Worker, w[1] = p PROVE Pending(w)' \/ now' - checked'[w[2]] <= T - 1
    BY <2>1, <2>2, <1>6
  <2>3. \A w \in V!Worker : w[1] # p => page'[w[1]] = page[w[1]] /\ left'[w[1]] = left[w[1]] /\ hashes'[w[1]] = hashes[w[1]]
    BY <2>1, <1>1, <1>3
  <2>4. ASSUME NEW w \in V!Worker, hashes'[w[1]] # None
        PROVE  hashes'[w[1]].at - checked'[w[2]] <= T - 1 \/ (Pending(w)' /\ hashes'[w[1]].at = now')
    <3>1. CASE hashes'[w[1]] = hashes[w[1]]
      <4>1. hashes[w[1]] # None
        BY <3>1, <2>4
      <4>2. hashes[w[1]].at - checked'[w[2]] <= T - 1 \/ (Pending(w)' /\ hashes[w[1]].at = now')
        BY <4>1, <2>1, <1>4
      <4> QED BY <4>2, <3>1
    <3>2. CASE hashes'[w[1]] # hashes[w[1]]
      <4>1. w[1] = p /\ hashes'[w[1]] = [hash |-> meta[p], at |-> now]
        BY <3>2, <2>1, <2>3, <1>1
      <4>2. hashes'[w[1]].at = now'
        BY <4>1, <2>1
      <4> QED BY <4>1, <4>2, <2>2
    <3> QED BY <3>1, <3>2
  <2>5. ASSUME NEW w \in V!Worker, page'[w[1]] = "done" PROVE Pending(w)' \/ Within(w[2], 2 * T - 2)'
    <3>1. CASE w[1] = p
      <4>1. Pending(w)' \/ now' - checked'[w[2]] <= 2 * T - 2
        BY <3>1, <2>1, <2>2, <1>1, <1>2, <1>3
      <4> QED BY <4>1 DEF Within
    <3>2. CASE w[1] # p
      BY <3>2, <2>1, <2>3, <2>5, <1>5
    <3> QED BY <3>1, <3>2
  <2>6. \A w \in V!Worker : page'[w[1]] = "links" /\ w[2] \notin left'[w[1]] => page[w[1]] = "links" /\ w[2] \notin left[w[1]]
    BY <2>1, <2>3, <1>1
  <2>7. HashTimes' /\ DoneTimes'
    BY <2>4, <2>5 DEF HashTimes, DoneTimes, T
  <2> QED BY <2>1, <2>6, <2>7, <1>9
<1> QED BY <1>10, <1>11, <1>12, <1>13, <1>14, <1>15, <1>16 DEF V!Next, V!RunStep
LEMMA LinkStutter ==
  ASSUME UNCHANGED linkVars
  PROVE  /\ LinkTypes => LinkTypes'
         /\ BrokenIsDead /\ V!NoFalseAlarm => BrokenIsDead' /\ V!NoFalseAlarm'
         /\ Believed => Believed'
         /\ V!RecentWhenDone
<1>1. /\ UNCHANGED <<now, world, swapping, html, cache, hashes, running, cancelled, meta, todo, page, left>>
      /\ UNCHANGED <<worker, reported, answers, checked, cut>>
  BY DEF linkVars
<1>2. LinkTypes => LinkTypes'
  BY <1>1 DEF LinkTypes
<1>3. BrokenIsDead /\ V!NoFalseAlarm => BrokenIsDead' /\ V!NoFalseAlarm'
  BY <1>1 DEF BrokenIsDead, V!NoFalseAlarm, Dead
<1>4. Believed => RunShape' /\ CacheTimes'
  BY <1>1 DEF Believed, RunShape, CacheTimes, Pending
<1>5. Believed => HashTimes' /\ DoneTimes' /\ StartTimes'
  BY <1>1 DEF Believed, HashTimes, DoneTimes, StartTimes, Pending, Within
<1>6. V!RecentWhenDone
  BY <1>1 DEF V!RecentWhenDone
<1> QED BY <1>2, <1>3, <1>4, <1>5, <1>6 DEF Believed

(* A run ends with all its pages done, and none of them is idle still: the  *)
(* bound on the pages that are done is the bound of every link.             *)
LEMMA RunEndsRecent ==
  ASSUME LinkTypes, Believed, V!Next
  PROVE  V!RecentWhenDone
<1> SUFFICES ASSUME running, ~running' PROVE \A l \in V!Links : now - checked[l] <= 2 * V!Longest - 2
  BY DEF V!RecentWhenDone
<1>1. V!RunEnds
  <2>1. ~V!VerifyPages /\ ~(\E p \in DocPages : V!StartPage(p) \/ V!VerifyPage(p) \/ V!PageEnds(p))
    BY DEF V!VerifyPages, V!StartPage, V!VerifyPage, V!PageEnds
  <2>2. ~(\E p \in DocPages : \E l \in left[p] : V!StartLink(p, l))
    BY DEF V!StartLink
  <2>3. ~(\E w \in DOMAIN worker : V!ReadCache(w) \/ V!VerifyLink(w) \/ V!WriteCache(w))
    BY DEF V!ReadCache, V!VerifyLink, V!WriteCache
  <2>4. ~(V!Tick \/ V!Swap \/ V!Swapped \/ V!Outage \/ V!Recovery \/ V!Cancel \/ \E l \in DOMAIN world : V!Change(l))
    BY DEF V!Tick, V!Swap, V!Swapped, V!Outage, V!Recovery, V!Cancel, V!Change, V!work
  <2> QED BY <2>1, <2>2, <2>3, <2>4 DEF V!Next, V!RunStep
<1>2. /\ todo = {} /\ \A p \in DocPages : page[p] \in {"idle", "done"}
      /\ \A w \in V!Worker : worker[w].pc = "idle"
  BY <1>1 DEF V!RunEnds, Believed, RunShape, LinkTypes
<1>3. \A p \in DocPages : page[p] = "done"
  BY <1>2 DEF Believed, RunShape
<1>4. ASSUME NEW l \in V!Links PROVE now - checked[l] <= 2 * V!Longest - 2
  <2>1. PICK p \in DocPages : <<p, l>> \in V!Worker
    BY WorkerFacts
  <2>2. ~Pending(<<p, l>>) /\ page[p] = "done"
    BY <2>1, <1>2, <1>3 DEF Pending
  <2>3. \A w \in V!Worker : page[w[1]] = "done" => Pending(w) \/ Within(w[2], 2 * V!Longest - 2)
    BY DEF Believed, DoneTimes
  <2>4. <<p, l>>[1] = p /\ <<p, l>>[2] = l
    OBVIOUS
  <2>5. Within(l, 2 * V!Longest - 2)
    BY <2>1, <2>2, <2>3, <2>4
  <2> QED BY <2>5 DEF Within
<1> QED BY <1>4

LEMMA LinksPart ==
  [Next]_vars => part' = part /\ (part = "links" => V!Next \/ UNCHANGED linkVars)
  BY DEF Next, vars, NotReload, NotServing, NotPreview, NotLinks

LinkInv == LinkTypes /\ BrokenIsDead /\ V!NoFalseAlarm /\ (~cut => Believed)

LEMMA LinkStep == LinkInv /\ V!Next => LinkInv' /\ V!RecentWhenDone
<1> SUFFICES ASSUME LinkInv, V!Next PROVE LinkInv' /\ V!RecentWhenDone
  OBVIOUS
<1>1. LinkTypes /\ BrokenIsDead /\ V!NoFalseAlarm /\ (~cut => Believed)
  BY DEF LinkInv
<1>2. LinkTypes'
  BY <1>1, LinkTypesStep
<1>3. BrokenIsDead' /\ V!NoFalseAlarm'
  BY <1>1, <1>2, StepIsRecorded, RecordedIsDead
<1>4. ASSUME ~cut' PROVE Believed'
  <2>1. ~V!Cancel /\ Believed
    BY <1>1, <1>4, CutStays
  <2>2. RunShape' /\ CacheTimes'
    BY <1>1, <2>1, RunShapeStep, CacheTimesStep DEF Believed
  <2> QED BY <1>1, <1>2, <2>1, <2>2, PageTimesStep DEF Believed
<1>5. V!RecentWhenDone
  <2>1. cut => V!RecentWhenDone
    BY DEF V!RecentWhenDone
  <2> QED BY <1>1, <2>1, RunEndsRecent
<1> QED BY <1>2, <1>3, <1>4, <1>5 DEF LinkInv

\* The inductive invariant of link verification.
THEOREM LinksKept == Spec => [](part = "links" => LinkInv)
<1>1. Init => (part = "links" => LinkInv)
  BY LinkInit, BelievedInit DEF Init, LinkInv
<1>2. (part = "links" => LinkInv) /\ [Next]_vars => (part = "links" => LinkInv)'
  <2>1. LinkInv /\ UNCHANGED linkVars => LinkInv'
    <3> SUFFICES ASSUME LinkInv, UNCHANGED linkVars PROVE LinkInv'
      OBVIOUS
    <3>1. cut' = cut
      BY DEF linkVars
    <3> QED BY <3>1, LinkStutter DEF LinkInv
  <2> QED BY <2>1, LinkStep, LinksPart
<1> QED BY <1>1, <1>2, PTL DEF Spec

\* An event names a link that has been dead: neither timeouts, rate limits and
\* servers without HEAD, nor outages of the cache, stale results and cancelled runs
\* make one that is not.
THEOREM OnlyDeadLinksReported == Spec => []NoFalseAlarm
<1>1. (part = "links" => LinkInv) => NoFalseAlarm
  BY DEF NoFalseAlarm, LinkInv
<1> QED BY <1>1, LinksKept, PTL

\* When a run that was not cancelled ends, every link has been checked, in it or
\* not longer ago than twice what a result may be believed.
THEOREM LinksCheckedRecently == Spec => [][part = "links" => V!RecentWhenDone]_vars
<1>1. (part = "links" => LinkInv) /\ [Next]_vars => [part = "links" => V!RecentWhenDone]_vars
  BY LinkStep, LinkStutter, LinksPart
<1> QED BY <1>1, LinksKept, PTL DEF Spec

-----------------------------------------------------------------------------
(* Live reload.                                                             *)
Conns == 1 .. MaxConns
Stream == [pc : {"free", "checked", "registered", "loop", "gone"}, ch : Seq(Nat \ {0}), current : Nat]
Tab == [page : Nat, conn : Conns \cup {None}, current : Nat, late : BOOLEAN]

ReloadTypes ==
  /\ site \in Nat \ {0} /\ lastHash \in Nat /\ clients \subseteq Conns /\ closing \subseteq Conns
  /\ conn \in [Conns -> Stream] /\ closes \in [Conns -> Nat] /\ tab \in [Tabs -> Tab]
  /\ sending \in [hash : Nat, todo : SUBSET Conns]

(* Only a connection whose done channel is open is in the hub, and one that *)
(* is being served is.                                                      *)
OpenIsRegistered ==
  /\ ~closed => closing = {}
  /\ \A c \in clients : closes[c] = 0 /\ c \notin closing
  /\ \A c \in Conns : conn[c].pc \in {"free", "checked"} => closes[c] = 0 /\ c \notin clients /\ c \notin closing
  /\ \A c \in Conns : conn[c].pc \in {"registered", "loop"} /\ closes[c] = 0 /\ ~closed => c \in clients

(* A connection belongs to one tab at most.                                 *)
OneTab ==
  /\ \A t, u \in Tabs : tab[t].conn # None /\ tab[t].conn = tab[u].conn => t = u
  /\ \A t \in Tabs : tab[t].conn # None => conn[tab[t].conn].pc # "free"

(* A page is as new as the hash it knows, unless it was late; it knows none *)
(* before its connection has greeted it.                                    *)
KnownIsShown ==
  \A t \in Tabs :
    /\ tab[t].current # 0 => tab[t].page >= tab[t].current \/ tab[t].late
    /\ tab[t].conn = None => tab[t].current = 0
    /\ tab[t].conn # None /\ conn[tab[t].conn].pc \in {"checked", "registered"} => tab[t].current = 0

(* The broadcast under way is of the last hash, and what a connection is    *)
(* still to be sent, or was sent last, is that.                             *)
SendsLast == sending.todo # {} => sending.hash = lastHash /\ lastHash # 0
Newest(ch) == ch[Len(ch)]
StreamIsCurrent ==
  \A c \in clients : c \notin sending.todo =>
    /\ conn[c].ch # <<>> => Newest(conn[c].ch) = lastHash
    /\ conn[c].ch = <<>> /\ conn[c].pc = "registered" => conn[c].current = lastHash
    /\ conn[c].ch = <<>> /\ conn[c].pc = "loop" => \A t \in Tabs : tab[t].conn = c => tab[t].current = lastHash
UnregisteredIsEmpty == \A c \in Conns : conn[c].pc \in {"free", "checked"} => conn[c].ch = <<>> /\ c \notin sending.todo

ReloadInv ==
  /\ ReloadTypes /\ OpenIsRegistered /\ L!ClosedOnce /\ OneTab /\ KnownIsShown
  /\ SendsLast /\ StreamIsCurrent /\ UnregisteredIsEmpty

LEMMA ReloadInit == L!Init => ReloadInv
<1> SUFFICES ASSUME L!Init PROVE ReloadInv
  OBVIOUS
<1> DEFINE s0 == [pc |-> "free", ch |-> <<>>, current |-> 0]
           t0 == [page |-> 1, conn |-> None, current |-> 0, late |-> FALSE]
<1>1. /\ site = 1 /\ closed = FALSE /\ lastHash = 0 /\ clients = {} /\ closing = {}
      /\ closes = [c \in Conns |-> 0] /\ sending = [hash |-> 0, todo |-> {}]
  BY DEF L!Init, L!Quiet, Conns
<1>2. conn = [c \in Conns |-> s0] /\ tab = [t \in Tabs |-> t0]
  BY DEF L!Init, Conns
<1>3. s0 \in Stream /\ s0.pc = "free" /\ s0.ch = <<>>
  <2>1. <<>> \in Seq(Nat \ {0}) /\ 0 \in Nat
    OBVIOUS
  <2> QED BY <2>1 DEF Stream
<1>4. t0 \in Tab /\ t0.conn = None /\ t0.current = 0
  BY DEF Tab
<1> HIDE DEF s0, t0
<1>5. /\ site \in Nat \ {0} /\ lastHash \in Nat /\ closes \in [Conns -> Nat]
      /\ sending \in [hash : Nat, todo : SUBSET Conns] /\ sending.todo = {}
  BY <1>1
<1>6. ReloadTypes
  BY <1>1, <1>2, <1>3, <1>4, <1>5 DEF ReloadTypes
<1>7. OpenIsRegistered /\ OneTab /\ KnownIsShown
  BY <1>1, <1>2, <1>3, <1>4 DEF OpenIsRegistered, OneTab, KnownIsShown
<1>8. SendsLast /\ StreamIsCurrent /\ UnregisteredIsEmpty
  BY <1>1, <1>2, <1>3, <1>4, <1>5 DEF SendsLast, StreamIsCurrent, UnregisteredIsEmpty
<1>9. L!ClosedOnce
  BY <1>1 DEF L!ClosedOnce, Conns
<1> QED BY <1>6, <1>7, <1>8, <1>9 DEF ReloadInv

(* What a message does to the tab it reaches, and to no other one.          *)
LEMMA WriteFacts ==
  ASSUME ReloadTypes, OneTab, NEW c \in Conns, NEW h \in Nat
  PROVE  /\ L!Write(c, h) \in [Tabs -> Tab]
         /\ \A t \in Tabs : tab[t].conn # c => L!Write(c, h)[t] = tab[t]
         /\ h = 0 => L!Write(c, h) = tab
         /\ \A t \in Tabs : tab[t].conn = c /\ h # 0 =>
              \/ L!Write(c, h)[t].conn = None /\ L!Write(c, h)[t].current = 0
              \/ /\ L!Write(c, h)[t].conn = c /\ L!Write(c, h)[t].current = h
                 /\ L!Write(c, h)[t].page >= h \/ L!Write(c, h)[t].late \/ L!Write(c, h)[t] = tab[t]
<1>1. tab \in [Tabs -> Tab] /\ site \in Nat
  BY DEF ReloadTypes
<1>2. c # None
  BY ServingAssumption DEF Conns
<1>3. CASE L!TabOf(c) = {} \/ h = 0
  <2>1. L!Write(c, h) = tab
    BY <1>3 DEF L!Write
  <2>2. h # 0 => \A t \in Tabs : tab[t].conn # c
    BY <1>3 DEF L!TabOf
  <2> QED BY <1>1, <2>1, <2>2
<1>4. CASE L!TabOf(c) # {} /\ h # 0
  <2> DEFINE u == CHOOSE t \in L!TabOf(c) : TRUE
  <2>1. u \in L!TabOf(c)
    BY <1>4
  <2>2. L!Write(c, h) = L!OnMessage(u, h)
    BY <1>4 DEF L!Write
  <2> HIDE DEF u
  <2>3. u \in Tabs /\ tab[u].conn = c /\ tab[u] \in Tab
    BY <2>1, <1>1 DEF L!TabOf
  <2>4. \A t \in Tabs : tab[t].conn = c => t = u
    BY <2>3, <1>2 DEF OneTab
  <2> DEFINE first == [tab[u] EXCEPT !.current = h, !.late = tab[u].page < h]
             fresh == [page |-> site, conn |-> None, current |-> 0, late |-> FALSE]
             new == IF tab[u].current = 0 THEN first ELSE IF h # tab[u].current THEN fresh ELSE tab[u]
  <2>5. L!OnMessage(u, h) = [tab EXCEPT ![u] = new]
    BY DEF L!OnMessage
  <2>6. fresh \in Tab /\ fresh.conn = None /\ fresh.current = 0
    BY <1>1 DEF Tab
  <2>7. first \in Tab /\ first.conn = c /\ first.current = h /\ (first.page >= h \/ first.late)
    <3>1. (tab[u].page < h) \in BOOLEAN
      OBVIOUS
    <3>2. first \in Tab
      BY <2>3, <3>1 DEF Tab
    <3>3. first.conn = c /\ first.current = h /\ first.page = tab[u].page /\ first.late = (tab[u].page < h)
      BY <2>3 DEF Tab
    <3>4. tab[u].page \in Nat
      BY <2>3 DEF Tab
    <3>5. tab[u].page >= h \/ tab[u].page < h
      BY <3>4
    <3> QED BY <3>2, <3>3, <3>5
  <2> HIDE DEF first, fresh
  <2>8. /\ new \in Tab
        /\ \/ new.conn = None /\ new.current = 0
           \/ new.conn = c /\ new.current = h /\ (new.page >= h \/ new.late \/ new = tab[u])
    BY <2>3, <2>6, <2>7
  <2> HIDE DEF new
  <2>9. [tab EXCEPT ![u] = new] \in [Tabs -> Tab] /\ [tab EXCEPT ![u] = new][u] = new
        /\ \A t \in Tabs : t # u => [tab EXCEPT ![u] = new][t] = tab[t]
    BY <1>1, <2>3, <2>8
  <2> QED BY <1>4, <2>2, <2>3, <2>4, <2>5, <2>8, <2>9
<1> QED BY <1>3, <1>4

(* Sequences: what a channel holds last.                                    *)
LEMMA ChannelFacts ==
  ASSUME NEW ch \in Seq(Nat \ {0}), NEW h \in Nat \ {0}
  PROVE  /\ Append(ch, h) \in Seq(Nat \ {0}) /\ Append(ch, h) # <<>> /\ Newest(Append(ch, h)) = h
         /\ ch # <<>> => /\ Tail(ch) \in Seq(Nat \ {0}) /\ Head(ch) \in Nat /\ Head(ch) # 0
                         /\ Tail(ch) # <<>> => Newest(Tail(ch)) = Newest(ch)
                         /\ Tail(ch) = <<>> => Newest(ch) = Head(ch)
<1>1. Append(ch, h) \in Seq(Nat \ {0}) /\ Append(ch, h) # <<>>
  OBVIOUS
<1>2. Newest(Append(ch, h)) = h
  BY DEF Newest
<1>3. ASSUME ch # <<>>
      PROVE  /\ Tail(ch) \in Seq(Nat \ {0}) /\ Head(ch) \in Nat /\ Head(ch) # 0
             /\ Tail(ch) # <<>> => Newest(Tail(ch)) = Newest(ch)
             /\ Tail(ch) = <<>> => Newest(ch) = Head(ch)
  <2>1. Len(ch) \in Nat /\ Len(ch) >= 1 /\ Tail(ch) \in Seq(Nat \ {0}) /\ Len(Tail(ch)) = Len(ch) - 1
    BY <1>3
  <2>2. Head(ch) = ch[1] /\ ch[1] \in Nat \ {0}
    BY <1>3, <2>1
  <2>3. ASSUME Tail(ch) # <<>> PROVE Newest(Tail(ch)) = Newest(ch)
    <3>1. Len(ch) >= 2
      BY <2>1, <2>3
    <3>2. \A i \in 1 .. Len(ch) - 1 : Tail(ch)[i] = ch[i + 1]
      BY <1>3
    <3>3. Tail(ch)[Len(ch) - 1] = ch[(Len(ch) - 1) + 1] /\ (Len(ch) - 1) + 1 = Len(ch)
      BY <2>1, <3>1, <3>2
    <3> QED BY <2>1, <3>3 DEF Newest
  <2>4. ASSUME Tail(ch) = <<>> PROVE Newest(ch) = Head(ch)
    <3>1. Len(ch) = 1
      <4> DEFINE n == Len(ch)
                 m == Len(Tail(ch))
      <4>1. n \in Nat /\ m = n - 1
        BY <2>1
      <4>2. m = Len(<<>>)
        BY <2>4
      <4>3. Len(<<>>) = 0
        OBVIOUS
      <4> HIDE DEF n, m
      <4>4. n = 1
        BY <4>1, <4>2, <4>3
      <4> QED BY <4>4 DEF n
    <3> QED BY <2>2, <3>1 DEF Newest
  <2> QED BY <2>1, <2>2, <2>3, <2>4
<1> QED BY <1>1, <1>2, <1>3

(* A connection that has moved, and one whose channel has changed.          *)
Places == {"free", "checked", "registered", "loop", "gone"}
LEMMA MoveFacts ==
  ASSUME conn \in [Conns -> Stream], NEW c \in Conns, NEW s \in Places, conn' = [conn EXCEPT ![c].pc = s]
  PROVE  /\ conn' \in [Conns -> Stream]
         /\ \A d \in Conns : /\ conn'[d].pc = (IF d = c THEN s ELSE conn[d].pc)
                             /\ conn'[d].ch = conn[d].ch /\ conn'[d].current = conn[d].current
  BY DEF Stream, Places

LEMMA FillFacts ==
  ASSUME conn \in [Conns -> Stream], NEW c \in Conns, NEW ch \in Seq(Nat \ {0}), conn' = [conn EXCEPT ![c].ch = ch]
  PROVE  /\ conn' \in [Conns -> Stream]
         /\ \A d \in Conns : /\ conn'[d].ch = (IF d = c THEN ch ELSE conn[d].ch)
                             /\ conn'[d].pc = conn[d].pc /\ conn'[d].current = conn[d].current
  BY DEF Stream

LEMMA ReloadTypesStep ==
  ASSUME ReloadTypes, OneTab, SendsLast, L!Next
  PROVE  ReloadTypes'
<1>1. /\ site \in Nat \ {0} /\ lastHash \in Nat /\ clients \subseteq Conns /\ closing \subseteq Conns
      /\ conn \in [Conns -> Stream] /\ closes \in [Conns -> Nat] /\ tab \in [Tabs -> Tab]
      /\ sending \in [hash : Nat, todo : SUBSET Conns]
  BY DEF ReloadTypes
<1> DEFINE
  Hub == site \in Nat \ {0} /\ lastHash \in Nat /\ sending \in [hash : Nat, todo : SUBSET Conns]
  Entries == clients \subseteq Conns /\ closing \subseteq Conns /\ closes \in [Conns -> Nat]
<1>2. ASSUME UNCHANGED <<site, lastHash, sending>> PROVE Hub'
  BY <1>1, <1>2
<1>3. ASSUME UNCHANGED <<clients, closing, closes>> PROVE Entries'
  BY <1>1, <1>3
<1>4. ASSUME Hub', Entries', conn' \in [Conns -> Stream], tab' \in [Tabs -> Tab] PROVE ReloadTypes'
  BY <1>4 DEF ReloadTypes
<1>5. Hub /\ Entries
  BY <1>1
<1>6. [page |-> site, conn |-> None, current |-> 0, late |-> FALSE] \in Tab
  BY <1>1 DEF Tab
<1>7. ASSUME NEW c \in Conns, L!RemoveClient(c) PROVE clients' \subseteq Conns /\ closes' \in [Conns -> Nat]
  BY <1>1, <1>7 DEF L!RemoveClient
<1> HIDE DEF Hub, Entries
<1>8. ASSUME NEW t \in Tabs, NEW c \in Conns, L!ServeHTTP(t, c) PROVE ReloadTypes'
  <2>1. /\ UNCHANGED <<site, lastHash, sending, clients, closing, closes>>
        /\ \E s \in Places : s \in {"gone", "checked"} /\ conn' = [conn EXCEPT ![c].pc = s]
        /\ \E d \in {None, c} : tab' = [tab EXCEPT ![t].conn = d]
    BY <1>8 DEF L!ServeHTTP, L!hub, L!Goto, Places
  <2>2. conn' \in [Conns -> Stream]
    BY <1>1, <2>1, MoveFacts
  <2>3. tab' \in [Tabs -> Tab]
    BY <1>1, <2>1 DEF Tab
  <2> QED BY <2>1, <2>2, <2>3, <1>2, <1>3, <1>4
<1>9. ASSUME NEW c \in Conns, L!Register(c) PROVE ReloadTypes'
  <2>1. /\ UNCHANGED <<site, lastHash, sending, closing, closes, tab>> /\ clients' = clients \cup {c}
        /\ conn' = [conn EXCEPT ![c].pc = "registered", ![c].current = lastHash]
    BY <1>9 DEF L!Register
  <2>2. conn' \in [Conns -> Stream]
    BY <1>1, <2>1 DEF Stream
  <2>3. Entries'
    BY <1>1, <2>1 DEF Entries
  <2> QED BY <2>1, <2>2, <2>3, <1>1, <1>2, <1>4
<1>10. ASSUME NEW c \in Conns, L!Greet(c) PROVE ReloadTypes'
  <2>1. /\ UNCHANGED <<site, lastHash, sending, clients, closing, closes>>
        /\ \E s \in Places : s \in {"gone", "loop"} /\ conn' = [conn EXCEPT ![c].pc = s]
        /\ tab' \in {tab, L!Write(c, conn[c].current)}
    BY <1>10 DEF L!Greet, L!hub, L!Goto, Places
  <2>2. conn' \in [Conns -> Stream]
    BY <1>1, <2>1, MoveFacts
  <2>3. conn[c].current \in Nat
    BY <1>1 DEF Stream
  <2>4. tab' \in [Tabs -> Tab]
    BY <1>1, <2>1, <2>3, WriteFacts
  <2> QED BY <2>1, <2>2, <2>4, <1>2, <1>3, <1>4
<1>11. ASSUME NEW c \in Conns, L!Receive(c) PROVE ReloadTypes'
  <2>1. /\ UNCHANGED <<site, lastHash, sending, clients, closing, closes>> /\ conn[c].ch # <<>>
        /\ conn' = [conn EXCEPT ![c].ch = Tail(conn[c].ch)] /\ tab' = L!Write(c, Head(conn[c].ch))
    BY <1>11, <1>1 DEF L!Receive, L!hub
  <2>2. conn[c].ch \in Seq(Nat \ {0})
    BY <1>1 DEF Stream
  <2>3. Tail(conn[c].ch) \in Seq(Nat \ {0}) /\ Head(conn[c].ch) \in Nat
    BY <2>1, <2>2, ChannelFacts, 1 \in Nat \ {0}
  <2>4. conn' \in [Conns -> Stream]
    BY <1>1, <2>1, <2>3, FillFacts
  <2>5. tab' \in [Tabs -> Tab]
    BY <2>1, <2>3, WriteFacts
  <2> QED BY <2>1, <2>4, <2>5, <1>2, <1>3, <1>4
<1>12. ASSUME NEW c \in Conns, L!Leave(c) PROVE ReloadTypes'
  <2>1. /\ UNCHANGED <<site, lastHash, sending, closing>> /\ L!RemoveClient(c)
        /\ conn' = [conn EXCEPT ![c].pc = "gone"]
        /\ tab' = [t \in Tabs |-> IF tab[t].conn = c THEN [tab[t] EXCEPT !.conn = None, !.current = 0] ELSE tab[t]]
    BY <1>12 DEF L!Leave, L!Goto
  <2>2. conn' \in [Conns -> Stream]
    BY <1>1, <2>1, MoveFacts, "gone" \in Places DEF Places
  <2>3. tab' \in [Tabs -> Tab]
    BY <1>1, <2>1, ZenonT(60) DEF Tab
  <2>4. Entries'
    BY <1>1, <1>7, <2>1 DEF Entries
  <2> QED BY <2>1, <2>2, <2>3, <2>4, <1>2, <1>4
<1>13. CASE L!Build
  <2>1. UNCHANGED <<lastHash, sending, clients, closing, closes, conn, tab>> /\ site' = site + 1
    BY <1>13 DEF L!Build, L!hub
  <2>2. site' \in Nat \ {0}
    BY <1>1, <2>1
  <2>3. Hub'
    BY <1>1, <2>1, <2>2 DEF Hub
  <2> QED BY <2>1, <2>3, <1>1, <1>3, <1>4
<1>14. CASE L!Broadcast
  <2>1. /\ UNCHANGED <<site, clients, closing, closes, conn, tab>> /\ lastHash' = site
        /\ sending' \in {[hash |-> 0, todo |-> {}], [hash |-> site, todo |-> clients]}
    BY <1>14 DEF L!Broadcast, L!Quiet
  <2>2. Hub'
    BY <1>1, <2>1 DEF Hub
  <2> QED BY <2>1, <2>2, <1>1, <1>3, <1>4
<1>15. ASSUME NEW c \in Conns, L!Send(c) PROVE ReloadTypes'
  <2>1. /\ UNCHANGED <<site, lastHash, closing, tab>> /\ c \in sending.todo
        /\ sending' \in {[hash |-> 0, todo |-> {}], [sending EXCEPT !.todo = sending.todo \ {c}]}
    BY <1>15, <1>1 DEF L!Send, L!Quiet
  <2>2. Hub'
    BY <1>1, <2>1 DEF Hub
  <2>3. CASE conn' = [conn EXCEPT ![c].ch = Append(@, sending.hash)] /\ UNCHANGED <<clients, closes>>
    <3>1. sending.hash \in Nat \ {0}
      BY <1>1, <2>1 DEF SendsLast
    <3>2. conn[c].ch \in Seq(Nat \ {0})
      BY <1>1 DEF Stream
    <3>3. Append(conn[c].ch, sending.hash) \in Seq(Nat \ {0})
      BY <3>1, <3>2, ChannelFacts
    <3>4. conn' = [conn EXCEPT ![c].ch = Append(conn[c].ch, sending.hash)]
      BY <1>1, <2>3
    <3>5. conn' \in [Conns -> Stream]
      BY <1>1, <3>3, <3>4, FillFacts
    <3> QED BY <2>1, <2>2, <2>3, <3>5, <1>1, <1>3, <1>4
  <2>4. CASE L!RemoveClient(c) /\ UNCHANGED conn
    <3>1. Entries'
      BY <1>1, <1>7, <2>1, <2>4 DEF Entries
    <3> QED BY <2>1, <2>2, <2>4, <3>1, <1>1, <1>4
  <2> QED BY <1>15, <2>3, <2>4 DEF L!Send
<1>16. CASE L!Shutdown
  <2>1. UNCHANGED <<site, lastHash, sending, conn, closes, tab>> /\ closing' = clients /\ clients' = {}
    BY <1>16 DEF L!Shutdown
  <2>2. Entries'
    BY <1>1, <2>1 DEF Entries
  <2> QED BY <2>1, <2>2, <1>1, <1>2, <1>4
<1>17. ASSUME NEW c \in Conns, L!CloseDone(c) PROVE ReloadTypes'
  <2>1. /\ UNCHANGED <<site, lastHash, sending, clients, conn, tab>> /\ closing' = closing \ {c}
        /\ closes' = [closes EXCEPT ![c] = @ + 1]
    BY <1>17 DEF L!CloseDone, L!hub
  <2>2. Entries'
    BY <1>1, <2>1 DEF Entries
  <2> QED BY <2>1, <2>2, <1>1, <1>2, <1>4
<1>18. ASSUME NEW t \in Tabs, L!CloseTab(t) PROVE ReloadTypes'
  <2>1. /\ UNCHANGED <<site, lastHash, sending, clients, closing, closes, conn>>
        /\ tab' = [tab EXCEPT ![t] = [page |-> site, conn |-> None, current |-> 0, late |-> FALSE]]
    BY <1>18 DEF L!CloseTab, L!hub
  <2>2. tab' \in [Tabs -> Tab]
    BY <1>1, <1>6, <2>1
  <2> QED BY <2>1, <2>2, <1>1, <1>2, <1>3, <1>4
<1> QED BY <1>8, <1>9, <1>10, <1>11, <1>12, <1>13, <1>14, <1>15, <1>16, <1>17, <1>18
    DEF L!Next, L!Handler, L!HubStep, Conns

(* The done channels: whoever takes an entry out of the hub closes it, once *)
(* and for all.                                                             *)
LEMMA HubStepKeeps ==
  ASSUME ReloadTypes, OpenIsRegistered, L!ClosedOnce, UnregisteredIsEmpty, L!Next
  PROVE  OpenIsRegistered' /\ L!ClosedOnce'
<1>1. /\ clients \subseteq Conns /\ closing \subseteq Conns
      /\ conn \in [Conns -> Stream] /\ closes \in [Conns -> Nat]
  BY DEF ReloadTypes
<1>2. /\ ~closed => closing = {}
      /\ \A c \in clients : closes[c] = 0 /\ c \notin closing
      /\ \A c \in Conns : conn[c].pc \in {"free", "checked"} => closes[c] = 0 /\ c \notin clients /\ c \notin closing
      /\ \A c \in Conns : conn[c].pc \in {"registered", "loop"} /\ closes[c] = 0 /\ ~closed => c \in clients
  BY DEF OpenIsRegistered
<1>3. \A c \in Conns : closes[c] \in Nat /\ closes[c] <= 1 /\ (c \in closing => closes[c] = 0)
  <2> SUFFICES ASSUME NEW c \in Conns PROVE closes[c] \in Nat /\ closes[c] <= 1 /\ (c \in closing => closes[c] = 0)
    OBVIOUS
  <2>1. closes[c] \in Nat
    BY <1>1
  <2>2. closes[c] + (IF c \in closing THEN 1 ELSE 0) <= 1
    BY DEF L!ClosedOnce, Conns
  <2> QED BY <2>1, <2>2
<1>4. ASSUME \A c \in Conns : closes'[c] \in Nat /\ closes'[c] <= 1 /\ (c \in closing' => closes'[c] = 0)
      PROVE  L!ClosedOnce'
  <2> SUFFICES ASSUME NEW c \in Conns PROVE closes'[c] + (IF c \in closing' THEN 1 ELSE 0) <= 1
    BY DEF L!ClosedOnce, Conns
  <2>1. closes'[c] \in Nat /\ closes'[c] <= 1 /\ (c \in closing' => closes'[c] = 0)
    BY <1>4
  <2> QED BY <2>1
(* A step that leaves the hub alone may move a connection on, but not back. *)
<1>5. ASSUME UNCHANGED <<closed, clients, closing, closes>>,
             \A c \in Conns : /\ conn'[c].pc \in {"free", "checked"} => conn[c].pc \in {"free", "checked"}
                              /\ conn'[c].pc \in {"registered", "loop"} => conn[c].pc \in {"registered", "loop"}
      PROVE  OpenIsRegistered' /\ L!ClosedOnce'
  <2>1. OpenIsRegistered'
    BY <1>2, <1>5 DEF OpenIsRegistered
  <2>2. L!ClosedOnce'
    BY <1>3, <1>4, <1>5
  <2> QED BY <2>1, <2>2
(* Taking the entry of a connection out and closing it.                     *)
<1>6. ASSUME NEW c \in Conns, conn[c].pc \notin {"free", "checked"}, L!RemoveClient(c), UNCHANGED <<closed, closing>>,
             \/ conn' = conn
             \/ conn' = [conn EXCEPT ![c].pc = "gone"]
      PROVE  OpenIsRegistered' /\ L!ClosedOnce'
  <2>1. /\ clients' = clients \ {c}
        /\ \A d \in Conns : closes'[d] = IF d = c /\ c \in clients THEN 1 ELSE closes[d]
    BY <1>1, <1>2, <1>6 DEF L!RemoveClient
  <2>2. \A d \in Conns : conn'[d].pc = conn[d].pc \/ (d = c /\ conn'[d].pc = "gone")
    BY <1>1, <1>6, MoveFacts, "gone" \in Places DEF Places
  <2>3. OpenIsRegistered'
    BY <1>1, <1>2, <1>6, <2>1, <2>2 DEF OpenIsRegistered
  <2>4. L!ClosedOnce'
    BY <1>2, <1>3, <1>4, <1>6, <2>1
  <2> QED BY <2>3, <2>4
<1>7. ASSUME NEW t \in Tabs, NEW c \in Conns, L!ServeHTTP(t, c) PROVE OpenIsRegistered' /\ L!ClosedOnce'
  <2>1. /\ UNCHANGED <<closed, clients, closing, closes>> /\ conn[c].pc = "free"
        /\ \E s \in Places : s \in {"gone", "checked"} /\ conn' = [conn EXCEPT ![c].pc = s]
    BY <1>7 DEF L!ServeHTTP, L!hub, L!Goto, Places
  <2>2. \A d \in Conns : conn'[d].pc = conn[d].pc \/ (d = c /\ conn'[d].pc \in {"gone", "checked"})
    BY <1>1, <2>1, MoveFacts
  <2> QED BY <2>1, <2>2, <1>5
<1>8. ASSUME NEW c \in Conns, L!Register(c) PROVE OpenIsRegistered' /\ L!ClosedOnce'
  <2>1. /\ UNCHANGED <<closed, closing, closes>> /\ clients' = clients \cup {c} /\ conn[c].pc = "checked"
        /\ conn' = [conn EXCEPT ![c].pc = "registered", ![c].current = lastHash]
    BY <1>8 DEF L!Register
  <2>2. \A d \in Conns : conn'[d].pc = IF d = c THEN "registered" ELSE conn[d].pc
    BY <1>1, <2>1 DEF Stream
  <2>3. OpenIsRegistered'
    BY <1>1, <1>2, <2>1, <2>2 DEF OpenIsRegistered
  <2>4. L!ClosedOnce'
    BY <1>3, <1>4, <2>1
  <2> QED BY <2>3, <2>4
<1>9. ASSUME NEW c \in Conns, L!Greet(c) PROVE OpenIsRegistered' /\ L!ClosedOnce'
  <2>1. /\ UNCHANGED <<closed, clients, closing, closes>> /\ conn[c].pc = "registered"
        /\ \E s \in Places : s \in {"gone", "loop"} /\ conn' = [conn EXCEPT ![c].pc = s]
    BY <1>9 DEF L!Greet, L!hub, L!Goto, Places
  <2>2. \A d \in Conns : conn'[d].pc = conn[d].pc \/ (d = c /\ conn'[d].pc \in {"gone", "loop"})
    BY <1>1, <2>1, MoveFacts
  <2> QED BY <2>1, <2>2, <1>5
<1>10. ASSUME NEW c \in Conns, L!Receive(c) PROVE OpenIsRegistered' /\ L!ClosedOnce'
  <2>1. UNCHANGED <<closed, clients, closing, closes>> /\ \E ch : conn' = [conn EXCEPT ![c].ch = ch]
    BY <1>10, <1>1 DEF L!Receive, L!hub
  <2>2. \A d \in Conns : conn'[d].pc = conn[d].pc
    BY <1>1, <2>1 DEF Stream
  <2> QED BY <2>1, <2>2, <1>5
<1>11. ASSUME NEW c \in Conns, L!Leave(c) PROVE OpenIsRegistered' /\ L!ClosedOnce'
  <2>1. /\ conn[c].pc = "loop" /\ L!RemoveClient(c) /\ UNCHANGED <<closed, closing>>
        /\ conn' = [conn EXCEPT ![c].pc = "gone"]
    BY <1>11 DEF L!Leave, L!Goto
  <2> QED BY <2>1, <1>6
<1>12. CASE L!Build \/ L!Broadcast \/ \E t \in Tabs : L!CloseTab(t)
  <2>1. UNCHANGED <<closed, clients, closing, closes, conn>>
    BY <1>12 DEF L!Build, L!Broadcast, L!CloseTab, L!hub
  <2> QED BY <2>1, <1>5
<1>13. ASSUME NEW c \in Conns, L!Send(c) PROVE OpenIsRegistered' /\ L!ClosedOnce'
  <2>1. c \in sending.todo /\ UNCHANGED <<closed, closing>>
    BY <1>13 DEF L!Send
  <2>2. CASE UNCHANGED <<clients, closes>> /\ conn' = [conn EXCEPT ![c].ch = Append(@, sending.hash)]
    <3>1. \A d \in Conns : conn'[d].pc = conn[d].pc
      BY <1>1, <2>2 DEF Stream
    <3> QED BY <2>1, <2>2, <3>1, <1>5
  <2>3. CASE L!RemoveClient(c) /\ UNCHANGED conn
    <3>1. conn[c].pc \notin {"free", "checked"}
      BY <2>1 DEF UnregisteredIsEmpty
    <3> QED BY <2>1, <2>3, <3>1, <1>6
  <2> QED BY <1>13, <2>2, <2>3 DEF L!Send
<1>14. CASE L!Shutdown
  <2>1. ~closed /\ closed' = TRUE /\ closing' = clients /\ clients' = {} /\ UNCHANGED <<closes, conn>>
    BY <1>14 DEF L!Shutdown
  <2>2. OpenIsRegistered'
    BY <1>2, <2>1 DEF OpenIsRegistered
  <2>3. L!ClosedOnce'
    BY <1>2, <1>3, <1>4, <2>1
  <2> QED BY <2>2, <2>3
<1>15. ASSUME NEW c \in Conns, L!CloseDone(c) PROVE OpenIsRegistered' /\ L!ClosedOnce'
  <2>1. /\ c \in closing /\ closing' = closing \ {c} /\ closes' = [closes EXCEPT ![c] = @ + 1]
        /\ UNCHANGED <<closed, clients, conn>>
    BY <1>15 DEF L!CloseDone, L!hub
  <2>2. closes[c] = 0
    BY <2>1, <1>3
  <2>3. \A d \in Conns : closes'[d] = IF d = c THEN 1 ELSE closes[d]
    BY <2>1, <2>2, <1>1
  <2>4. OpenIsRegistered'
    BY <1>1, <1>2, <2>1, <2>3 DEF OpenIsRegistered
  <2>5. L!ClosedOnce'
    BY <1>3, <1>4, <2>1, <2>3
  <2> QED BY <2>4, <2>5
<1> QED BY <1>7, <1>8, <1>9, <1>10, <1>11, <1>12, <1>13, <1>14, <1>15 DEF L!Next, L!Handler, L!HubStep, Conns

(* The tabs: a connection is taken by one tab, and a page that has been     *)
(* reloaded starts afresh.                                                  *)
LEMMA TabStepKeeps ==
  ASSUME ReloadTypes, OneTab, KnownIsShown, L!Next
  PROVE  OneTab' /\ KnownIsShown'
<1>1. conn \in [Conns -> Stream] /\ tab \in [Tabs -> Tab] /\ site \in Nat
  BY DEF ReloadTypes
<1>2. None \notin Conns
  BY ServingAssumption DEF Conns
<1>3. \A t \in Tabs : tab[t].conn \in Conns \cup {None} /\ tab[t].page \in Nat /\ tab[t].current \in Nat
  BY <1>1 DEF Tab
(* Each tab stays as it is, or starts afresh.                               *)
<1>4. ASSUME \A c \in Conns : conn'[c].pc = conn[c].pc \/ conn'[c].pc \in {"loop", "gone"}
                              \/ (conn[c].pc = "checked" /\ conn'[c].pc = "registered"),
             \A t \in Tabs : tab'[t] = tab[t] \/ (tab'[t].conn = None /\ tab'[t].current = 0)
      PROVE  OneTab' /\ KnownIsShown'
  <2>1. OneTab'
    BY <1>2, <1>3, <1>4 DEF OneTab
  <2>2. KnownIsShown'
    BY <1>2, <1>3, <1>4 DEF KnownIsShown
  <2> QED BY <2>1, <2>2
<1>5. ASSUME NEW t \in Tabs, NEW c \in Conns, L!ServeHTTP(t, c) PROVE OneTab' /\ KnownIsShown'
  <2>1. /\ tab[t].conn = None /\ conn[c].pc = "free"
        /\ conn' = [conn EXCEPT ![c].pc = IF closed THEN "gone" ELSE "checked"]
        /\ tab' = [tab EXCEPT ![t].conn = IF closed THEN None ELSE c]
    BY <1>5 DEF L!ServeHTTP, L!Goto
  <2>2. \A d \in Conns : conn'[d].pc = IF d = c THEN (IF closed THEN "gone" ELSE "checked") ELSE conn[d].pc
    BY <1>1, <2>1 DEF Stream
  <2>3. \A u \in Tabs : tab[u].conn # c
    BY <2>1, <1>2 DEF OneTab
  <2>4. tab[t].current = 0
    BY <2>1 DEF KnownIsShown
  <2>5. \A u \in Tabs : u # t => tab'[u] = tab[u]
    BY <1>1, <2>1
  <2>6. tab'[t].conn = (IF closed THEN None ELSE c) /\ tab'[t].current = 0
    BY <1>1, <2>1, <2>4 DEF Tab
  <2>7. OneTab'
    BY <1>2, <1>3, <2>2, <2>3, <2>5, <2>6 DEF OneTab
  <2>8. KnownIsShown'
    BY <1>2, <1>3, <2>2, <2>3, <2>5, <2>6 DEF KnownIsShown
  <2> QED BY <2>7, <2>8
<1>6. ASSUME NEW c \in Conns, NEW h \in Nat, tab' = L!Write(c, h), conn[c].pc # "free", conn'[c].pc = "loop",
             \A d \in Conns : d # c => conn'[d].pc = conn[d].pc
      PROVE  OneTab' /\ KnownIsShown'
  <2>1. /\ \A t \in Tabs : tab[t].conn # c => tab'[t] = tab[t]
        /\ h = 0 => tab' = tab
        /\ \A t \in Tabs : tab[t].conn = c /\ h # 0 =>
              \/ tab'[t].conn = None /\ tab'[t].current = 0
              \/ /\ tab'[t].conn = c /\ tab'[t].current = h
                 /\ tab'[t].page >= h \/ tab'[t].late \/ tab'[t] = tab[t]
    BY <1>6, WriteFacts
  <2>2. \A t \in Tabs : tab'[t].conn = tab[t].conn \/ (tab'[t].conn = None /\ tab'[t].current = 0)
    BY <2>1
  <2>3. OneTab'
    <3>1. ASSUME NEW t \in Tabs, NEW u \in Tabs, tab'[t].conn # None, tab'[t].conn = tab'[u].conn PROVE t = u
      BY <3>1, <2>2 DEF OneTab
    <3>2. ASSUME NEW t \in Tabs, tab'[t].conn # None PROVE conn'[tab'[t].conn].pc # "free"
      <4>1. tab'[t].conn = tab[t].conn /\ tab[t].conn \in Conns
        BY <3>2, <2>2, <1>3
      <4>2. conn[tab[t].conn].pc # "free"
        BY <4>1, <3>2 DEF OneTab
      <4> QED BY <4>1, <4>2, <1>6
    <3> QED BY <3>1, <3>2 DEF OneTab
  <2>4. KnownIsShown'
    <3> SUFFICES ASSUME NEW t \in Tabs
                 PROVE  /\ tab'[t].current # 0 => tab'[t].page >= tab'[t].current \/ tab'[t].late
                        /\ tab'[t].conn = None => tab'[t].current = 0
                        /\ tab'[t].conn # None /\ conn'[tab'[t].conn].pc \in {"checked", "registered"} => tab'[t].current = 0
      BY DEF KnownIsShown
    <3>1. /\ tab[t].current # 0 => tab[t].page >= tab[t].current \/ tab[t].late
          /\ tab[t].conn = None => tab[t].current = 0
          /\ tab[t].conn # None /\ conn[tab[t].conn].pc \in {"checked", "registered"} => tab[t].current = 0
      BY DEF KnownIsShown
    <3>2. CASE tab'[t] = tab[t]
      <4>1. tab[t].conn # None => conn'[tab[t].conn].pc = conn[tab[t].conn].pc \/ conn'[tab[t].conn].pc = "loop"
        BY <1>3, <1>6
      <4> QED BY <3>1, <3>2, <4>1
    <3>3. CASE tab'[t] # tab[t] /\ tab'[t].conn = None
      BY <3>3, <2>1, <1>2, <1>6
    <3>4. CASE tab'[t] # tab[t] /\ tab'[t].conn # None
      <4>1. tab'[t].conn = c /\ tab'[t].current = h /\ (tab'[t].page >= h \/ tab'[t].late)
        BY <3>4, <2>1
      <4> QED BY <4>1, <1>2, <1>6
    <3> QED BY <3>2, <3>3, <3>4
  <2> QED BY <2>3, <2>4
<1>7. ASSUME NEW c \in Conns, L!Register(c) PROVE OneTab' /\ KnownIsShown'
  <2>1. /\ tab' = tab /\ conn[c].pc = "checked"
        /\ conn' = [conn EXCEPT ![c].pc = "registered", ![c].current = lastHash]
    BY <1>7 DEF L!Register
  <2>2. \A d \in Conns : conn'[d].pc = IF d = c THEN "registered" ELSE conn[d].pc
    BY <1>1, <2>1 DEF Stream
  <2> QED BY <2>1, <2>2, <1>4
<1>8. ASSUME NEW c \in Conns, L!Greet(c) PROVE OneTab' /\ KnownIsShown'
  <2>1. CASE conn' = L!Goto(c, "loop") /\ tab' = L!Write(c, conn[c].current)
    <3>1. conn[c].current \in Nat /\ conn[c].pc # "free"
      BY <1>1, <1>8 DEF Stream, L!Greet
    <3>2. conn'[c].pc = "loop" /\ \A d \in Conns : d # c => conn'[d].pc = conn[d].pc
      BY <1>1, <2>1 DEF Stream, L!Goto
    <3> QED BY <2>1, <3>1, <3>2, <1>6
  <2>2. CASE conn' = L!Goto(c, "gone") /\ tab' = tab
    <3>1. \A d \in Conns : conn'[d].pc = conn[d].pc \/ conn'[d].pc = "gone"
      BY <1>1, <2>2 DEF Stream, L!Goto
    <3> QED BY <2>2, <3>1, <1>4
  <2> QED BY <1>8, <2>1, <2>2 DEF L!Greet
<1>9. ASSUME NEW c \in Conns, L!Receive(c) PROVE OneTab' /\ KnownIsShown'
  <2>1. /\ conn[c].pc = "loop" /\ conn[c].ch # <<>> /\ \E ch : conn' = [conn EXCEPT ![c].ch = ch]
        /\ tab' = L!Write(c, Head(conn[c].ch))
    BY <1>9, <1>1 DEF L!Receive
  <2>2. conn[c].ch \in Seq(Nat \ {0})
    BY <1>1 DEF Stream
  <2>3. Head(conn[c].ch) \in Nat
    BY <2>1, <2>2, ChannelFacts, 1 \in Nat \ {0}
  <2>4. \A d \in Conns : conn'[d].pc = conn[d].pc
    BY <1>1, <2>1 DEF Stream
  <2> QED BY <2>1, <2>3, <2>4, <1>6
<1>10. ASSUME NEW c \in Conns, L!Leave(c) PROVE OneTab' /\ KnownIsShown'
  <2>1. /\ conn' = [conn EXCEPT ![c].pc = "gone"]
        /\ tab' = [t \in Tabs |-> IF tab[t].conn = c THEN [tab[t] EXCEPT !.conn = None, !.current = 0] ELSE tab[t]]
    BY <1>10 DEF L!Leave, L!Goto
  <2>2. \A d \in Conns : conn'[d].pc = conn[d].pc \/ conn'[d].pc = "gone"
    BY <1>1, <2>1 DEF Stream
  <2>3. \A t \in Tabs : tab'[t] = tab[t] \/ (tab'[t].conn = None /\ tab'[t].current = 0)
    BY <1>1, <2>1 DEF Tab
  <2> QED BY <2>2, <2>3, <1>4
<1>11. CASE L!Build \/ L!Broadcast \/ L!Shutdown \/ \E c \in Conns : L!CloseDone(c)
  <2>1. UNCHANGED <<conn, tab>>
    BY <1>11 DEF L!Build, L!Broadcast, L!Shutdown, L!CloseDone
  <2> QED BY <2>1, <1>4
<1>12. ASSUME NEW c \in Conns, L!Send(c) PROVE OneTab' /\ KnownIsShown'
  <2>1. tab' = tab /\ (conn' = conn \/ \E ch : conn' = [conn EXCEPT ![c].ch = ch])
    BY <1>12, <1>1 DEF L!Send
  <2>2. \A d \in Conns : conn'[d].pc = conn[d].pc
    <3>1. ASSUME NEW ch, conn' = [conn EXCEPT ![c].ch = ch] PROVE \A d \in Conns : conn'[d].pc = conn[d].pc
      BY <1>1, <3>1 DEF Stream
    <3> QED BY <2>1, <3>1
  <2> QED BY <2>1, <2>2, <1>4
<1>13. ASSUME NEW t \in Tabs, L!CloseTab(t) PROVE OneTab' /\ KnownIsShown'
  <2>1. /\ conn' = conn
        /\ tab' = [tab EXCEPT ![t] = [page |-> site, conn |-> None, current |-> 0, late |-> FALSE]]
    BY <1>13 DEF L!CloseTab
  <2>2. \A u \in Tabs : tab'[u] = tab[u] \/ (tab'[u].conn = None /\ tab'[u].current = 0)
    BY <1>1, <2>1
  <2> QED BY <2>1, <2>2, <1>4
<1> QED BY <1>5, <1>7, <1>8, <1>9, <1>10, <1>11, <1>12, <1>13 DEF L!Next, L!Handler, L!HubStep, Conns

(* The streams: registration and broadcast cannot miss each other.          *)
LEMMA StreamStepKeeps ==
  ASSUME ReloadInv, ReloadTypes', L!Next
  PROVE  SendsLast' /\ StreamIsCurrent' /\ UnregisteredIsEmpty'
<1>1. /\ site \in Nat \ {0} /\ lastHash \in Nat /\ clients \subseteq Conns
      /\ conn \in [Conns -> Stream] /\ tab \in [Tabs -> Tab] /\ sending \in [hash : Nat, todo : SUBSET Conns]
  BY DEF ReloadInv, ReloadTypes
<1>2. None \notin Conns
  BY ServingAssumption DEF Conns
<1>3. /\ \A c \in Conns : conn[c].pc \in {"free", "checked"} => c \notin clients
      /\ \A c \in Conns : conn[c].pc \in {"free", "checked"} => conn[c].ch = <<>> /\ c \notin sending.todo
  BY DEF ReloadInv, OpenIsRegistered, UnregisteredIsEmpty
<1>4. \A c \in clients : c \notin sending.todo =>
        /\ conn[c].ch # <<>> => Newest(conn[c].ch) = lastHash
        /\ conn[c].ch = <<>> /\ conn[c].pc = "registered" => conn[c].current = lastHash
        /\ conn[c].ch = <<>> /\ conn[c].pc = "loop" => \A t \in Tabs : tab[t].conn = c => tab[t].current = lastHash
  BY DEF ReloadInv, StreamIsCurrent
<1>5. sending.todo # {} => sending.hash = lastHash /\ lastHash # 0
  BY DEF ReloadInv, SendsLast
(* A step that sends nothing, and moves connections on only.                *)
<1>6. ASSUME UNCHANGED <<lastHash, sending>>,
             \A c \in Conns : conn'[c].pc \in {"free", "checked"} => conn[c].pc \in {"free", "checked"} /\ conn'[c].ch = <<>>
      PROVE  SendsLast' /\ UnregisteredIsEmpty'
  BY <1>3, <1>5, <1>6 DEF SendsLast, UnregisteredIsEmpty
<1>7. ASSUME UNCHANGED <<lastHash, sending, conn>>, clients' \subseteq clients,
             \A t \in Tabs : tab'[t] = tab[t] \/ tab'[t].conn = None
      PROVE  SendsLast' /\ StreamIsCurrent' /\ UnregisteredIsEmpty'
  <2>1. SendsLast' /\ UnregisteredIsEmpty'
    BY <1>3, <1>6, <1>7
  <2>2. StreamIsCurrent'
    BY <1>1, <1>2, <1>4, <1>7 DEF StreamIsCurrent
  <2> QED BY <2>1, <2>2
<1>8. CASE L!Build \/ L!Shutdown \/ (\E c \in Conns : L!CloseDone(c)) \/ \E t \in Tabs : L!CloseTab(t)
  <2>1. CASE L!Build \/ L!Shutdown \/ \E c \in Conns : L!CloseDone(c)
    <3>1. UNCHANGED <<lastHash, sending, conn, tab>> /\ clients' \subseteq clients
      BY <2>1 DEF L!Build, L!Shutdown, L!CloseDone, L!hub
    <3> QED BY <3>1, <1>7
  <2>2. ASSUME NEW t \in Tabs, L!CloseTab(t) PROVE SendsLast' /\ StreamIsCurrent' /\ UnregisteredIsEmpty'
    <3>1. /\ UNCHANGED <<lastHash, sending, conn, clients>>
          /\ tab' = [tab EXCEPT ![t] = [page |-> site, conn |-> None, current |-> 0, late |-> FALSE]]
      BY <2>2 DEF L!CloseTab, L!hub
    <3>2. \A u \in Tabs : tab'[u] = tab[u] \/ tab'[u].conn = None
      BY <3>1, <1>1
    <3> QED BY <3>1, <3>2, <1>7
  <2> QED BY <1>8, <2>1, <2>2
<1>9. ASSUME NEW t \in Tabs, NEW c \in Conns, L!ServeHTTP(t, c) PROVE SendsLast' /\ StreamIsCurrent' /\ UnregisteredIsEmpty'
  <2>1. /\ UNCHANGED <<lastHash, clients, sending>> /\ conn[c].pc = "free" /\ tab[t].conn = None
        /\ conn' = [conn EXCEPT ![c].pc = IF closed THEN "gone" ELSE "checked"]
        /\ tab' = [tab EXCEPT ![t].conn = IF closed THEN None ELSE c]
    BY <1>9 DEF L!ServeHTTP, L!hub, L!Goto
  <2>2. \A d \in Conns : d # c => conn'[d] = conn[d]
    BY <1>1, <2>1
  <2>3. conn'[c].ch = <<>>
    BY <1>1, <1>3, <2>1 DEF Stream
  <2>4. c \notin clients
    BY <1>3, <2>1
  <2>5. \A u \in Tabs : \A d \in Conns : d # c /\ tab'[u].conn = d => tab'[u] = tab[u]
    BY <1>1, <1>2, <2>1 DEF Tab
  <2>6. SendsLast' /\ UnregisteredIsEmpty'
    BY <1>3, <1>6, <2>1, <2>2, <2>3
  <2>7. StreamIsCurrent'
    BY <1>1, <1>4, <2>1, <2>2, <2>4, <2>5 DEF StreamIsCurrent
  <2> QED BY <2>6, <2>7
<1>10. ASSUME NEW c \in Conns, L!Register(c) PROVE SendsLast' /\ StreamIsCurrent' /\ UnregisteredIsEmpty'
  <2>1. /\ UNCHANGED <<lastHash, sending, tab>> /\ conn[c].pc = "checked" /\ clients' = clients \cup {c}
        /\ conn' = [conn EXCEPT ![c].pc = "registered", ![c].current = lastHash]
    BY <1>10 DEF L!Register
  <2>2. \A d \in Conns : d # c => conn'[d] = conn[d]
    BY <1>1, <2>1
  <2>3. conn'[c].pc = "registered" /\ conn'[c].current = lastHash /\ conn'[c].ch = <<>>
    BY <1>1, <1>3, <2>1 DEF Stream
  <2>4. SendsLast' /\ UnregisteredIsEmpty'
    BY <1>3, <1>6, <2>1, <2>2, <2>3
  <2>5. StreamIsCurrent'
    BY <1>1, <1>4, <2>1, <2>2, <2>3 DEF StreamIsCurrent
  <2> QED BY <2>4, <2>5
<1>11. ASSUME NEW c \in Conns, L!Greet(c) PROVE SendsLast' /\ StreamIsCurrent' /\ UnregisteredIsEmpty'
  <2>1. /\ UNCHANGED <<lastHash, clients, sending>> /\ conn[c].pc = "registered"
        /\ \/ conn' = L!Goto(c, "loop") /\ tab' = L!Write(c, conn[c].current)
           \/ conn' = L!Goto(c, "gone") /\ tab' = tab
    BY <1>11 DEF L!Greet, L!hub
  <2>2. conn[c].current \in Nat
    BY <1>1 DEF Stream
  <2>3. /\ \A d \in Conns : d # c => conn'[d] = conn[d]
        /\ conn'[c].pc \in {"loop", "gone"} /\ conn'[c].ch = conn[c].ch
    BY <1>1, <2>1 DEF Stream, L!Goto
  <2>4. SendsLast' /\ UnregisteredIsEmpty'
    BY <1>3, <1>6, <2>1, <2>3
  <2>5. CASE conn' = L!Goto(c, "gone") /\ tab' = tab
    <3>1. conn'[c].pc = "gone"
      BY <1>1, <2>5 DEF Stream, L!Goto
    <3>2. StreamIsCurrent'
      BY <1>1, <1>4, <2>1, <2>3, <2>5, <3>1 DEF StreamIsCurrent
    <3> QED BY <2>4, <3>2
  <2>6. CASE conn' = L!Goto(c, "loop") /\ tab' = L!Write(c, conn[c].current)
    <3>1. conn'[c].pc = "loop"
      BY <1>1, <2>6 DEF Stream, L!Goto
    <3>2. /\ \A t \in Tabs : tab[t].conn # c => tab'[t] = tab[t]
          /\ conn[c].current = 0 => tab' = tab
          /\ \A t \in Tabs : tab[t].conn = c /\ conn[c].current # 0 =>
               \/ tab'[t].conn = None /\ tab'[t].current = 0
               \/ tab'[t].conn = c /\ tab'[t].current = conn[c].current
      BY <2>2, <2>6, WriteFacts DEF ReloadInv
    <3>3. \A t \in Tabs : tab[t].conn = c => tab[t].current = 0
      BY <1>2, <2>1 DEF ReloadInv, KnownIsShown
    <3>4. \A t \in Tabs : tab'[t].conn = c => tab'[t].current = conn[c].current
      BY <1>2, <3>2, <3>3
    <3>5. \A t \in Tabs : \A d \in Conns : d # c /\ tab'[t].conn = d => tab'[t] = tab[t]
      BY <1>2, <3>2
    <3>6. StreamIsCurrent'
      <4> SUFFICES ASSUME NEW d \in clients, d \notin sending.todo
                   PROVE  /\ conn'[d].ch # <<>> => Newest(conn'[d].ch) = lastHash
                          /\ conn'[d].ch = <<>> /\ conn'[d].pc = "registered" => conn'[d].current = lastHash
                          /\ conn'[d].ch = <<>> /\ conn'[d].pc = "loop" =>
                               \A t \in Tabs : tab'[t].conn = d => tab'[t].current = lastHash
        BY <2>1 DEF StreamIsCurrent
      <4>1. CASE d = c
        BY <4>1, <1>4, <2>1, <2>3, <3>1, <3>4
      <4>2. CASE d # c
        BY <4>2, <1>1, <1>4, <2>3, <3>5
      <4> QED BY <4>1, <4>2
    <3> QED BY <2>4, <3>6
  <2> QED BY <2>1, <2>5, <2>6
<1>12. ASSUME NEW c \in Conns, L!Receive(c) PROVE SendsLast' /\ StreamIsCurrent' /\ UnregisteredIsEmpty'
  <2> DEFINE h == Head(conn[c].ch)
             rest == Tail(conn[c].ch)
  <2>1. /\ UNCHANGED <<lastHash, clients, sending>> /\ conn[c].pc = "loop" /\ conn[c].ch # <<>>
        /\ conn' = [conn EXCEPT ![c].ch = rest] /\ tab' = L!Write(c, h)
    BY <1>12, <1>1 DEF L!Receive, L!hub
  <2>2. conn[c].ch \in Seq(Nat \ {0})
    BY <1>1 DEF Stream
  <2>3. /\ rest \in Seq(Nat \ {0}) /\ h \in Nat /\ h # 0
        /\ rest # <<>> => Newest(rest) = Newest(conn[c].ch)
        /\ rest = <<>> => Newest(conn[c].ch) = h
    BY <2>1, <2>2, ChannelFacts, 1 \in Nat \ {0}
  <2> HIDE DEF h, rest
  <2>4. \A d \in Conns : /\ conn'[d].ch = (IF d = c THEN rest ELSE conn[d].ch)
                         /\ conn'[d].pc = conn[d].pc /\ conn'[d].current = conn[d].current
    BY <1>1, <2>1, <2>3, FillFacts
  <2>5. SendsLast' /\ UnregisteredIsEmpty'
    BY <1>3, <1>6, <2>1, <2>4
  <2>6. /\ \A t \in Tabs : tab[t].conn # c => tab'[t] = tab[t]
        /\ \A t \in Tabs : tab[t].conn = c =>
             \/ tab'[t].conn = None /\ tab'[t].current = 0
             \/ tab'[t].conn = c /\ tab'[t].current = h
    BY <2>1, <2>3, WriteFacts DEF ReloadInv
  <2>7. \A t \in Tabs : tab'[t].conn = c => tab'[t].current = h
    BY <1>2, <2>6
  <2>8. \A t \in Tabs : \A d \in Conns : d # c /\ tab'[t].conn = d => tab'[t] = tab[t]
    BY <1>2, <2>6
  <2>9. StreamIsCurrent'
    <3> SUFFICES ASSUME NEW d \in clients, d \notin sending.todo
                 PROVE  /\ conn'[d].ch # <<>> => Newest(conn'[d].ch) = lastHash
                        /\ conn'[d].ch = <<>> /\ conn'[d].pc = "registered" => conn'[d].current = lastHash
                        /\ conn'[d].ch = <<>> /\ conn'[d].pc = "loop" =>
                             \A t \in Tabs : tab'[t].conn = d => tab'[t].current = lastHash
      BY <2>1 DEF StreamIsCurrent
    <3>1. CASE d = c
      <4>1. Newest(conn[c].ch) = lastHash
        BY <3>1, <1>4, <2>1
      <4>2. conn'[c].ch = rest /\ conn'[c].pc = "loop"
        BY <2>1, <2>4
      <4> QED BY <3>1, <4>1, <4>2, <2>3, <2>7
    <3>2. CASE d # c
      BY <3>2, <1>1, <1>4, <2>4, <2>8
    <3> QED BY <3>1, <3>2
  <2> QED BY <2>5, <2>9
<1>13. ASSUME NEW c \in Conns, L!Leave(c) PROVE SendsLast' /\ StreamIsCurrent' /\ UnregisteredIsEmpty'
  <2>1. /\ UNCHANGED <<lastHash, sending>> /\ conn' = [conn EXCEPT ![c].pc = "gone"] /\ clients' = clients \ {c}
        /\ tab' = [t \in Tabs |-> IF tab[t].conn = c THEN [tab[t] EXCEPT !.conn = None, !.current = 0] ELSE tab[t]]
    BY <1>13 DEF L!Leave, L!Goto, L!RemoveClient
  <2>2. \A d \in Conns : d # c => conn'[d] = conn[d]
    BY <1>1, <2>1
  <2>3. conn'[c].pc = "gone"
    BY <1>1, <2>1 DEF Stream
  <2>4. \A t \in Tabs : tab'[t] = tab[t] \/ tab'[t].conn = None
    BY <1>1, <2>1 DEF Tab
  <2>5. SendsLast' /\ UnregisteredIsEmpty'
    BY <1>3, <1>6, <2>1, <2>2, <2>3
  <2>6. StreamIsCurrent'
    <3> SUFFICES ASSUME NEW d \in clients, d # c, d \notin sending.todo
                 PROVE  /\ conn'[d].ch # <<>> => Newest(conn'[d].ch) = lastHash
                        /\ conn'[d].ch = <<>> /\ conn'[d].pc = "registered" => conn'[d].current = lastHash
                        /\ conn'[d].ch = <<>> /\ conn'[d].pc = "loop" =>
                             \A t \in Tabs : tab'[t].conn = d => tab'[t].current = lastHash
      BY <2>1 DEF StreamIsCurrent
    <3>1. d \in Conns /\ conn'[d] = conn[d]
      BY <1>1, <2>2
    <3>2. \A t \in Tabs : tab'[t].conn = d => tab'[t] = tab[t]
      BY <3>1, <1>2, <2>4
    <3> QED BY <3>1, <3>2, <1>4
  <2> QED BY <2>5, <2>6
<1>14. CASE L!Broadcast
  <2>1. /\ UNCHANGED <<clients, conn, tab>> /\ lastHash' = site
        /\ sending' = IF clients = {} THEN [hash |-> 0, todo |-> {}] ELSE [hash |-> site, todo |-> clients]
    BY <1>14 DEF L!Broadcast, L!Quiet
  <2>2. sending'.todo = clients /\ (clients # {} => sending'.hash = site)
    BY <2>1
  <2>3. site # 0
    BY <1>1
  <2>4. SendsLast'
    BY <2>1, <2>2, <2>3 DEF SendsLast
  <2>5. UnregisteredIsEmpty'
    BY <1>3, <2>1, <2>2 DEF UnregisteredIsEmpty
  <2>6. StreamIsCurrent'
    BY <2>1, <2>2 DEF StreamIsCurrent
  <2> QED BY <2>4, <2>5, <2>6
<1>15. ASSUME NEW c \in Conns, L!Send(c) PROVE SendsLast' /\ StreamIsCurrent' /\ UnregisteredIsEmpty'
  <2>1. /\ c \in sending.todo /\ UNCHANGED <<lastHash, tab>>
        /\ sending' = IF sending.todo = {c} THEN [hash |-> 0, todo |-> {}] ELSE [sending EXCEPT !.todo = sending.todo \ {c}]
    BY <1>15, <1>1 DEF L!Send, L!Quiet
  <2>2. sending'.todo = sending.todo \ {c} /\ (sending'.todo # {} => sending'.hash = sending.hash)
    BY <1>1, <2>1
  <2>3. sending.hash = lastHash /\ lastHash \in Nat \ {0} /\ conn[c].pc \notin {"free", "checked"}
    BY <1>1, <1>3, <1>5, <2>1
  <2>4. SendsLast'
    BY <2>1, <2>2, <2>3 DEF SendsLast
  <2>5. CASE UNCHANGED <<clients, closes>> /\ conn' = [conn EXCEPT ![c].ch = Append(@, sending.hash)]
    <3> DEFINE ch == Append(conn[c].ch, sending.hash)
    <3>1. conn[c].ch \in Seq(Nat \ {0})
      BY <1>1 DEF Stream
    <3>2. ch \in Seq(Nat \ {0}) /\ ch # <<>> /\ Newest(ch) = lastHash
      BY <2>3, <3>1, ChannelFacts
    <3>3. conn' = [conn EXCEPT ![c].ch = ch]
      BY <1>1, <2>5
    <3> HIDE DEF ch
    <3>4. \A d \in Conns : /\ conn'[d].ch = (IF d = c THEN ch ELSE conn[d].ch)
                           /\ conn'[d].pc = conn[d].pc /\ conn'[d].current = conn[d].current
      BY <1>1, <3>2, <3>3, FillFacts
    <3>5. UnregisteredIsEmpty'
      BY <1>3, <2>2, <2>3, <3>4 DEF UnregisteredIsEmpty
    <3>6. StreamIsCurrent'
      <4> SUFFICES ASSUME NEW d \in clients, d \notin sending'.todo
                   PROVE  /\ conn'[d].ch # <<>> => Newest(conn'[d].ch) = lastHash
                          /\ conn'[d].ch = <<>> /\ conn'[d].pc = "registered" => conn'[d].current = lastHash
                          /\ conn'[d].ch = <<>> /\ conn'[d].pc = "loop" =>
                               \A t \in Tabs : tab[t].conn = d => tab[t].current = lastHash
        BY <2>1, <2>5 DEF StreamIsCurrent
      <4>1. CASE d = c
        BY <4>1, <3>2, <3>4
      <4>2. CASE d # c
        BY <4>2, <1>1, <1>4, <2>2, <3>4
      <4> QED BY <4>1, <4>2
    <3> QED BY <2>4, <3>5, <3>6
  <2>6. CASE L!RemoveClient(c) /\ UNCHANGED conn
    <3>1. clients' = clients \ {c}
      BY <2>6 DEF L!RemoveClient
    <3>2. UnregisteredIsEmpty'
      BY <1>3, <2>2, <2>6 DEF UnregisteredIsEmpty
    <3>3. StreamIsCurrent'
      BY <1>4, <2>1, <2>2, <2>6, <3>1 DEF StreamIsCurrent
    <3> QED BY <2>4, <3>2, <3>3
  <2> QED BY <1>15, <2>5, <2>6 DEF L!Send
<1> QED BY <1>8, <1>9, <1>10, <1>11, <1>12, <1>13, <1>14, <1>15 DEF L!Next, L!Handler, L!HubStep, Conns

LEMMA ReloadStep == ReloadInv /\ L!Next => ReloadInv'
<1> SUFFICES ASSUME ReloadInv, L!Next PROVE ReloadInv'
  OBVIOUS
<1>1. ReloadTypes'
  BY ReloadTypesStep DEF ReloadInv
<1>2. OpenIsRegistered' /\ L!ClosedOnce'
  BY HubStepKeeps DEF ReloadInv
<1>3. OneTab' /\ KnownIsShown'
  BY TabStepKeeps DEF ReloadInv
<1>4. SendsLast' /\ StreamIsCurrent' /\ UnregisteredIsEmpty'
  BY <1>1, StreamStepKeeps
<1> QED BY <1>1, <1>2, <1>3, <1>4 DEF ReloadInv

LEMMA ReloadStutter == ReloadInv /\ UNCHANGED reloadVars => ReloadInv'
<1> SUFFICES ASSUME ReloadInv, UNCHANGED reloadVars PROVE ReloadInv'
  OBVIOUS
<1>1. UNCHANGED <<site, closed, lastHash, clients, conn, closes, sending, closing, tab>>
  BY DEF reloadVars
<1>2. ReloadTypes' /\ OpenIsRegistered' /\ OneTab' /\ KnownIsShown'
  BY <1>1 DEF ReloadInv, ReloadTypes, OpenIsRegistered, OneTab, KnownIsShown
<1>3. SendsLast' /\ StreamIsCurrent' /\ UnregisteredIsEmpty' /\ L!ClosedOnce'
  BY <1>1 DEF ReloadInv, SendsLast, StreamIsCurrent, UnregisteredIsEmpty, L!ClosedOnce
<1> QED BY <1>2, <1>3 DEF ReloadInv

LEMMA ReloadPart ==
  [Next]_vars => part' = part /\ (part = "reload" => L!Next \/ UNCHANGED reloadVars)
  BY DEF Next, vars, NotReload, NotServing, NotPreview, NotLinks

\* The inductive invariant of live reload.
THEOREM ReloadKept == Spec => [](part = "reload" => ReloadInv)
<1>1. Init => (part = "reload" => ReloadInv)
  BY ReloadInit DEF Init
<1>2. (part = "reload" => ReloadInv) /\ [Next]_vars => (part = "reload" => ReloadInv)'
  BY ReloadStep, ReloadStutter, ReloadPart
<1> QED BY <1>1, <1>2, PTL DEF Spec

\* A connected page that has read all it was sent shows the build that was last
\* announced, unless it was late from the start; and no done channel is closed
\* twice, which would panic, whoever ends the connection.
THEOREM ConnectedIsCurrent == Spec => [](part = "reload" => L!ConnectedShowsLatest /\ L!ClosedOnce)
<1>1. ReloadInv => L!ConnectedShowsLatest
  <2> SUFFICES ASSUME ReloadInv, sending = L!Quiet, ~closed, lastHash # 0, NEW t \in Tabs,
                      tab[t].conn # None, conn[tab[t].conn].pc = "loop", conn[tab[t].conn].ch = <<>>,
                      closes[tab[t].conn] = 0
               PROVE  tab[t].page >= lastHash \/ tab[t].late
    BY DEF L!ConnectedShowsLatest
  <2>1. tab[t].conn \in Conns
    BY DEF ReloadInv, ReloadTypes, Tab
  <2>2. tab[t].conn \in clients
    BY <2>1 DEF ReloadInv, OpenIsRegistered
  <2>3. tab[t].conn \notin sending.todo
    BY DEF L!Quiet
  <2>4. tab[t].current = lastHash
    BY <2>2, <2>3 DEF ReloadInv, StreamIsCurrent
  <2> QED BY <2>4 DEF ReloadInv, KnownIsShown
<1>2. ReloadInv => L!ClosedOnce
  BY DEF ReloadInv
<1> QED BY <1>1, <1>2, ReloadKept, PTL

=============================================================================
