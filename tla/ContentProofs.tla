---------------------------- MODULE ContentProofs ----------------------------
(***************************************************************************)
(* Proofs about what becomes of documents, for every value of the constants: *)
(* new documents from templates, by any authors at once, the fixer's renames, *)
(* rewrites and rollbacks, the pages that are made of what is found, where    *)
(* they are and where their links lead, and the versions of repositories that *)
(* are built.                                                                 *)
(***************************************************************************)
EXTENDS Content, FiniteSetTheorems, WellFoundedInduction, TLAPS, SequenceTheorems

(* A set of numbers has a least one, and a finite set a largest.             *)
LEMMA Least ==
  ASSUME NEW S \in SUBSET Nat, S # {}
  PROVE  \E m \in S : \A n \in S : m <= n
<1>1. PICK m \in S : \A n \in S : ~(<<n, m>> \in OpToRel(<, Nat))
  BY NatLessThanWellFounded, WFMin
<1>2. \A n \in S : ~(n < m)
  BY <1>1 DEF OpToRel
<1> QED BY <1>2

LEMMA Largest ==
  ASSUME NEW S \in SUBSET Nat, S # {}, IsFiniteSet(S)
  PROVE  \E m \in S : \A n \in S : n <= m
<1>1. PICK k \in Nat : ExistsBijection(1..k, S)
  BY FS_NatBijection
<1>2. PICK f \in Bijection(1..k, S) : TRUE
  BY <1>1 DEF ExistsBijection
<1>3. f \in [1..k -> S] /\ \A s \in S : \E i \in 1..k : f[i] = s
  BY <1>2 DEF Bijection, Injection, Surjection
<1> DEFINE Bounded(j) == \E u \in Nat : \A i \in 1..j : f[i] <= u
           Bad == {j \in 0..k : ~Bounded(j)}
<1>4. ASSUME NEW j \in 1..k, Bounded(j - 1) PROVE Bounded(j)
  <2>1. PICK u \in Nat : \A i \in 1..(j - 1) : f[i] <= u
    BY <1>4
  <2>2. f[j] \in Nat /\ u + f[j] \in Nat /\ f[j] <= u + f[j] /\ u <= u + f[j]
    <3>1. f[j] \in Nat
      BY <1>3
    <3> QED BY <2>1, <3>1
  <2>3. ASSUME NEW i \in 1..j PROVE f[i] <= u + f[j]
    <3>1. CASE i = j
      BY <2>2, <3>1
    <3>2. CASE i # j
      <4>1. i \in 1..(j - 1) /\ i \in 1..k
        BY <1>1, <3>2
      <4>2. f[i] \in Nat /\ f[i] <= u
        BY <1>3, <2>1, <4>1
      <4> QED BY <2>2, <4>2
    <3> QED BY <3>1, <3>2
  <2> QED BY <2>2, <2>3
<1>5. Bounded(0)
  <2>1. \A i \in 1..0 : f[i] <= 0
    OBVIOUS
  <2> QED BY <2>1
<1> HIDE DEF Bounded
<1>6. Bad = {}
  <2> SUFFICES ASSUME Bad # {} PROVE FALSE
    OBVIOUS
  <2>1. Bad \in SUBSET Nat
    OBVIOUS
  <2>2. PICK j \in Bad : \A n \in Bad : j <= n
    <3> HIDE DEF Bad
    <3> QED BY <2>1, Least
  <2>3. j \in 0..k /\ ~Bounded(j)
    BY <2>2
  <2>4. j \in 1..k /\ j - 1 \in 0..k /\ ~(j <= j - 1)
    BY <1>1, <1>5, <2>3
  <2>5. Bounded(j - 1)
    BY <2>2, <2>4
  <2> QED BY <1>4, <2>3, <2>4, <2>5
<1>7. PICK u \in Nat : \A i \in 1..k : f[i] <= u
  <2>1. k \in 0..k
    BY <1>1
  <2>2. Bounded(k)
    BY <1>6, <2>1
  <2> QED BY <2>2 DEF Bounded
<1> DEFINE Bounds == {b \in Nat : \A n \in S : n <= b}
<1>8. u \in Bounds /\ Bounds \in SUBSET Nat
  BY <1>3, <1>7
<1>9. PICK m \in Bounds : \A b \in Bounds : m <= b
  <2> HIDE DEF Bounds
  <2> QED BY <1>8, Least
<1>10. m \in Nat /\ \A n \in S : n <= m /\ n \in Nat
  BY <1>9
<1>11. ASSUME m \notin S PROVE FALSE
  <2>1. \A n \in S : n <= m - 1
    BY <1>10, <1>11
  <2>2. m - 1 \in Nat
    <3>1. PICK n \in S : TRUE
      OBVIOUS
    <3>2. n \in Nat /\ n <= m - 1
      BY <1>10, <2>1
    <3> QED BY <1>10, <3>2
  <2>3. m - 1 \in Bounds /\ ~(m <= m - 1)
    BY <1>10, <2>1, <2>2
  <2> QED BY <1>9, <2>3
<1> QED BY <1>10, <1>11

-----------------------------------------------------------------------------
(* Templates.                                                              *)

(* Whatever link is followed is one of the list: those that dedupe keeps    *)
(* are the first ones of their page, and there is a first one for every     *)
(* page.                                                                    *)
LEMMA DedupedAreListed ==
  ASSUME NEW l \in TemplateListings
  PROVE  \A yes \in BOOLEAN : T!SelectTemplate(T!DedupeTemplateLinksByURL(l), yes) \subseteq {l[i] : i \in DOMAIN l}
<1> DEFINE urls(i) == {l[j].url : j \in 1..i}
           all == {x.url : x \in {l[i] : i \in DOMAIN l}}
           first(k, i) == /\ \A j \in 1..(i - 1) : l[j].url # l[i].url
                          /\ T!Cardinality({l[j].url : j \in 1..(i - 1)}) = k - 1
           links == T!DedupeTemplateLinksByURL(l)
<1>0. \A S : T!Cardinality(S) = Cardinality(S)
  BY Zenon DEF T!Cardinality, Cardinality
<1>1. Len(l) \in Nat /\ DOMAIN l = 1..Len(l)
  BY TemplatesAssumption
<1>2. links = [k \in 1..T!Cardinality(all) |-> l[CHOOSE i \in DOMAIN l : first(k, i)]]
  BY DEF T!DedupeTemplateLinksByURL
<1>3. all = urls(Len(l))
  BY <1>1
<1>4. \A i \in Nat : IsFiniteSet(urls(i)) /\ Cardinality(urls(i)) \in Nat
  <2> TAKE i \in Nat
  <2> DEFINE g == [j \in 1..i |-> l[j].url]
  <2>1. g \in Surjection(1..i, urls(i))
    BY DEF Surjection
  <2> HIDE DEF urls, g
  <2>2. IsFiniteSet(1..i)
    BY FS_Interval
  <2>3. IsFiniteSet(urls(i))
    BY <2>1, <2>2, FS_Surjection
  <2> QED BY <2>3, FS_CardinalityType
<1>5. ASSUME NEW k \in 1..Cardinality(urls(Len(l))) PROVE \E i \in DOMAIN l : first(k, i)
  <2> DEFINE Enough == {i \in 0..Len(l) : k <= Cardinality(urls(i))}
  <2>1. Len(l) \in Enough
    <3> HIDE DEF urls
    <3>1. Cardinality(urls(Len(l))) \in Nat /\ Len(l) \in 0..Len(l)
      BY <1>1, <1>4
    <3> QED BY <3>1
  <2>14. Enough \in SUBSET Nat /\ \A n \in Enough : n \in 0..Len(l) /\ k <= Cardinality(urls(n))
    <3> HIDE DEF urls
    <3> QED BY <1>1
  <2>15. \A n \in 0..Len(l) : k <= Cardinality(urls(n)) => n \in Enough
    OBVIOUS
  <2> HIDE DEF Enough
  <2>2. PICK i \in Enough : \A n \in Enough : i <= n
    BY <2>1, <2>14, Least
  <2> HIDE DEF urls
  <2>3. urls(0) = {}
    BY DEF urls
  <2>4. Cardinality(urls(0)) = 0
    BY <2>3, FS_EmptySet
  <2>5. i # 0
    BY <2>4, <2>14
  <2>6. i \in 1..Len(l) /\ i - 1 \in Nat /\ i - 1 \in 0..Len(l)
    BY <1>1, <2>5, <2>14
  <2>7. ~(k <= Cardinality(urls(i - 1)))
    BY <2>2, <2>6, <2>15
  <2>8. urls(i) = urls(i - 1) \cup {l[i].url}
    <3>1. 1..i = 1..(i - 1) \cup {i}
      BY <2>6
    <3> QED BY <3>1 DEF urls
  <2>9. Cardinality(urls(i)) = IF l[i].url \in urls(i - 1) THEN Cardinality(urls(i - 1)) ELSE Cardinality(urls(i - 1)) + 1
    <3>1. IsFiniteSet(urls(i - 1))
      BY <1>4, <2>6
    <3> QED BY <2>8, <3>1, FS_AddElement
  <2>10. k <= Cardinality(urls(i))
    BY <2>14
  <2>11. Cardinality(urls(i - 1)) \in Nat /\ k \in Nat
    <3>1. Cardinality(urls(i - 1)) \in Nat
      BY <1>4, <2>6
    <3>2. k \in Nat
      OBVIOUS
    <3> QED BY <3>1, <3>2
  <2>12. l[i].url \notin urls(i - 1) /\ Cardinality(urls(i - 1)) = k - 1
    BY <2>7, <2>9, <2>10, <2>11
  <2>13. first(k, i)
    BY <1>0, <2>12 DEF urls
  <2> QED BY <1>1, <2>6, <2>13
<1>6. \A k \in DOMAIN links : \E i \in DOMAIN l : links[k] = l[i]
  <2> TAKE k \in DOMAIN links
  <2>1. k \in 1..Cardinality(urls(Len(l)))
    BY <1>0, <1>2, <1>3
  <2>2. \E i \in DOMAIN l : first(k, i)
    BY <1>5, <2>1
  <2> HIDE DEF first
  <2>3. (CHOOSE i \in DOMAIN l : first(k, i)) \in DOMAIN l
    BY <2>2
  <2>4. links[k] = l[CHOOSE i \in DOMAIN l : first(k, i)]
    BY <1>2
  <2> QED BY <2>3, <2>4
<1> HIDE DEF links
<1> QED BY <1>6 DEF T!SelectTemplate, links

(* The number a run looks for is a new one among those of three digits.     *)
Wide(def) == def.start \in Int /\ (def.limit = None \/ (def.limit \in Nat /\ DigitsEnd <= def.limit))

IsDoc(d) ==
  d = [id |-> d.id, path |-> [num |-> d.path.num, slug |-> d.path.slug], body |-> d.body, saw |-> d.saw, crossed |-> d.crossed]

DocsAreTheirOwn ==
  /\ IsFiniteSet(tdocs) /\ tcount \in Nat
  /\ \A d \in tdocs : IsDoc(d) /\ d.id \in 1..tcount /\ d.path.num \in Nat /\ d.saw \subseteq 1..tcount
  /\ \A d, e \in tdocs : d.id = e.id \/ d.path = e.path => d = e

(* What a run has found out, and what was there when it began.              *)
OnPath(r) ==
  /\ r = [pc |-> "path", page |-> r.page, values |-> r.values, slug |-> r.slug, saw |-> r.saw]
  /\ r.saw \subseteq 1..tcount /\ (r.page.seq = None \/ Wide(r.page.seq))
OnBody(r) ==
  /\ r = [pc |-> "body", path |-> [num |-> r.path.num, slug |-> r.path.slug], def |-> r.def, renders |-> r.renders,
          saw |-> r.saw, crossed |-> r.crossed]
  /\ r.saw \subseteq 1..tcount /\ r.path.num \in Nat
  /\ r.crossed \/ r.path.num = T!ComputeNextInSequence(r.def, tdocs)
OnWrite(r) ==
  /\ r = [pc |-> "write", path |-> [num |-> r.path.num, slug |-> r.path.slug], body |-> r.body, saw |-> r.saw, crossed |-> r.crossed]
  /\ r.saw \subseteq 1..tcount /\ r.path.num \in Nat
  /\ r.crossed \/ r.body = r.path.num
OnLint(r) == r = [pc |-> "lint", id |-> r.id]

(* A number that a run has taken is that of no document it has seen.        *)
TakesNew(r) == r.path.num <= DigitsEnd => \A d \in tdocs : d.path.num = r.path.num => d.id \notin r.saw

RightRun(r) ==
  \/ r = T!Idle \/ OnPath(r) \/ OnLint(r)
  \/ OnBody(r) /\ TakesNew(r)
  \/ OnWrite(r) /\ TakesNew(r)

RunsAreRight == trun = [a \in Authors |-> trun[a]] /\ \A a \in Authors : RightRun(trun[a])

TemplatesInv == DocsAreTheirOwn /\ RunsAreRight /\ T!NumbersAreNew /\ T!BodyMatchesPath

(* The initial state.                                                       *)
LEMMA TemplatesStart == T!Init => TemplatesInv
<1> SUFFICES ASSUME T!Init PROVE TemplatesInv
  OBVIOUS
<1>1. tdocs \in FirstDocs /\ tcount = T!Cardinality(tdocs) /\ trun = [a \in Authors |-> T!Idle]
  BY DEF T!Init
<1>2. T!Cardinality(tdocs) = Cardinality(tdocs)
  BY Zenon DEF T!Cardinality, Cardinality
<1>3. /\ IsFiniteSet(tdocs)
      /\ \A d \in tdocs : /\ d = [id |-> d.id, path |-> [num |-> d.path.num, slug |-> d.path.slug], body |-> d.path.num, saw |-> {}, crossed |-> FALSE]
                          /\ d.id \in 1..Cardinality(tdocs) /\ d.path.num \in Nat
      /\ \A d, e \in tdocs : d.id = e.id \/ d.path = e.path => d = e
  BY <1>1, TemplatesAssumption
<1>4. Cardinality(tdocs) \in Nat
  BY <1>3, FS_CardinalityType
<1>5. ASSUME NEW d \in tdocs
      PROVE  IsDoc(d) /\ d.id \in 1..tcount /\ d.path.num \in Nat /\ d.saw = {} /\ d.body = d.path.num
  <2>1. d = [id |-> d.id, path |-> [num |-> d.path.num, slug |-> d.path.slug], body |-> d.path.num, saw |-> {}, crossed |-> FALSE]
    BY <1>3
  <2>2. d.body = d.path.num /\ d.saw = {} /\ d.crossed = FALSE
    BY <2>1
  <2> QED BY <1>1, <1>2, <1>3, <2>1, <2>2 DEF IsDoc
<1>6. DocsAreTheirOwn
  BY <1>1, <1>2, <1>3, <1>4, <1>5 DEF DocsAreTheirOwn
<1>7. RunsAreRight
  BY <1>1 DEF RunsAreRight, RightRun
<1>8. T!NumbersAreNew /\ T!BodyMatchesPath
  BY <1>5 DEF T!NumbersAreNew, T!BodyMatchesPath
<1> QED BY <1>6, <1>7, <1>8 DEF TemplatesInv

(* The next number is a number, and larger than every one that it looks at. *)
LEMMA NextIsNew ==
  ASSUME DocsAreTheirOwn, NEW def, Wide(def)
  PROVE  /\ T!ComputeNextInSequence(def, tdocs) \in Nat
         /\ \A d \in tdocs : d.path.num <= DigitsEnd => d.path.num < T!ComputeNextInSequence(def, tdocs)
<1> DEFINE found == {e \in tdocs : def.limit = None \/ e.path.num <= def.limit}
           seen == T!Matched(def, tdocs)
           num == T!ComputeNextInSequence(def, tdocs)
<1>1. seen = {d.path.num : d \in found}
  BY DEF T!Matched
<1>2. IsFiniteSet(found) /\ \A d \in tdocs : d.path.num \in Nat
  BY FS_Subset DEF DocsAreTheirOwn
<1>3. IsFiniteSet(seen) /\ seen \in SUBSET Nat
  <2>1. DEFINE f == [d \in found |-> d.path.num]
  <2>2. f \in Surjection(found, seen)
    BY <1>1 DEF Surjection
  <2>3. seen \in SUBSET Nat
    BY <1>1, <1>2
  <2> HIDE DEF f, found, seen
  <2> QED BY <1>2, <2>2, <2>3, FS_Surjection
<1>4. \A d \in tdocs : d.path.num <= DigitsEnd => d.path.num \in seen
  <2> SUFFICES ASSUME NEW d \in tdocs, d.path.num <= DigitsEnd PROVE d \in found
    BY <1>1
  <2> QED BY <1>2, TemplatesAssumption DEF Wide
<1>5. num = IF seen # {} THEN 1 + CHOOSE n \in seen : \A m \in seen : m <= n
            ELSE IF def.start > 0 THEN def.start ELSE 1
  BY DEF T!ComputeNextInSequence
<1> HIDE DEF seen, num
<1>6. CASE seen # {}
  <2>1. PICK n \in seen : \A m \in seen : m <= n
    BY <1>3, <1>6, Largest
  <2> DEFINE large == CHOOSE k \in seen : \A m \in seen : m <= k
  <2>2. large \in seen /\ \A m \in seen : m <= large
    BY <2>1
  <2>3. num = 1 + large
    BY <1>5, <1>6
  <2> HIDE DEF large
  <2>4. num \in Nat /\ \A m \in seen : m \in Nat /\ m < num
    BY <1>3, <2>2, <2>3
  <2> QED BY <1>4, <2>4 DEF num
<1>7. CASE seen = {}
  BY <1>4, <1>5, <1>7 DEF num, Wide
<1> QED BY <1>6, <1>7

(* A run that goes on, while the documents stay as they are.                *)
LEMMA RunGoesOn ==
  ASSUME TemplatesInv, NEW a \in Authors, NEW r, RightRun(r), trun' = [trun EXCEPT ![a] = r], UNCHANGED <<tdocs, tcount>>
  PROVE  TemplatesInv'
<1>1. DocsAreTheirOwn' /\ T!NumbersAreNew' /\ T!BodyMatchesPath'
  BY DEF TemplatesInv, DocsAreTheirOwn, T!NumbersAreNew, T!BodyMatchesPath
<1>2. \A s : RightRun(s) => RightRun(s)'
  BY DEF RightRun, OnPath, OnBody, OnWrite, OnLint, TakesNew
<1>3. trun = [b \in Authors |-> trun[b]] /\ \A b \in Authors : RightRun(trun[b])
  BY DEF TemplatesInv, RunsAreRight
<1>4. trun' = [b \in Authors |-> trun'[b]]
  BY <1>3
<1>5. ASSUME NEW b \in Authors PROVE RightRun(trun[b])'
  <2>1. CASE b = a
    <3>1. trun'[b] = r
      BY <1>3, <2>1
    <3>2. RightRun(r)'
      BY <1>2
    <3> QED BY <3>1, <3>2 DEF RightRun, OnPath, OnBody, OnWrite, OnLint, TakesNew
  <2>2. CASE b # a
    <3>1. trun'[b] = trun[b]
      BY <1>3, <2>2
    <3>2. RightRun(trun[b])
      BY <1>3
    <3> QED BY <3>1, <3>2 DEF RightRun, OnPath, OnBody, OnWrite, OnLint, TakesNew
  <2> QED BY <2>1, <2>2
<1> QED BY <1>1, <1>4, <1>5 DEF TemplatesInv, RunsAreRight

(* A run is at one place at a time.                                         *)
LEMMA WhereRunIs ==
  ASSUME TemplatesInv, NEW a \in Authors
  PROVE  /\ trun[a].pc = "path" => OnPath(trun[a])
         /\ trun[a].pc = "body" => OnBody(trun[a]) /\ TakesNew(trun[a])
         /\ trun[a].pc = "write" => OnWrite(trun[a]) /\ TakesNew(trun[a])
         /\ trun[a].pc = "lint" => OnLint(trun[a])
<1> DEFINE r == trun[a]
<1>1. RightRun(r)
  BY DEF TemplatesInv, RunsAreRight
<1>2. /\ r = T!Idle => r.pc = "idle"
      /\ OnPath(r) => r.pc = "path"
      /\ OnBody(r) => r.pc = "body"
      /\ OnWrite(r) => r.pc = "write"
      /\ OnLint(r) => r.pc = "lint"
  <2>1. r = T!Idle => r.pc = "idle"
    BY DEF T!Idle
  <2>2. OnPath(r) => r.pc = "path"
    BY DEF OnPath
  <2>3. OnBody(r) => r.pc = "body"
    BY DEF OnBody
  <2>4. OnWrite(r) => r.pc = "write"
    BY DEF OnWrite
  <2>5. OnLint(r) => r.pc = "lint"
    BY DEF OnLint
  <2> QED BY <2>1, <2>2, <2>3, <2>4, <2>5
<1> QED BY <1>1, <1>2 DEF RightRun

(* TemplateNewCmd.Run up to the inputs.                                     *)
LEMMA StartKeeps == ASSUME TemplatesInv, NEW a \in Authors, T!Start(a) PROVE TemplatesInv'
<1>1. PICK listing \in TemplateListings, yes \in BOOLEAN, useDefaults \in BOOLEAN, flags \in Settings, answers \in Settings, slug \in DocSlugs :
        \E page \in T!SelectTemplate(T!DedupeTemplateLinksByURL(listing), yes) :
          LET values == T!ResolveTemplateInputs(page, flags, useDefaults, answers)
          IN /\ T!ParseTemplatePage(page) /\ values # Invalid
             /\ values["slug"] # None
             /\ trun' = [trun EXCEPT ![a] =
                  [pc |-> "path", page |-> page, values |-> values, slug |-> slug, saw |-> {d.id : d \in tdocs}]]
  BY Zenon DEF T!Start
<1>2. PICK page \in T!SelectTemplate(T!DedupeTemplateLinksByURL(listing), yes) :
        \E values : trun' = [trun EXCEPT ![a] = [pc |-> "path", page |-> page, values |-> values, slug |-> slug, saw |-> {d.id : d \in tdocs}]]
  BY <1>1, Zenon
<1>3. PICK values : trun' = [trun EXCEPT ![a] = [pc |-> "path", page |-> page, values |-> values, slug |-> slug, saw |-> {d.id : d \in tdocs}]]
  BY <1>2
<1> DEFINE r == [pc |-> "path", page |-> page, values |-> values, slug |-> slug, saw |-> {d.id : d \in tdocs}]
<1>4. page.seq = None \/ Wide(page.seq)
  <2>1. page \in {listing[i] : i \in DOMAIN listing}
    BY DedupedAreListed
  <2> QED BY <2>1, TemplatesAssumption DEF Wide, WideEnough
<1>5. r.saw \subseteq 1..tcount
  BY DEF TemplatesInv, DocsAreTheirOwn
<1>6. OnPath(r)
  BY <1>4, <1>5 DEF OnPath
<1>7. RightRun(r) /\ UNCHANGED <<tdocs, tcount>>
  BY <1>6 DEF RightRun, T!Start
<1> HIDE DEF r
<1> QED BY <1>3, <1>7, RunGoesOn DEF r

(* RenderOutputPath takes a new number.                                     *)
LEMMA PathKeeps == ASSUME TemplatesInv, NEW a \in Authors, T!RenderOutputPath(a) PROVE TemplatesInv'
<1> DEFINE o == trun[a]
           def == T!Sequence(o.page)
           num == T!ComputeNextInSequence(def, tdocs)
           r == [pc |-> "body", path |-> [num |-> num, slug |-> o.slug], def |-> def,
                 renders |-> \A k \in o.page.uses : o.values[k] # None, saw |-> o.saw, crossed |-> FALSE]
<1>1. o.pc = "path" /\ def # None /\ UNCHANGED <<tdocs, tcount>>
  BY DEF T!RenderOutputPath, T!CanNumber
<1>2. trun' = [trun EXCEPT ![a] = r]
  BY DEF T!RenderOutputPath, TemplatesInv, RunsAreRight
<1>3. OnPath(o)
  BY <1>1, WhereRunIs
<1>4. Wide(def)
  <2>1. CASE o.page.seq # None
    BY <1>3, <2>1 DEF T!Sequence, OnPath
  <2>2. CASE o.page.seq = None
    <3>1. def = [start |-> 1, limit |-> DigitsEnd]
      BY <1>1, <2>2 DEF T!Sequence
    <3> QED BY <3>1, TemplatesAssumption DEF Wide
  <2> QED BY <2>1, <2>2
<1> HIDE DEF def
<1>5. num \in Nat /\ \A d \in tdocs : d.path.num <= DigitsEnd => d.path.num < num
  BY <1>4, NextIsNew DEF TemplatesInv
<1>6. \A d \in tdocs : d.path.num \in Nat
  BY DEF TemplatesInv, DocsAreTheirOwn
<1> HIDE DEF num, o
<1>7. OnBody(r)
  BY <1>3, <1>5 DEF OnBody, OnPath, num
<1>8. TakesNew(r)
  BY <1>5, <1>6 DEF TakesNew
<1>9. RightRun(r)
  BY <1>7, <1>8 DEF RightRun
<1> HIDE DEF r
<1> QED BY <1>1, <1>2, <1>9, RunGoesOn

(* RenderTemplateBody finds the same number if no document came in between. *)
LEMMA BodyKeeps == ASSUME TemplatesInv, NEW a \in Authors, T!RenderTemplateBody(a) PROVE TemplatesInv'
<1> DEFINE o == trun[a]
           num == T!ComputeNextInSequence(o.def, tdocs)
           r == [pc |-> "write", path |-> o.path, body |-> num, saw |-> o.saw, crossed |-> o.crossed]
<1>1. o.pc = "body" /\ UNCHANGED <<tdocs, tcount>>
  BY DEF T!RenderTemplateBody
<1>2. trun' = [trun EXCEPT ![a] = r]
  BY DEF T!RenderTemplateBody, TemplatesInv, RunsAreRight
<1>3. OnBody(o) /\ TakesNew(o)
  BY <1>1, WhereRunIs
<1>4. OnWrite(r)
  <2> HIDE DEF num, o
  <2>1. o.path = [num |-> o.path.num, slug |-> o.path.slug]
    BY <1>3 DEF OnBody
  <2>2. r.path = o.path /\ r.body = num /\ r.saw = o.saw /\ r.crossed = o.crossed
    OBVIOUS
  <2> QED BY <1>3, <2>1, <2>2 DEF OnWrite, OnBody, num
<1>5. TakesNew(r)
  BY <1>3 DEF TakesNew
<1>6. RightRun(r)
  BY <1>4, <1>5 DEF RightRun
<1> HIDE DEF r
<1> QED BY <1>1, <1>2, <1>6, RunGoesOn

(* WriteGeneratedFile: what is created is a document of its own, with a     *)
(* number that no document has which its run has seen; the runs between     *)
(* their path and their body are told.                                      *)
LEMMA WriteKeeps ==
  ASSUME TemplatesInv, NEW a \in Authors, NEW written \in BOOLEAN, T!WriteGeneratedFile(a, written)
  PROVE  TemplatesInv'
<1> DEFINE r == trun[a]
           m == T!Made(r, IF written THEN r.body ELSE None)
<1>1. r.pc = "write"
  BY DEF T!WriteGeneratedFile
<1>2. OnWrite(r) /\ TakesNew(r)
  BY <1>1, WhereRunIs
<1>3. CASE ~T!Exclusive(r.path)
  <2>1. trun' = [trun EXCEPT ![a] = T!Idle] /\ UNCHANGED <<tdocs, tcount>>
    BY <1>3 DEF T!WriteGeneratedFile
  <2>2. RightRun(T!Idle)
    BY DEF RightRun
  <2> QED BY <2>1, <2>2, RunGoesOn
<1>4. CASE T!Exclusive(r.path)
  <2>1. /\ tdocs' = tdocs \cup {m} /\ tcount' = tcount + 1
        /\ \A d \in tdocs : d.path # r.path
    BY <1>4 DEF T!WriteGeneratedFile, T!Exclusive, T!At
  <2>2. trun' = [T!Crossed(a) EXCEPT ![a] = IF written THEN [pc |-> "lint", id |-> tcount + 1] ELSE T!Idle]
    BY <1>4 DEF T!WriteGeneratedFile
  <2>3. /\ m.id = tcount + 1 /\ m.path = r.path /\ m.saw = r.saw /\ m.crossed = r.crossed /\ m.body \in {r.body, None}
        /\ IsDoc(m)
    <3>1. r.path = [num |-> r.path.num, slug |-> r.path.slug]
      BY <1>2 DEF OnWrite
    <3> QED BY <3>1 DEF T!Made, IsDoc
  <2> HIDE DEF m, r
  <2>4. /\ IsFiniteSet(tdocs) /\ tcount \in Nat
        /\ \A d \in tdocs : IsDoc(d) /\ d.id \in 1..tcount /\ d.path.num \in Nat /\ d.saw \subseteq 1..tcount
        /\ \A d, e \in tdocs : d.id = e.id \/ d.path = e.path => d = e
    BY DEF TemplatesInv, DocsAreTheirOwn
  <2>5. r.saw \subseteq 1..tcount /\ r.path.num \in Nat /\ (r.crossed \/ r.body = r.path.num)
    BY <1>2 DEF OnWrite
  <2>6. 1..tcount \subseteq 1..(tcount + 1) /\ tcount + 1 \in 1..(tcount + 1) /\ tcount + 1 \notin 1..tcount /\ tcount + 1 \in Nat
    BY <2>4
  <2>7. DocsAreTheirOwn'
    <3>1. IsFiniteSet(tdocs')
      BY <2>1, <2>4, FS_AddElement
    <3>2. ASSUME NEW d \in tdocs' PROVE IsDoc(d) /\ d.id \in 1..tcount' /\ d.path.num \in Nat /\ d.saw \subseteq 1..tcount'
      BY <2>1, <2>3, <2>4, <2>5, <2>6
    <3>3. ASSUME NEW d \in tdocs', NEW e \in tdocs', d.id = e.id \/ d.path = e.path PROVE d = e
      BY <2>1, <2>3, <2>4, <2>6, <3>3
    <3>4. tcount' \in Nat
      BY <2>1, <2>6
    <3> QED BY <3>1, <3>2, <3>3, <3>4 DEF DocsAreTheirOwn, IsDoc
  <2>8. T!NumbersAreNew'
    <3> SUFFICES ASSUME NEW d \in tdocs', NEW e \in tdocs', d # e, d.path.num = e.path.num, d.path.num <= DigitsEnd
                 PROVE  d.id \notin e.saw
      BY DEF T!NumbersAreNew
    <3>1. CASE d \in tdocs /\ e \in tdocs
      BY <3>1 DEF TemplatesInv, T!NumbersAreNew
    <3>2. CASE d = m
      <4>1. e \in tdocs
        BY <2>1, <3>2
      <4>2. e.saw \subseteq 1..tcount
        BY <2>4, <4>1
      <4> QED BY <2>3, <2>6, <3>2, <4>2
    <3>3. CASE d \in tdocs /\ e = m
      BY <1>2, <2>3, <3>3 DEF TakesNew
    <3> QED BY <2>1, <3>1, <3>2, <3>3
  <2>9. T!BodyMatchesPath'
    <3> SUFFICES ASSUME NEW d \in tdocs' PROVE d.body \in {None, d.path.num} \/ d.crossed
      BY DEF T!BodyMatchesPath
    <3>1. CASE d \in tdocs
      BY <3>1 DEF TemplatesInv, T!BodyMatchesPath
    <3>2. CASE d = m
      BY <2>3, <2>5, <3>2
    <3> QED BY <2>1, <3>1, <3>2
  <2>10. trun' = [b \in Authors |-> trun'[b]]
    BY <2>2 DEF T!Crossed
  <2>11. ASSUME NEW b \in Authors PROVE RightRun(trun[b])'
    <3>1. CASE b = a
      <4>1. trun'[b] = [pc |-> "lint", id |-> tcount + 1] \/ trun'[b] = T!Idle
        BY <2>2, <3>1 DEF T!Crossed
      <4>2. CASE trun'[b] = T!Idle
        BY <4>2 DEF RightRun, T!Idle
      <4>3. CASE trun'[b] = [pc |-> "lint", id |-> tcount + 1]
        BY <4>3 DEF RightRun, OnLint
      <4> QED BY <4>1, <4>2, <4>3
    <3>2. CASE b # a
      <4> DEFINE s == trun[b]
      <4>1. RightRun(s)
        BY DEF TemplatesInv, RunsAreRight
      <4>2. trun'[b] = IF s.pc = "body" THEN [s EXCEPT !.crossed = TRUE] ELSE s
        BY <2>2, <3>2 DEF T!Crossed
      <4> HIDE DEF s
      <4> DEFINE StaysNew == s.path.num <= DigitsEnd => \A d \in tdocs' : d.path.num = s.path.num => d.id \notin s.saw
      <4>3. s.saw \subseteq 1..tcount /\ TakesNew(s) => StaysNew
        BY <2>1, <2>3, <2>6 DEF TakesNew
      <4> HIDE DEF StaysNew
      <4>4. CASE s.pc = "body"
        <5>1. OnBody(s) /\ TakesNew(s)
          BY <4>4, WhereRunIs DEF s
        <5> DEFINE n == [s EXCEPT !.crossed = TRUE]
        <5>2. n = [pc |-> "body", path |-> s.path, def |-> s.def, renders |-> s.renders, saw |-> s.saw, crossed |-> TRUE]
          <6>1. s = [pc |-> "body", path |-> s.path, def |-> s.def, renders |-> s.renders, saw |-> s.saw, crossed |-> s.crossed]
            BY <5>1 DEF OnBody
          <6>2. n = [x \in DOMAIN n |-> n[x]] /\ DOMAIN n = DOMAIN s
            OBVIOUS
          <6>3. DOMAIN n = {"pc", "path", "def", "renders", "saw", "crossed"}
            BY <6>1, <6>2
          <6>4. n.pc = "body" /\ n.path = s.path /\ n.def = s.def /\ n.renders = s.renders /\ n.saw = s.saw /\ n.crossed = TRUE
            BY <6>1
          <6> HIDE DEF n
          <6> QED BY <6>2, <6>3, <6>4
        <5>3. s.path = [num |-> s.path.num, slug |-> s.path.slug] /\ s.saw \subseteq 1..tcount' /\ s.path.num \in Nat
          BY <2>1, <2>6, <5>1 DEF OnBody
        <5> HIDE DEF n
        <5>4. n.path = s.path /\ n.saw = s.saw /\ n.crossed = TRUE /\ n.def = s.def /\ n.renders = s.renders
          BY <5>2
        <5>5. StaysNew
          BY <4>3, <5>1 DEF OnBody
        <5>6. trun'[b] = n
          BY <4>2, <4>4 DEF n
        <5>7. OnBody(trun[b])'
          BY <5>2, <5>3, <5>4, <5>6 DEF OnBody
        <5>8. TakesNew(trun[b])'
          BY <5>4, <5>5, <5>6 DEF TakesNew, StaysNew
        <5> QED BY <5>7, <5>8 DEF RightRun
      <4>5. CASE s.pc # "body"
        <5>1. trun'[b] = s
          BY <4>2, <4>5
        <5>2. CASE s = T!Idle \/ OnLint(s)
          BY <5>1, <5>2 DEF RightRun, OnLint, T!Idle
        <5>3. CASE OnPath(s)
          <6>1. s.saw \subseteq 1..tcount'
            BY <2>1, <2>6, <5>3 DEF OnPath
          <6>2. OnPath(trun[b])'
            BY <5>1, <5>3, <6>1 DEF OnPath
          <6> QED BY <6>2 DEF RightRun
        <5>4. CASE OnWrite(s) /\ TakesNew(s)
          <6>1. s.saw \subseteq 1..tcount' /\ StaysNew
            BY <2>1, <2>6, <4>3, <5>4 DEF OnWrite
          <6>2. OnWrite(trun[b])'
            BY <5>1, <5>4, <6>1 DEF OnWrite
          <6>3. TakesNew(trun[b])'
            BY <5>1, <6>1 DEF TakesNew, StaysNew
          <6> QED BY <6>2, <6>3 DEF RightRun
        <5>5. ~OnBody(s)
          BY <4>5 DEF OnBody
        <5> QED BY <4>1, <5>2, <5>3, <5>4, <5>5 DEF RightRun
      <4> QED BY <4>4, <4>5
    <3> QED BY <3>1, <3>2
  <2> QED BY <2>7, <2>8, <2>9, <2>10, <2>11 DEF TemplatesInv, RunsAreRight
<1> QED BY <1>3, <1>4

(* The fixer's name for a document keeps all of it but the slug.            *)
LEMMA Renamed ==
  ASSUME NEW d, IsDoc(d), NEW n, n = [d EXCEPT !.path = T!Lower(d.path)]
  PROVE  /\ IsDoc(n) /\ n.path = T!Lower(d.path) /\ n.path.num = d.path.num
         /\ n.id = d.id /\ n.body = d.body /\ n.saw = d.saw /\ n.crossed = d.crossed
<1> DEFINE p == d.path
           q == T!Lower(p)
<1>1. p = [num |-> p.num, slug |-> p.slug]
  BY DEF IsDoc
<1>2. q = [num |-> p.num, slug |-> q.slug]
  <2>1. q = [x \in DOMAIN q |-> q[x]] /\ DOMAIN q = DOMAIN p
    BY DEF T!Lower
  <2>2. DOMAIN q = {"num", "slug"}
    BY <1>1, <2>1
  <2>3. q.num = p.num
    BY <1>1 DEF T!Lower
  <2> HIDE DEF q
  <2> QED BY <2>1, <2>2, <2>3
<1>3. n = [x \in DOMAIN n |-> n[x]] /\ DOMAIN n = DOMAIN d
  OBVIOUS
<1>4. DOMAIN n = {"id", "path", "body", "saw", "crossed"}
  BY <1>3 DEF IsDoc
<1>5. n.id = d.id /\ n.path = q /\ n.body = d.body /\ n.saw = d.saw /\ n.crossed = d.crossed
  BY DEF IsDoc
<1> HIDE DEF p, q
<1>6. n.path = [num |-> n.path.num, slug |-> n.path.slug] /\ n.path.num = p.num
  BY <1>2, <1>5
<1>7. IsDoc(n)
  BY <1>3, <1>4, <1>6 DEF IsDoc
<1> QED BY <1>5, <1>6, <1>7 DEF p, q

(* runLintFix: nothing, or one document under its new name.                 *)
LEMMA LintSteps ==
  ASSUME TemplatesInv, NEW a \in Authors, NEW ok \in BOOLEAN, T!RunLintFix(a, ok)
  PROVE  \/ tdocs' = tdocs
         \/ \E m \in tdocs : \E n :
              /\ tdocs' = (tdocs \ {m}) \cup {n} /\ IsDoc(n) /\ n.path.num = m.path.num
              /\ n.id = m.id /\ n.body = m.body /\ n.saw = m.saw /\ n.crossed = m.crossed
              /\ \A d \in tdocs : d.path # n.path
<1> DEFINE mine == {d \in tdocs : d.id = trun[a].id}
           free == \A d \in mine : T!At(T!Lower(d.path)) = {}
<1>1. tdocs' = IF ok /\ free THEN (tdocs \ mine) \cup {[d EXCEPT !.path = T!Lower(d.path)] : d \in mine} ELSE tdocs
  BY DEF T!RunLintFix
<1>2. CASE ~(ok /\ free) \/ mine = {}
  BY <1>1, <1>2
<1>3. CASE ok /\ free /\ mine # {}
  <2>1. PICK m \in mine : TRUE
    BY <1>3
  <2>2. mine = {m}
    BY <2>1 DEF TemplatesInv, DocsAreTheirOwn
  <2> DEFINE n == [m EXCEPT !.path = T!Lower(m.path)]
  <2>3. tdocs' = (tdocs \ {m}) \cup {n}
    BY <1>1, <1>3, <2>2
  <2>4. \A d \in tdocs : d.path # T!Lower(m.path)
    BY <1>3, <2>2 DEF T!At
  <2>5. IsDoc(m) /\ m \in tdocs
    BY <2>1 DEF TemplatesInv, DocsAreTheirOwn
  <2> HIDE DEF mine
  <2>6. /\ IsDoc(n) /\ n.path = T!Lower(m.path) /\ n.path.num = m.path.num
        /\ n.id = m.id /\ n.body = m.body /\ n.saw = m.saw /\ n.crossed = m.crossed
    BY <2>5, Renamed
  <2> HIDE DEF n
  <2> QED BY <2>3, <2>4, <2>5, <2>6
<1> QED BY <1>2, <1>3

LEMMA LintKeeps ==
  ASSUME TemplatesInv, NEW a \in Authors, NEW ok \in BOOLEAN, T!RunLintFix(a, ok)
  PROVE  TemplatesInv'
<1>1. trun' = [trun EXCEPT ![a] = T!Idle] /\ tcount' = tcount
  BY DEF T!RunLintFix
<1>2. CASE tdocs' = tdocs
  <2>1. RightRun(T!Idle)
    BY DEF RightRun
  <2> QED BY <1>1, <1>2, <2>1, RunGoesOn
<1>3. CASE tdocs' # tdocs
  <2>0. PICK m \in tdocs : \E n :
          /\ tdocs' = (tdocs \ {m}) \cup {n} /\ IsDoc(n) /\ n.path.num = m.path.num
          /\ n.id = m.id /\ n.body = m.body /\ n.saw = m.saw /\ n.crossed = m.crossed
          /\ \A d \in tdocs : d.path # n.path
    BY <1>3, LintSteps
  <2>1. PICK n :
          /\ tdocs' = (tdocs \ {m}) \cup {n} /\ IsDoc(n) /\ n.path.num = m.path.num
          /\ n.id = m.id /\ n.body = m.body /\ n.saw = m.saw /\ n.crossed = m.crossed
          /\ \A d \in tdocs : d.path # n.path
    BY <2>0
  <2>2. /\ IsFiniteSet(tdocs) /\ tcount \in Nat
        /\ \A d \in tdocs : IsDoc(d) /\ d.id \in 1..tcount /\ d.path.num \in Nat /\ d.saw \subseteq 1..tcount
        /\ \A d, e \in tdocs : d.id = e.id \/ d.path = e.path => d = e
    BY DEF TemplatesInv, DocsAreTheirOwn
  <2>3. DocsAreTheirOwn'
    <3>1. IsFiniteSet(tdocs')
      <4>1. IsFiniteSet(tdocs \ {m})
        BY <2>2, FS_Subset
      <4> QED BY <2>1, <4>1, FS_AddElement
    <3>2. ASSUME NEW d \in tdocs' PROVE IsDoc(d) /\ d.id \in 1..tcount /\ d.path.num \in Nat /\ d.saw \subseteq 1..tcount
      BY <2>1, <2>2
    <3>3. ASSUME NEW d \in tdocs', NEW e \in tdocs', d.id = e.id \/ d.path = e.path PROVE d = e
      BY <2>1, <2>2, <3>3
    <3> QED BY <1>1, <2>2, <3>1, <3>2, <3>3 DEF DocsAreTheirOwn, IsDoc
  <2>4. T!NumbersAreNew'
    <3> SUFFICES ASSUME NEW d \in tdocs', NEW e \in tdocs', d # e, d.path.num = e.path.num, d.path.num <= DigitsEnd
                 PROVE  d.id \notin e.saw
      BY DEF T!NumbersAreNew
    <3>1. \A d1, e1 \in tdocs : d1 # e1 /\ d1.path.num = e1.path.num /\ d1.path.num <= DigitsEnd => d1.id \notin e1.saw
      BY DEF TemplatesInv, T!NumbersAreNew
    <3> QED BY <2>1, <3>1
  <2>5. T!BodyMatchesPath'
    BY <2>1 DEF TemplatesInv, T!BodyMatchesPath
  <2>6. \A def : T!ComputeNextInSequence(def, tdocs') = T!ComputeNextInSequence(def, tdocs)
    <3> TAKE def
    <3>1. T!Matched(def, tdocs') = T!Matched(def, tdocs)
      <4> DEFINE Looked(e) == def.limit = None \/ e.path.num <= def.limit
      <4>1. \A S : T!Matched(def, S) = {d.path.num : d \in {e \in S : Looked(e)}}
        BY DEF T!Matched
      <4>2. Looked(n) <=> Looked(m)
        BY <2>1
      <4> HIDE DEF Looked
      <4>3. \A x : x \in T!Matched(def, tdocs') <=> \E d \in tdocs' : Looked(d) /\ x = d.path.num
        BY <4>1
      <4>4. \A x : x \in T!Matched(def, tdocs) <=> \E d \in tdocs : Looked(d) /\ x = d.path.num
        BY <4>1
      <4>5. \A x : (\E d \in tdocs' : Looked(d) /\ x = d.path.num) <=> (\E d \in tdocs : Looked(d) /\ x = d.path.num)
        BY <2>1, <4>2
      <4> QED BY <4>3, <4>4, <4>5
    <3> QED BY <3>1 DEF T!ComputeNextInSequence
  <2>7. ASSUME NEW s PROVE TakesNew(s) => (s.path.num <= DigitsEnd => \A d \in tdocs' : d.path.num = s.path.num => d.id \notin s.saw)
    BY <2>1 DEF TakesNew
  <2>8. trun = [b \in Authors |-> trun[b]] /\ \A b \in Authors : RightRun(trun[b])
    BY DEF TemplatesInv, RunsAreRight
  <2>9. trun' = [b \in Authors |-> trun'[b]]
    BY <1>1, <2>8
  <2>10. ASSUME NEW b \in Authors PROVE RightRun(trun[b])'
    <3>1. CASE b = a
      <4>1. trun'[b] = T!Idle
        BY <1>1, <2>8, <3>1
      <4> QED BY <4>1 DEF RightRun, T!Idle
    <3>2. CASE b # a
      <4>1. trun'[b] = trun[b] /\ RightRun(trun[b])
        BY <1>1, <2>8, <3>2
      <4>2. OnPath(trun[b]) => OnPath(trun[b])'
        BY <1>1, <4>1 DEF OnPath
      <4>3. OnBody(trun[b]) => OnBody(trun[b])'
        BY <1>1, <2>6, <4>1 DEF OnBody
      <4>4. OnWrite(trun[b]) => OnWrite(trun[b])'
        BY <1>1, <4>1 DEF OnWrite
      <4>5. TakesNew(trun[b]) => TakesNew(trun[b])'
        BY <2>7, <4>1 DEF TakesNew
      <4>6. trun[b] = T!Idle \/ OnLint(trun[b]) => RightRun(trun[b])'
        BY <4>1 DEF RightRun, OnLint, T!Idle
      <4> QED BY <4>1, <4>2, <4>3, <4>4, <4>5, <4>6 DEF RightRun
    <3> QED BY <3>1, <3>2
  <2> QED BY <2>3, <2>4, <2>5, <2>9, <2>10 DEF TemplatesInv, RunsAreRight
<1> QED BY <1>2, <1>3

LEMMA TemplatesKept == ASSUME TemplatesInv, T!Next \/ UNCHANGED templateVars PROVE TemplatesInv'
<1>1. CASE UNCHANGED templateVars
  BY <1>1 DEF templateVars, TemplatesInv, DocsAreTheirOwn, RunsAreRight, RightRun, OnPath, OnBody, OnWrite, OnLint, TakesNew,
              T!NumbersAreNew, T!BodyMatchesPath, T!Idle
<1>2. ASSUME NEW a \in Authors, T!GiveUp(a) PROVE TemplatesInv'
  <2>1. RightRun(T!Idle)
    BY DEF RightRun
  <2>2. trun' = [trun EXCEPT ![a] = T!Idle] /\ UNCHANGED <<tdocs, tcount>>
    BY <1>2 DEF T!GiveUp
  <2> QED BY <2>1, <2>2, RunGoesOn
<1> QED BY <1>1, <1>2, StartKeeps, PathKeeps, BodyKeeps, WriteKeeps, LintKeeps DEF T!Next

(* No step of any author takes the place of a document.                     *)
LEMMA PlacesAreKept == ASSUME TemplatesInv, T!Next \/ UNCHANGED templateVars PROVE T!NeverOverwrites
<1>1. CASE UNCHANGED tdocs
  BY <1>1 DEF T!NeverOverwrites
<1>2. ASSUME NEW a \in Authors, NEW written \in BOOLEAN, T!WriteGeneratedFile(a, written) PROVE T!NeverOverwrites
  <2>1. tdocs \subseteq tdocs'
    BY <1>2 DEF T!WriteGeneratedFile, T!Exclusive
  <2> QED BY <2>1 DEF T!NeverOverwrites
<1>3. ASSUME NEW a \in Authors, NEW ok \in BOOLEAN, T!RunLintFix(a, ok) PROVE T!NeverOverwrites
  <2>1. CASE tdocs' = tdocs
    BY <1>1, <2>1
  <2>2. CASE tdocs' # tdocs
    <3>0. PICK m \in tdocs : \E n : tdocs' = (tdocs \ {m}) \cup {n} /\ n.id = m.id
      BY <1>3, <2>2, LintSteps
    <3>1. PICK n : tdocs' = (tdocs \ {m}) \cup {n} /\ n.id = m.id
      BY <3>0
    <3>2. \A d, e \in tdocs : d.path = e.path => d = e
      BY DEF TemplatesInv, DocsAreTheirOwn
    <3> QED BY <3>1, <3>2 DEF T!NeverOverwrites
  <2> QED BY <2>1, <2>2
<1> QED BY <1>1, <1>2, <1>3 DEF T!Next, T!Start, T!GiveUp, T!RenderOutputPath, T!RenderTemplateBody, templateVars

(* A new document never takes the place of another one, has a number that  *)
(* no document had which its run could see, and the same in its name and    *)
(* its text: for any templates, settings and authors at work at once, and   *)
(* wherever a run is interrupted.                                           *)
THEOREM NewDocumentsAreNew == Spec => NumbersAreNew
<1> DEFINE Inv == part = "template" => TemplatesInv
<1>1. Init => Inv
  BY TemplatesStart DEF Init
<1>2. Inv /\ [Next]_vars => Inv'
  BY TemplatesKept DEF Next, vars
<1>3. Inv /\ [Next]_vars => [part = "template" => T!NumbersAreNew' /\ T!BodyMatchesPath' /\ T!NeverOverwrites]_vars
  BY <1>2, PlacesAreKept DEF Next, vars, TemplatesInv
<1> QED BY <1>1, <1>2, <1>3, PTL DEF Spec, NumbersAreNew

-----------------------------------------------------------------------------
(* The fixer.                                                              *)

(* What is missing is neither a document nor a link update.                 *)
NoneIsApart ==
  /\ \A d, u, a, b, f : [doc |-> d, uid |-> u, alias |-> a, body |-> b, fp |-> f] # None
  /\ \A o, n, r, t, s, b : [old |-> o, new |-> n, refs |-> r, todo |-> t, saved |-> s, before |-> b] # None

IsFile(d) == d = [doc |-> d.doc, uid |-> d.uid, alias |-> d.alias, body |-> d.body, fp |-> d.fp]

(* The files fs hold every document of the tree once, under its uid.        *)
HoldAll(fs, start) ==
  /\ fs = [p \in Paths |-> fs[p]]
  /\ \A p \in Paths : fs[p] = None \/ IsFile(fs[p])
  /\ \A p, q \in F!Docs(fs) : fs[p].doc = fs[q].doc => p = q
  /\ \A p \in F!Docs(start) :
       \E q \in F!Docs(fs) : fs[q].doc = start[p].doc /\ (start[p].uid # None => fs[q].uid = start[p].uid)

(* The links of one target are updated: the sources that are still to be    *)
(* written are there, and with the backups written back everything is as it *)
(* was before.                                                              *)
JobIsSafe ==
  job # None =>
    /\ fixing \in {"files", "heal"}
    /\ job = [old |-> job.old, new |-> job.new, refs |-> job.refs, todo |-> job.todo, saved |-> job.saved, before |-> job.before]
    /\ job.todo \subseteq F!Docs(files) /\ DOMAIN job.saved \subseteq Paths /\ DOMAIN job.saved \cap job.todo = {}
    /\ job.before = [p \in Paths |-> IF p \in DOMAIN job.saved THEN job.saved[p] ELSE files[p]]
    /\ HoldAll(job.before, tree.files) /\ F!Docs(job.before) = F!Docs(files)

StagesInOrder ==
  /\ fixing \in {"lint", "uid", "alias", "files", "heal", "done"}
  /\ fixing \in {"uid", "alias"} => \A p \in Paths : issues[p] # {} => files[p] # None
  /\ fixing \in {"heal", "done"} => todo = {}
  /\ jobs # {} => fixing = "heal"
  /\ \A j \in jobs : DOMAIN j.refs \subseteq F!Docs(files)

(* As long as nothing failed, what is not right yet is still to be done:    *)
(* names, ...                                                               *)
NamesToDo ==
  fixing # "lint" => \A p \in F!Docs(files) : F!HasFilenameIssue(p.name) => p \in todo /\ "filename" \in issues[p]

(* ... uids and aliases, ...                                                *)
UIDsToDo ==
  \A p \in F!Docs(files) :
    /\ fixing \in {"uid", "alias"} => F!FrontmatterUIDRule(files[p]) \subseteq issues[p]
    /\ fixing = "alias" => files[p].uid # None
    /\ fixing \in {"files", "heal", "done"} => F!FrontmatterUIDRule(files[p]) = {}

(* ... and fingerprints.                                                    *)
FingerprintsToDo ==
  \A p \in F!Docs(files) :
    files[p].fp # files[p].body => fixing # "done" /\ (fixing = "lint" \/ p \in fpTargets \/ (job # None /\ p \in DOMAIN job.saved))

FixInv ==
  /\ HoldAll(files, tree.files) /\ JobIsSafe /\ StagesInOrder
  /\ ~dryRun /\ errors = {} => NamesToDo /\ UIDsToDo /\ FingerprintsToDo

(* The name the conventions suggest is one that they accept.                *)
LEMMA SuggestedIsFine ==
  ASSUME NEW p \in Paths, NEW to, to = [p EXCEPT !.name = F!SuggestFilename(p.name)]
  PROVE  to \in Paths /\ to.name = F!SuggestFilename(p.name) /\ ~F!HasFilenameIssue(to.name)
<1> DEFINE n == p.name
           m == F!SuggestFilename(n)
<1>1. /\ p = [dir |-> p.dir, name |-> [word |-> p.name.word, case |-> p.name.case, gap |-> p.name.gap,
                                       mark |-> p.name.mark, edge |-> p.name.edge]]
      /\ to \in Paths
  BY FixAssumption
<1>2. n = [word |-> n.word, case |-> n.case, gap |-> n.gap, mark |-> n.mark, edge |-> n.edge]
  BY <1>1
<1>3. to.name = m
  BY <1>1
<1>4. m.case = "lower" /\ m.gap # "space" /\ m.mark = FALSE /\ m.edge = FALSE
  BY <1>2 DEF F!SuggestFilename
<1> QED BY <1>1, <1>3, <1>4 DEF F!HasFilenameIssue

(* The fields of a document are set one at a time.                          *)
LEMMA BodySet ==
  ASSUME NEW d, IsFile(d), NEW b, NEW n, n = [d EXCEPT !.body = b]
  PROVE  IsFile(n) /\ n.body = b /\ n.doc = d.doc /\ n.uid = d.uid /\ n.alias = d.alias /\ n.fp = d.fp
<1>1. n = [x \in DOMAIN n |-> n[x]] /\ DOMAIN n = DOMAIN d
  OBVIOUS
<1>2. DOMAIN n = {"doc", "uid", "alias", "body", "fp"}
  BY <1>1 DEF IsFile
<1>3. n.body = b /\ n.doc = d.doc /\ n.uid = d.uid /\ n.alias = d.alias /\ n.fp = d.fp
  BY DEF IsFile
<1> QED BY <1>1, <1>2, <1>3 DEF IsFile

LEMMA FpSet ==
  ASSUME NEW d, IsFile(d), NEW b, NEW n, n = [d EXCEPT !.fp = b]
  PROVE  IsFile(n) /\ n.fp = b /\ n.doc = d.doc /\ n.uid = d.uid /\ n.alias = d.alias /\ n.body = d.body
<1>1. n = [x \in DOMAIN n |-> n[x]] /\ DOMAIN n = DOMAIN d
  OBVIOUS
<1>2. DOMAIN n = {"doc", "uid", "alias", "body", "fp"}
  BY <1>1 DEF IsFile
<1>3. n.fp = b /\ n.doc = d.doc /\ n.uid = d.uid /\ n.alias = d.alias /\ n.body = d.body
  BY DEF IsFile
<1> QED BY <1>1, <1>2, <1>3 DEF IsFile

LEMMA UidSet ==
  ASSUME NEW d, IsFile(d), NEW b, NEW n, n = [d EXCEPT !.uid = b]
  PROVE  IsFile(n) /\ n.uid = b /\ n.doc = d.doc /\ n.fp = d.fp /\ n.alias = d.alias /\ n.body = d.body
<1>1. n = [x \in DOMAIN n |-> n[x]] /\ DOMAIN n = DOMAIN d
  OBVIOUS
<1>2. DOMAIN n = {"doc", "uid", "alias", "body", "fp"}
  BY <1>1 DEF IsFile
<1>3. n.uid = b /\ n.doc = d.doc /\ n.fp = d.fp /\ n.alias = d.alias /\ n.body = d.body
  BY DEF IsFile
<1> QED BY <1>1, <1>2, <1>3 DEF IsFile

LEMMA AliasSet ==
  ASSUME NEW d, IsFile(d), NEW n, n = [d EXCEPT !.alias = TRUE]
  PROVE  IsFile(n) /\ n.alias = TRUE /\ n.doc = d.doc /\ n.fp = d.fp /\ n.uid = d.uid /\ n.body = d.body
<1>1. n = [x \in DOMAIN n |-> n[x]] /\ DOMAIN n = DOMAIN d
  OBVIOUS
<1>2. DOMAIN n = {"doc", "uid", "alias", "body", "fp"}
  BY <1>1 DEF IsFile
<1>3. n.alias = TRUE /\ n.doc = d.doc /\ n.fp = d.fp /\ n.uid = d.uid /\ n.body = d.body
  BY DEF IsFile
<1> QED BY <1>1, <1>2, <1>3 DEF IsFile

(* Documents that stay where they are, with their uids.                     *)
LEMMA HeldInPlace ==
  ASSUME NoneIsApart, NEW fs, NEW gs, NEW start, HoldAll(fs, start), gs = [p \in Paths |-> gs[p]],
         \A p \in Paths : \/ gs[p] = fs[p]
                          \/ /\ fs[p] # None /\ IsFile(gs[p]) /\ gs[p].doc = fs[p].doc
                             /\ fs[p].uid # None => gs[p].uid = fs[p].uid
  PROVE  HoldAll(gs, start) /\ F!Docs(gs) = F!Docs(fs)
<1>1. \A p \in Paths : (gs[p] = None <=> fs[p] = None) /\ (gs[p] = None \/ IsFile(gs[p])) /\ (fs[p] # None => gs[p].doc = fs[p].doc)
  BY DEF HoldAll, IsFile, NoneIsApart
<1>2. F!Docs(gs) = F!Docs(fs) /\ F!Docs(fs) \subseteq Paths
  BY <1>1 DEF F!Docs
<1>3. \A p \in F!Docs(gs) : gs[p].doc = fs[p].doc /\ (fs[p].uid # None => gs[p].uid = fs[p].uid)
  BY <1>1, <1>2 DEF F!Docs
<1>4. \A p, q \in F!Docs(gs) : gs[p].doc = gs[q].doc => p = q
  BY <1>2, <1>3 DEF HoldAll
<1>5. ASSUME NEW p \in F!Docs(start)
      PROVE  \E q \in F!Docs(gs) : gs[q].doc = start[p].doc /\ (start[p].uid # None => gs[q].uid = start[p].uid)
  <2>1. PICK q \in F!Docs(fs) : fs[q].doc = start[p].doc /\ (start[p].uid # None => fs[q].uid = start[p].uid)
    BY DEF HoldAll
  <2> QED BY <1>2, <1>3, <2>1
<1> QED BY <1>1, <1>2, <1>4, <1>5 DEF HoldAll

LEMMA FixStarts == ASSUME F!Init PROVE FixInv
<1>1. tree \in Trees /\ files = tree.files /\ fixing = "lint" /\ job = None /\ jobs = {}
  BY DEF F!Init
<1>2. /\ files = [p \in Paths |-> files[p]]
      /\ \A p \in F!Docs(files) : IsFile(files[p])
      /\ \A p, q \in F!Docs(files) : files[p].doc = files[q].doc => p = q
  BY <1>1, FixAssumption DEF IsFile
<1>3. HoldAll(files, tree.files)
  BY <1>1, <1>2 DEF HoldAll, F!Docs
<1>4. JobIsSafe /\ StagesInOrder
  BY <1>1 DEF JobIsSafe, StagesInOrder
<1>5. NamesToDo /\ UIDsToDo /\ FingerprintsToDo
  BY <1>1 DEF NamesToDo, UIDsToDo, FingerprintsToDo
<1> QED BY <1>3, <1>4, <1>5 DEF FixInv

(* Linting finds everything there is to do.                                 *)
LEMMA LintKeepsFiles == ASSUME FixInv, F!LintPath PROVE FixInv'
<1>1. /\ fixing = "lint" /\ fixing' = "uid" /\ UNCHANGED <<tree, dryRun, files, renamed, job, jobs, errors, fixFaults>>
      /\ issues' = [p \in Paths |-> IF files[p] = None THEN {} ELSE F!CheckFile(files, p)]
      /\ todo' = {p \in Paths : issues'[p] # {} \/ broken'[p] # <<>>}
      /\ fpTargets' = {p \in Paths : "fingerprint" \in issues'[p]}
  BY DEF F!LintPath
<1>2. job = None /\ jobs = {}
  BY <1>1 DEF FixInv, JobIsSafe, StagesInOrder
<1>3. HoldAll(files', tree'.files) /\ JobIsSafe' /\ StagesInOrder'
  BY <1>1, <1>2 DEF FixInv, JobIsSafe, StagesInOrder
<1>4. ASSUME NEW p \in F!Docs(files)
      PROVE  p \in Paths /\ issues'[p] = F!FilenameRule(p) \cup F!FrontmatterUIDRule(files[p]) \cup F!FrontmatterFingerprintRule(files[p])
  BY <1>1 DEF F!Docs, F!CheckFile
<1>5. NamesToDo'
  <2> SUFFICES ASSUME NEW p \in F!Docs(files), F!HasFilenameIssue(p.name) PROVE p \in todo' /\ "filename" \in issues'[p]
    BY <1>1 DEF NamesToDo, F!Docs
  <2>1. "filename" \in issues'[p] /\ p \in Paths
    BY <1>4 DEF F!FilenameRule
  <2> QED BY <1>1, <2>1
<1>6. UIDsToDo'
  BY <1>1, <1>4 DEF UIDsToDo, F!Docs
<1>7. FingerprintsToDo'
  <2> SUFFICES ASSUME NEW p \in F!Docs(files), files[p].fp # files[p].body PROVE p \in fpTargets'
    BY <1>1 DEF FingerprintsToDo, F!Docs
  <2>1. "fingerprint" \in issues'[p] /\ p \in Paths
    BY <1>4 DEF F!FrontmatterFingerprintRule, F!ComputeFingerprint
  <2> QED BY <1>1, <2>1
<1> QED BY <1>3, <1>5, <1>6, <1>7 DEF FixInv

(* A new uid comes with its alias, one that is there stays.                 *)
LEMMA EnsuredUID ==
  ASSUME NEW d, IsFile(d), NEW n, n = F!EnsureUIDAlias(F!EnsureUID(d))
  PROVE  /\ IsFile(n) /\ n.doc = d.doc /\ n.body = d.body /\ n.fp = d.fp /\ (d.uid # None => n.uid = d.uid)
         /\ n.uid # None /\ F!FrontmatterUIDRule(n) = {}
<1> DEFINE m == F!EnsureUID(d)
<1>1. m = [d EXCEPT !.uid = IF d.uid = None THEN "new" ELSE d.uid]
  BY DEF F!EnsureUID
<1> HIDE DEF m
<1>2. /\ IsFile(m) /\ m.doc = d.doc /\ m.body = d.body /\ m.fp = d.fp
      /\ m.uid = IF d.uid = None THEN "new" ELSE d.uid
  BY <1>1, UidSet
<1>3. n = [m EXCEPT !.alias = TRUE]
  BY DEF F!EnsureUIDAlias, m
<1>4. IsFile(n) /\ n.alias = TRUE /\ n.doc = m.doc /\ n.fp = m.fp /\ n.uid = m.uid /\ n.body = m.body
  BY <1>2, <1>3, AliasSet
<1> QED BY <1>2, <1>4, FixAssumption DEF F!FrontmatterUIDRule

LEMMA EnsuredAlias ==
  ASSUME NEW d, IsFile(d), NEW n, n = F!EnsureUIDAlias(d)
  PROVE  /\ IsFile(n) /\ n.doc = d.doc /\ n.body = d.body /\ n.fp = d.fp /\ n.uid = d.uid
         /\ d.uid # None => F!FrontmatterUIDRule(n) = {}
<1>1. n = [d EXCEPT !.alias = TRUE]
  BY DEF F!EnsureUIDAlias
<1>2. IsFile(n) /\ n.alias = TRUE /\ n.doc = d.doc /\ n.fp = d.fp /\ n.uid = d.uid /\ n.body = d.body
  BY <1>1, AliasSet
<1> QED BY <1>2 DEF F!FrontmatterUIDRule

(* Documents are given their uids where they are.                           *)
LEMMA UIDsKeepFiles == ASSUME NoneIsApart, FixInv, F!ApplyUIDFixes PROVE FixInv'
<1> DEFINE targets == {p \in Paths : "uid" \in issues[p]}
<1>1. /\ fixing = "uid" /\ fixing' = "alias" /\ UNCHANGED <<tree, dryRun, issues, todo, job, jobs>>
      /\ \E bad \in SUBSET targets :
           /\ files' = [p \in Paths |-> IF p \in targets \ bad THEN F!EnsureFrontmatterUID(p) ELSE files[p]]
           /\ errors' = IF bad = {} THEN errors ELSE errors \cup {"uid"}
           /\ fpTargets' = fpTargets \cup (targets \ bad)
  BY DEF F!ApplyUIDFixes, F!FixAll, F!run
<1>2. PICK bad \in SUBSET targets :
           /\ files' = [p \in Paths |-> IF p \in targets \ bad THEN F!EnsureFrontmatterUID(p) ELSE files[p]]
           /\ errors' = IF bad = {} THEN errors ELSE errors \cup {"uid"}
           /\ fpTargets' = fpTargets \cup (targets \ bad)
  BY <1>1
<1>3. job = None /\ jobs = {} /\ HoldAll(files, tree.files) /\ \A p \in Paths : issues[p] # {} => files[p] # None
  BY <1>1 DEF FixInv, JobIsSafe, StagesInOrder
<1>4. ASSUME NEW p \in targets
      PROVE  /\ p \in Paths /\ files[p] # None /\ IsFile(files[p])
             /\ IsFile(F!EnsureFrontmatterUID(p)) /\ F!EnsureFrontmatterUID(p).doc = files[p].doc
             /\ F!EnsureFrontmatterUID(p).body = files[p].body /\ F!EnsureFrontmatterUID(p).fp = files[p].fp
             /\ files[p].uid # None => F!EnsureFrontmatterUID(p).uid = files[p].uid
             /\ ~dryRun => F!EnsureFrontmatterUID(p).uid # None /\ F!FrontmatterUIDRule(F!EnsureFrontmatterUID(p)) = {}
  <2>1. p \in Paths /\ files[p] # None /\ IsFile(files[p])
    BY <1>3 DEF HoldAll
  <2> DEFINE n == F!EnsureUIDAlias(F!EnsureUID(files[p]))
  <2>2. F!EnsureFrontmatterUID(p) = IF dryRun THEN files[p] ELSE n
    BY DEF F!EnsureFrontmatterUID
  <2>3. /\ IsFile(n) /\ n.doc = files[p].doc /\ n.body = files[p].body /\ n.fp = files[p].fp
        /\ files[p].uid # None => n.uid = files[p].uid
        /\ n.uid # None /\ F!FrontmatterUIDRule(n) = {}
    BY <2>1, EnsuredUID
  <2> HIDE DEF n
  <2> QED BY <2>1, <2>2, <2>3
<1>5. HoldAll(files', tree.files) /\ F!Docs(files') = F!Docs(files)
  <2>1. files' = [p \in Paths |-> files'[p]]
    BY <1>2
  <2>2. \A p \in Paths : \/ files'[p] = files[p]
                         \/ /\ files[p] # None /\ IsFile(files'[p]) /\ files'[p].doc = files[p].doc
                            /\ files[p].uid # None => files'[p].uid = files[p].uid
    BY <1>2, <1>4
  <2> HIDE DEF targets
  <2> QED BY <1>3, <2>1, <2>2, HeldInPlace
<1>6. JobIsSafe' /\ StagesInOrder'
  <2>1. \A p \in Paths : issues'[p] # {} => files'[p] # None
    BY <1>1, <1>3, <1>5 DEF F!Docs
  <2> QED BY <1>1, <1>3, <2>1 DEF JobIsSafe, StagesInOrder
<1>7. ASSUME ~dryRun, errors' = {} PROVE (NamesToDo /\ UIDsToDo /\ FingerprintsToDo)'
  <2>1. errors = {} /\ bad = {}
    BY <1>2, <1>7
  <2>2. NamesToDo /\ UIDsToDo /\ FingerprintsToDo
    BY <1>7, <2>1 DEF FixInv
  <2>3. NamesToDo'
    BY <1>1, <1>5, <2>2 DEF NamesToDo, F!Docs
  <2>4. ASSUME NEW p \in F!Docs(files)
        PROVE  /\ F!FrontmatterUIDRule(files'[p]) \subseteq issues[p] /\ files'[p].uid # None
               /\ files'[p].body = files[p].body /\ files'[p].fp = files[p].fp
    <3>1. p \in Paths /\ F!FrontmatterUIDRule(files[p]) \subseteq issues[p]
      BY <1>1, <2>2 DEF UIDsToDo, F!Docs
    <3>2. CASE p \in targets
      <4>1. files'[p] = F!EnsureFrontmatterUID(p)
        BY <1>2, <2>1, <3>1, <3>2
      <4> QED BY <1>4, <1>7, <3>2, <4>1
    <3>3. CASE p \notin targets
      <4>1. files'[p] = files[p]
        BY <1>2, <3>1, <3>3
      <4>2. files[p].uid # None
        BY <3>1, <3>3 DEF F!FrontmatterUIDRule
      <4> QED BY <3>1, <4>1, <4>2
    <3> QED BY <3>2, <3>3
  <2>5. UIDsToDo'
    BY <1>1, <1>5, <2>4 DEF UIDsToDo, F!Docs
  <2>6. FingerprintsToDo'
    BY <1>1, <1>2, <1>5, <2>2, <2>4 DEF FingerprintsToDo, F!Docs
  <2> QED BY <2>3, <2>5, <2>6
<1> QED BY <1>1, <1>5, <1>6, <1>7 DEF FixInv

LEMMA AliasesKeepFiles == ASSUME NoneIsApart, FixInv, F!ApplyUIDAliasesFixes PROVE FixInv'
<1> DEFINE targets == {p \in Paths : "alias" \in issues[p]}
<1>1. /\ fixing = "alias" /\ fixing' = "files" /\ UNCHANGED <<tree, dryRun, issues, todo, job, jobs>>
      /\ \E bad \in SUBSET targets :
           /\ files' = [p \in Paths |-> IF p \in targets \ bad THEN F!EnsureFrontmatterUIDAlias(p) ELSE files[p]]
           /\ errors' = IF bad = {} THEN errors ELSE errors \cup {"alias"}
           /\ fpTargets' = fpTargets \cup (targets \ bad)
  BY DEF F!ApplyUIDAliasesFixes, F!FixAll, F!run
<1>2. PICK bad \in SUBSET targets :
           /\ files' = [p \in Paths |-> IF p \in targets \ bad THEN F!EnsureFrontmatterUIDAlias(p) ELSE files[p]]
           /\ errors' = IF bad = {} THEN errors ELSE errors \cup {"alias"}
           /\ fpTargets' = fpTargets \cup (targets \ bad)
  BY <1>1
<1>3. job = None /\ jobs = {} /\ HoldAll(files, tree.files) /\ \A p \in Paths : issues[p] # {} => files[p] # None
  BY <1>1 DEF FixInv, JobIsSafe, StagesInOrder
<1>4. ASSUME NEW p \in targets
      PROVE  /\ p \in Paths /\ files[p] # None /\ IsFile(files[p])
             /\ IsFile(F!EnsureFrontmatterUIDAlias(p)) /\ F!EnsureFrontmatterUIDAlias(p).doc = files[p].doc
             /\ F!EnsureFrontmatterUIDAlias(p).body = files[p].body /\ F!EnsureFrontmatterUIDAlias(p).fp = files[p].fp
             /\ F!EnsureFrontmatterUIDAlias(p).uid = files[p].uid
             /\ ~dryRun /\ files[p].uid # None => F!FrontmatterUIDRule(F!EnsureFrontmatterUIDAlias(p)) = {}
  <2>1. p \in Paths /\ files[p] # None /\ IsFile(files[p])
    BY <1>3 DEF HoldAll
  <2> DEFINE n == F!EnsureUIDAlias(files[p])
  <2>2. F!EnsureFrontmatterUIDAlias(p) = IF dryRun THEN files[p] ELSE n
    BY DEF F!EnsureFrontmatterUIDAlias
  <2>3. /\ IsFile(n) /\ n.doc = files[p].doc /\ n.body = files[p].body /\ n.fp = files[p].fp /\ n.uid = files[p].uid
        /\ files[p].uid # None => F!FrontmatterUIDRule(n) = {}
    BY <2>1, EnsuredAlias
  <2> HIDE DEF n
  <2> QED BY <2>1, <2>2, <2>3
<1>5. HoldAll(files', tree.files) /\ F!Docs(files') = F!Docs(files)
  <2>1. files' = [p \in Paths |-> files'[p]]
    BY <1>2
  <2>2. \A p \in Paths : \/ files'[p] = files[p]
                         \/ /\ files[p] # None /\ IsFile(files'[p]) /\ files'[p].doc = files[p].doc
                            /\ files[p].uid # None => files'[p].uid = files[p].uid
    BY <1>2, <1>4
  <2> HIDE DEF targets
  <2> QED BY <1>3, <2>1, <2>2, HeldInPlace
<1>6. JobIsSafe' /\ StagesInOrder'
  BY <1>1, <1>3 DEF JobIsSafe, StagesInOrder
<1>7. ASSUME ~dryRun, errors' = {} PROVE (NamesToDo /\ UIDsToDo /\ FingerprintsToDo)'
  <2>1. errors = {} /\ bad = {}
    BY <1>2, <1>7
  <2>2. NamesToDo /\ UIDsToDo /\ FingerprintsToDo
    BY <1>7, <2>1 DEF FixInv
  <2>3. NamesToDo'
    BY <1>1, <1>5, <2>2 DEF NamesToDo, F!Docs
  <2>4. ASSUME NEW p \in F!Docs(files)
        PROVE  /\ F!FrontmatterUIDRule(files'[p]) = {}
               /\ files'[p].body = files[p].body /\ files'[p].fp = files[p].fp
    <3>1. p \in Paths /\ F!FrontmatterUIDRule(files[p]) \subseteq issues[p] /\ files[p].uid # None
      BY <1>1, <2>2 DEF UIDsToDo, F!Docs
    <3>2. CASE p \in targets
      <4>1. files'[p] = F!EnsureFrontmatterUIDAlias(p)
        BY <1>2, <2>1, <3>1, <3>2
      <4> QED BY <1>4, <1>7, <3>1, <3>2, <4>1
    <3>3. CASE p \notin targets
      <4>1. files'[p] = files[p]
        BY <1>2, <3>1, <3>3
      <4>2. F!FrontmatterUIDRule(files[p]) = {}
        BY <3>1, <3>3 DEF F!FrontmatterUIDRule
      <4> QED BY <4>1, <4>2
    <3> QED BY <3>2, <3>3
  <2>5. UIDsToDo'
    BY <1>1, <1>5, <2>4 DEF UIDsToDo, F!Docs
  <2>6. FingerprintsToDo'
    BY <1>1, <1>2, <1>5, <2>2, <2>4 DEF FingerprintsToDo, F!Docs
  <2> QED BY <2>3, <2>5, <2>6
<1> QED BY <1>1, <1>5, <1>6, <1>7 DEF FixInv

(* A document under its new name, at a place that was free.                 *)
LEMMA HeldAfterRename ==
  ASSUME NEW p \in Paths, NEW to \in Paths, NEW fs, NEW start, HoldAll(fs, start), fs[to] = None,
         NEW gs, gs = [q \in Paths |-> gs[q]],
         \A q \in Paths : gs[q] = IF q = p THEN None ELSE IF q = to THEN fs[p] ELSE fs[q]
  PROVE  HoldAll(gs, start)
<1>1. fs = [q \in Paths |-> fs[q]] /\ \A q \in Paths : fs[q] = None \/ IsFile(fs[q])
  BY DEF HoldAll
<1>3. gs = [q \in Paths |-> gs[q]] /\ \A q \in Paths : gs[q] = IF q = p THEN None ELSE IF q = to THEN fs[p] ELSE fs[q]
  OBVIOUS
<1>4. \A q \in Paths : gs[q] = None \/ IsFile(gs[q])
  BY <1>1, <1>3
<1>5. ASSUME NEW q \in F!Docs(gs) PROVE \E r \in F!Docs(fs) : gs[q] = fs[r] /\ (IF q = to THEN r = p ELSE r = q /\ r # p)
  BY <1>3 DEF F!Docs
<1>6. ASSUME NEW q \in F!Docs(gs), NEW s \in F!Docs(gs), gs[q].doc = gs[s].doc PROVE q = s
  <2>1. PICK r \in F!Docs(fs) : gs[q] = fs[r] /\ (IF q = to THEN r = p ELSE r = q /\ r # p)
    BY <1>5
  <2>2. PICK u \in F!Docs(fs) : gs[s] = fs[u] /\ (IF s = to THEN u = p ELSE u = s /\ u # p)
    BY <1>5
  <2>3. r = u
    BY <1>6, <2>1, <2>2 DEF HoldAll
  <2> QED BY <2>1, <2>2, <2>3
<1>7. ASSUME NEW q \in F!Docs(start)
      PROVE  \E s \in F!Docs(gs) : gs[s].doc = start[q].doc /\ (start[q].uid # None => gs[s].uid = start[q].uid)
  <2>1. PICK r \in F!Docs(fs) : fs[r].doc = start[q].doc /\ (start[q].uid # None => fs[r].uid = start[q].uid)
    BY DEF HoldAll
  <2>2. r # to /\ r \in Paths /\ fs[r] # None
    BY DEF F!Docs
  <2>3. CASE r = p
    <3>1. to \in F!Docs(gs) /\ gs[to] = fs[r]
      BY <1>3, <2>2, <2>3 DEF F!Docs
    <3> QED BY <2>1, <3>1
  <2>4. CASE r # p
    <3>1. r \in F!Docs(gs) /\ gs[r] = fs[r]
      BY <1>3, <2>2, <2>4 DEF F!Docs
    <3> QED BY <2>1, <3>1
  <2> QED BY <2>3, <2>4
<1> QED BY <1>3, <1>4, <1>6, <1>7 DEF HoldAll

(* The sources of links that are collected are there.                       *)
LEMMA CollectedAreThere ==
  /\ \A fs, old : DOMAIN F!FindLinksToFile(fs, old) \subseteq F!Docs(fs)
  /\ \A m : DOMAIN F!RefsByMapping(m) \subseteq F!Docs(files)
<1>1. \A fs, old : DOMAIN F!FindLinksToFile(fs, old) \subseteq F!Docs(fs)
  BY DEF F!FindLinksToFile
<1>2. \A m : DOMAIN F!RefsByMapping(m) \subseteq F!Docs(files)
  BY DEF F!RefsByMapping
<1> QED BY <1>1, <1>2

(* A link update that begins.                                               *)
LEMMA NewJobIsSafe ==
  ASSUME NEW old, NEW new, NEW refs, job' = F!NewJob(old, new, refs), HoldAll(files', tree.files), tree' = tree,
         DOMAIN refs \subseteq F!Docs(files'), fixing' \in {"files", "heal"}
  PROVE  JobIsSafe'
<1>1. job' = [old |-> old, new |-> new, refs |-> refs, todo |-> DOMAIN refs, saved |-> [p \in {} |-> None], before |-> files']
  BY DEF F!NewJob
<1>2. /\ job'.todo = DOMAIN refs /\ DOMAIN job'.saved = {} /\ job'.before = files'
      /\ job' = [old |-> job'.old, new |-> job'.new, refs |-> job'.refs, todo |-> job'.todo, saved |-> job'.saved, before |-> job'.before]
  BY <1>1
<1>3. files' = [p \in Paths |-> files'[p]]
  BY DEF HoldAll
<1>4. job'.before = [p \in Paths |-> IF p \in DOMAIN job'.saved THEN job'.saved[p] ELSE files'[p]]
  BY <1>2, <1>3
<1>5. HoldAll(job.before, tree.files)' <=> HoldAll(job'.before, tree.files)
  BY DEF HoldAll, F!Docs, IsFile
<1>6. F!Docs(files)' = F!Docs(files') /\ F!Docs(job.before)' = F!Docs(files')
  BY <1>2 DEF F!Docs
<1> QED BY <1>2, <1>4, <1>5, <1>6 DEF JobIsSafe

LEMMA ProcessKeepsFiles == ASSUME NEW p \in Paths, FixInv, F!ProcessFile(p) PROVE FixInv'
<1> DEFINE to == [p EXCEPT !.name = F!SuggestFilename(p.name)]
<1>1. to \in Paths /\ ~F!HasFilenameIssue(to.name)
  BY SuggestedIsFine
<1>2. /\ fixing = "files" /\ job = None /\ p \in todo /\ todo' = todo \ {p}
      /\ UNCHANGED <<tree, dryRun, issues, fixing, jobs>>
  BY DEF F!ProcessFile, F!run
<1>3. jobs = {} /\ HoldAll(files, tree.files)
  BY <1>2 DEF FixInv, StagesInOrder
<1>4. StagesInOrder'
  BY <1>2, <1>3 DEF StagesInOrder
<1>5. CASE "filename" \notin issues[p] /\ UNCHANGED <<files, fpTargets, job, errors>>
  <2>1. HoldAll(files, tree.files)' /\ JobIsSafe'
    BY <1>2, <1>3, <1>5 DEF HoldAll, JobIsSafe, F!Docs, IsFile
  <2>2. ASSUME ~dryRun, errors' = {} PROVE (NamesToDo /\ UIDsToDo /\ FingerprintsToDo)'
    <3>1. NamesToDo /\ UIDsToDo /\ FingerprintsToDo
      BY <1>5, <2>2 DEF FixInv
    <3> QED BY <1>2, <1>5, <3>1 DEF NamesToDo, UIDsToDo, FingerprintsToDo, F!Docs
  <2> QED BY <1>2, <1>4, <2>1, <2>2 DEF FixInv
<1>6. CASE errors' = errors \cup {"rename"} /\ UNCHANGED <<files, fpTargets, job>>
  <2>1. HoldAll(files, tree.files)' /\ JobIsSafe'
    BY <1>2, <1>3, <1>6 DEF HoldAll, JobIsSafe, F!Docs, IsFile
  <2> QED BY <1>4, <1>6, <2>1 DEF FixInv
<1>7. CASE dryRun /\ UNCHANGED <<files, fpTargets, job, errors>>
  <2>1. HoldAll(files, tree.files)' /\ JobIsSafe'
    BY <1>2, <1>3, <1>7 DEF HoldAll, JobIsSafe, F!Docs, IsFile
  <2> QED BY <1>2, <1>4, <1>7, <2>1 DEF FixInv
<1>8. CASE /\ ~F!TargetExists(to) /\ errors' = errors
           /\ files' = [files EXCEPT ![to] = files[p], ![p] = None]
           /\ fpTargets' = IF p \in fpTargets THEN (fpTargets \ {p}) \cup {to} ELSE fpTargets
           /\ LET old == [path |-> p, ext |-> TRUE]
                  refs == F!FindLinksToFile(files', old)
              IN job' = IF DOMAIN refs = {} THEN None ELSE F!NewJob(old, to, refs)
  <2>1. files[to] = None
    BY <1>8 DEF F!TargetExists
  <2> HIDE DEF to
  <2>2. /\ HoldAll(files', tree.files) /\ files'[p] = None
        /\ p # to => files'[to] = files[p]
        /\ \A q \in Paths \ {p, to} : files'[q] = files[q]
    <3>1. files' = [files EXCEPT ![to] = files[p], ![p] = None] /\ files = [q \in Paths |-> files[q]] /\ to \in Paths
      BY <1>1, <1>3, <1>8 DEF HoldAll
    <3>2. /\ files' = [q \in Paths |-> files'[q]]
          /\ \A q \in Paths : files'[q] = IF q = p THEN None ELSE IF q = to THEN files[p] ELSE files[q]
      BY <3>1
    <3>3. HoldAll(files', tree.files)
      BY <1>3, <2>1, <3>1, <3>2, HeldAfterRename
    <3> QED BY <3>1, <3>2, <3>3
  <2>3. HoldAll(files, tree.files)'
    BY <1>2, <2>2 DEF HoldAll, F!Docs, IsFile
  <2>4. JobIsSafe'
    <3> DEFINE old == [path |-> p, ext |-> TRUE]
               refs == F!FindLinksToFile(files', old)
    <3>1. DOMAIN refs \subseteq F!Docs(files')
      BY CollectedAreThere
    <3>2. job' = None \/ job' = F!NewJob(old, to, refs)
      BY <1>8
    <3> HIDE DEF refs, old
    <3>3. CASE job' = None
      BY <3>3 DEF JobIsSafe
    <3>4. CASE job' = F!NewJob(old, to, refs)
      BY <1>2, <2>2, <3>1, <3>4, NewJobIsSafe
    <3> QED BY <3>2, <3>3, <3>4
  <2>5. ASSUME ~dryRun, errors' = {} PROVE (NamesToDo /\ UIDsToDo /\ FingerprintsToDo)'
    <3>1. NamesToDo /\ UIDsToDo /\ FingerprintsToDo
      BY <1>8, <2>5 DEF FixInv
    <3>2. ASSUME NEW q \in F!Docs(files')
          PROVE  /\ q \in Paths /\ q # p
                 /\ \/ q = to /\ p \in F!Docs(files) /\ files'[q] = files[p]
                    \/ q # to /\ q \in F!Docs(files) /\ files'[q] = files[q]
      BY <2>2 DEF F!Docs
    <3>3. NamesToDo'
      BY <1>1, <1>2, <3>1, <3>2 DEF NamesToDo, F!Docs
    <3>4. UIDsToDo'
      BY <1>2, <3>1, <3>2 DEF UIDsToDo, F!Docs
    <3>5. FingerprintsToDo'
      BY <1>2, <1>8, <3>1, <3>2 DEF FingerprintsToDo, F!Docs
    <3> QED BY <3>3, <3>4, <3>5
  <2> QED BY <1>2, <1>4, <2>3, <2>4, <2>5 DEF FixInv
<1>9. \/ "filename" \notin issues[p] /\ UNCHANGED <<files, fpTargets, job, errors>>
      \/ errors' = errors \cup {"rename"} /\ UNCHANGED <<files, fpTargets, job>>
      \/ dryRun /\ UNCHANGED <<files, fpTargets, job, errors>>
      \/ /\ ~F!TargetExists(to) /\ errors' = errors
         /\ files' = [files EXCEPT ![to] = files[p], ![p] = None]
         /\ fpTargets' = IF p \in fpTargets THEN (fpTargets \ {p}) \cup {to} ELSE fpTargets
         /\ LET old == [path |-> p, ext |-> TRUE]
                refs == F!FindLinksToFile(files', old)
            IN job' = IF DOMAIN refs = {} THEN None ELSE F!NewJob(old, to, refs)
  BY DEF F!ProcessFile
<1> HIDE DEF to
<1> QED BY <1>5, <1>6, <1>7, <1>8, <1>9

(* A source is written and its backup kept.                                 *)
LEMMA UpdateKeepsFiles == ASSUME NoneIsApart, FixInv, NEW s \in Paths, F!UpdateSource(s) PROVE FixInv'
<1> DEFINE body == F!ApplyLinkUpdates(files[s].body, s, job.refs[s], job.new)
           n == [files[s] EXCEPT !.body = body]
<1>1. /\ job # None /\ s \in job.todo /\ files' = [files EXCEPT ![s] = n]
      /\ job' = [job EXCEPT !.todo = job.todo \ {s}, !.saved = IF body = files[s].body THEN job.saved ELSE F!BackedUp(s)]
      /\ UNCHANGED <<tree, dryRun, issues, fixing, todo, fpTargets, jobs, errors>>
  BY DEF F!UpdateSource, F!run
<1>2. /\ fixing \in {"files", "heal"}
      /\ job = [old |-> job.old, new |-> job.new, refs |-> job.refs, todo |-> job.todo, saved |-> job.saved, before |-> job.before]
      /\ job.todo \subseteq F!Docs(files) /\ DOMAIN job.saved \subseteq Paths /\ DOMAIN job.saved \cap job.todo = {}
      /\ job.before = [p \in Paths |-> IF p \in DOMAIN job.saved THEN job.saved[p] ELSE files[p]]
      /\ HoldAll(job.before, tree.files) /\ HoldAll(files, tree.files) /\ F!Docs(job.before) = F!Docs(files)
  BY <1>1 DEF FixInv, JobIsSafe
<1>3. files[s] # None /\ IsFile(files[s]) /\ files = [p \in Paths |-> files[p]]
  BY <1>1, <1>2 DEF HoldAll, F!Docs
<1> HIDE DEF body
<1>4. IsFile(n) /\ n.body = body /\ n.doc = files[s].doc /\ n.uid = files[s].uid /\ n.alias = files[s].alias /\ n.fp = files[s].fp
  BY <1>3, BodySet
<1> HIDE DEF n
<1>5. files' = [p \in Paths |-> files'[p]] /\ files'[s] = n /\ \A p \in Paths \ {s} : files'[p] = files[p]
  BY <1>1, <1>3
<1>6. HoldAll(files', tree.files) /\ F!Docs(files') = F!Docs(files)
  <2>1. \A p \in Paths : \/ files'[p] = files[p]
                         \/ /\ files[p] # None /\ IsFile(files'[p]) /\ files'[p].doc = files[p].doc
                            /\ files[p].uid # None => files'[p].uid = files[p].uid
    BY <1>3, <1>4, <1>5
  <2> QED BY <1>2, <1>5, <2>1, HeldInPlace
<1>7. HoldAll(files, tree.files)'
  BY <1>1, <1>6 DEF HoldAll, F!Docs, IsFile
<1>8. /\ job'.todo = job.todo \ {s} /\ job'.saved = (IF body = files[s].body THEN job.saved ELSE F!BackedUp(s))
      /\ job'.before = job.before
      /\ job' = [old |-> job'.old, new |-> job'.new, refs |-> job'.refs, todo |-> job'.todo, saved |-> job'.saved, before |-> job'.before]
  <2>1. job' = [x \in DOMAIN job' |-> job'[x]] /\ DOMAIN job' = DOMAIN job
    BY <1>1
  <2>2. DOMAIN job' = {"old", "new", "refs", "todo", "saved", "before"}
    BY <1>2, <2>1
  <2>3. /\ job'.todo = job.todo \ {s} /\ job'.saved = (IF body = files[s].body THEN job.saved ELSE F!BackedUp(s))
        /\ job'.before = job.before
    BY <1>1, <1>2
  <2> QED BY <2>1, <2>2, <2>3
<1>14. job' # None
  BY <1>8 DEF NoneIsApart
<1>9. DOMAIN job.saved \subseteq DOMAIN job'.saved
  BY <1>8 DEF F!BackedUp
<1>10. /\ DOMAIN job'.saved \subseteq Paths /\ DOMAIN job'.saved \cap job'.todo = {}
       /\ job.before = [p \in Paths |-> IF p \in DOMAIN job'.saved THEN job'.saved[p] ELSE files'[p]]
       /\ files'[s].body # files[s].body => s \in DOMAIN job'.saved
  <2>1. CASE body = files[s].body
    <3>1. n = files[s]
      BY <1>3, <1>4, <2>1 DEF IsFile
    <3>2. files' = files /\ job'.saved = job.saved
      BY <1>1, <1>3, <1>8, <2>1, <3>1
    <3> QED BY <1>2, <1>8, <3>2
  <2>2. CASE body # files[s].body
    <3>1. /\ DOMAIN job'.saved = DOMAIN job.saved \cup {s} /\ job'.saved[s] = files[s]
          /\ \A p \in DOMAIN job.saved \ {s} : job'.saved[p] = job.saved[p]
      BY <1>8, <2>2 DEF F!BackedUp
    <3>2. s \notin DOMAIN job.saved
      BY <1>1, <1>2
    <3>3. \A p \in Paths : (IF p \in DOMAIN job'.saved THEN job'.saved[p] ELSE files'[p]) = job.before[p]
      BY <1>2, <1>5, <3>1, <3>2
    <3> QED BY <1>2, <1>8, <3>1, <3>3
  <2> QED BY <2>1, <2>2
<1>11. JobIsSafe'
  <2>1. job'.todo \subseteq F!Docs(files')
    BY <1>2, <1>6, <1>8
  <2>2. HoldAll(job.before, tree.files)'
    BY <1>1, <1>2, <1>8, SMTT(40) DEF HoldAll, F!Docs, IsFile
  <2>3. F!Docs(job.before)' = F!Docs(files') /\ F!Docs(files)' = F!Docs(files')
    <3>1. F!Docs(job.before)' = F!Docs(job'.before) /\ F!Docs(files)' = F!Docs(files')
      BY DEF F!Docs
    <3> QED BY <1>2, <1>6, <1>8, <3>1
  <2> QED BY <1>1, <1>2, <1>8, <1>10, <2>1, <2>2, <2>3 DEF JobIsSafe
<1>12. StagesInOrder'
  BY <1>1, <1>2, <1>6 DEF FixInv, StagesInOrder, F!Docs
<1>13. ASSUME ~dryRun, errors' = {} PROVE (NamesToDo /\ UIDsToDo /\ FingerprintsToDo)'
  <2>1. NamesToDo /\ UIDsToDo /\ FingerprintsToDo
    BY <1>1, <1>13 DEF FixInv
  <2>2. NamesToDo'
    BY <1>1, <1>6, <2>1 DEF NamesToDo, F!Docs
  <2>3. ASSUME NEW p \in F!Docs(files) PROVE p \in Paths /\ files'[p].uid = files[p].uid /\ files'[p].alias = files[p].alias /\ files'[p].fp = files[p].fp
    BY <1>4, <1>5 DEF F!Docs
  <2>4. UIDsToDo'
    BY <1>1, <1>2, <1>6, <2>1, <2>3 DEF UIDsToDo, F!Docs, F!FrontmatterUIDRule
  <2>5. FingerprintsToDo'
    <3> SUFFICES ASSUME NEW p \in F!Docs(files), files'[p].fp # files'[p].body PROVE p \in fpTargets \/ (job' # None /\ p \in DOMAIN job'.saved)
      BY <1>1, <1>2, <1>6 DEF FingerprintsToDo, F!Docs
    <3>1. CASE p = s /\ files'[s].body # files[s].body
      BY <1>10, <1>14, <3>1
    <3>2. CASE files'[p].body = files[p].body
      <4>1. files[p].fp # files[p].body
        BY <2>3, <3>2
      <4>2. p \in fpTargets \/ p \in DOMAIN job.saved
        BY <1>2, <2>1, <4>1 DEF FingerprintsToDo
      <4> QED BY <1>9, <1>14, <4>2
    <3> QED BY <1>5, <2>3, <3>1, <3>2
  <2> QED BY <2>2, <2>4, <2>5
<1> QED BY <1>1, <1>7, <1>11, <1>12, <1>13 DEF FixInv

(* The backups are written back: everything is as it was before.            *)
LEMMA RolledBack ==
  ASSUME FixInv, NEW s \in Paths, F!UpdateSourceFails(s)
  PROVE  files' = job.before
<1>1. job # None /\ s \in job.todo /\ files' = F!RollbackLinkUpdates(s, F!BackedUp(s))
  BY DEF F!UpdateSourceFails
<1>2. /\ DOMAIN job.saved \cap job.todo = {}
      /\ job.before = [p \in Paths |-> IF p \in DOMAIN job.saved THEN job.saved[p] ELSE files[p]]
  BY <1>1 DEF FixInv, JobIsSafe
<1> DEFINE saved == F!BackedUp(s)
<1>3. /\ DOMAIN saved = DOMAIN job.saved \cup {s} /\ saved[s] = files[s]
      /\ \A p \in DOMAIN job.saved \ {s} : saved[p] = job.saved[p]
  BY DEF F!BackedUp
<1> HIDE DEF saved
<1>4. files' = [p \in Paths |-> IF p \in DOMAIN saved THEN saved[p] ELSE IF p = s THEN [files[p] EXCEPT !.body = <<>>] ELSE files[p]]
  BY <1>1 DEF F!RollbackLinkUpdates, saved
<1>5. s \notin DOMAIN job.saved
  BY <1>1, <1>2
<1>6. ASSUME NEW p \in Paths PROVE files'[p] = job.before[p]
  <2>1. CASE p = s
    BY <1>2, <1>3, <1>4, <1>5, <2>1
  <2>2. CASE p # s
    BY <1>2, <1>3, <1>4, <2>2
  <2> QED BY <2>1, <2>2
<1> QED BY <1>2, <1>4, <1>6

(* A link update that fails leaves what there was before it.                *)
LEMMA FailKeepsFiles ==
  ASSUME FixInv, NEW s \in Paths, F!UpdateSourceFails(s)
  PROVE  FixInv' /\ F!FailedUpdateRestores
<1>1. /\ job # None /\ job' = None /\ errors' = errors \cup {"links"}
      /\ UNCHANGED <<tree, dryRun, issues, fixing, todo, fpTargets, jobs>>
  BY DEF F!UpdateSourceFails, F!run
<1>2. files' = job.before
  BY RolledBack
<1>3. fixing \in {"files", "heal"} /\ HoldAll(job.before, tree.files) /\ F!Docs(job.before) = F!Docs(files)
  BY <1>1 DEF FixInv, JobIsSafe
<1>4. HoldAll(files, tree.files)'
  BY <1>1, <1>2, <1>3 DEF HoldAll, F!Docs, IsFile
<1>5. JobIsSafe'
  BY <1>1 DEF JobIsSafe
<1>6. F!Docs(files') = F!Docs(files)
  BY <1>2, <1>3
<1>7. StagesInOrder'
  BY <1>1, <1>3, <1>6 DEF FixInv, StagesInOrder, F!Docs
<1> QED BY <1>1, <1>2, <1>4, <1>5, <1>7 DEF FixInv, F!FailedUpdateRestores

(* What was written needs a new fingerprint.                                *)
LEMMA UpdatedKeepsFiles == ASSUME FixInv, F!LinksUpdated PROVE FixInv'
<1>1. /\ job # None /\ job' = None /\ fpTargets' = fpTargets \cup DOMAIN job.saved
      /\ UNCHANGED <<tree, dryRun, issues, files, fixing, todo, jobs, errors>>
  BY DEF F!LinksUpdated, F!run
<1>2. HoldAll(files, tree.files)' /\ JobIsSafe'
  BY <1>1 DEF FixInv, HoldAll, F!Docs, IsFile, JobIsSafe
<1>3. StagesInOrder'
  BY <1>1 DEF FixInv, StagesInOrder, F!Docs
<1>4. ASSUME ~dryRun, errors' = {} PROVE (NamesToDo /\ UIDsToDo /\ FingerprintsToDo)'
  <2>1. NamesToDo /\ UIDsToDo /\ FingerprintsToDo
    BY <1>1, <1>4 DEF FixInv
  <2> QED BY <1>1, <2>1 DEF NamesToDo, UIDsToDo, FingerprintsToDo, F!Docs
<1> QED BY <1>1, <1>2, <1>3, <1>4 DEF FixInv

LEMMA HealKeepsFiles == ASSUME FixInv, F!HealBrokenLinks PROVE FixInv'
<1>1. /\ fixing = "files" /\ todo = {} /\ job = None /\ fixing' = "heal"
      /\ UNCHANGED <<tree, dryRun, issues, files, todo, fpTargets, job, errors>>
  BY DEF F!HealBrokenLinks, F!run
<1>2. \A j \in jobs' : DOMAIN j.refs \subseteq F!Docs(files)
  <2>1. \E mappings : LET found == {[old |-> m.old, new |-> m.new, refs |-> F!RefsByMapping(m)] : m \in mappings}
                      IN jobs' = IF dryRun THEN {} ELSE {j \in found : DOMAIN j.refs # {}}
    BY DEF F!HealBrokenLinks
  <2>2. PICK mappings : LET found == {[old |-> m.old, new |-> m.new, refs |-> F!RefsByMapping(m)] : m \in mappings}
                        IN jobs' = IF dryRun THEN {} ELSE {j \in found : DOMAIN j.refs # {}}
    BY <2>1
  <2>3. \A j \in jobs' : \E m \in mappings : j.refs = F!RefsByMapping(m)
    BY <2>2
  <2> QED BY <2>3, CollectedAreThere
<1>3. HoldAll(files, tree.files)' /\ JobIsSafe'
  BY <1>1 DEF FixInv, HoldAll, F!Docs, IsFile, JobIsSafe
<1>4. StagesInOrder'
  BY <1>1, <1>2 DEF FixInv, StagesInOrder, F!Docs
<1>5. ASSUME ~dryRun, errors' = {} PROVE (NamesToDo /\ UIDsToDo /\ FingerprintsToDo)'
  <2>1. NamesToDo /\ UIDsToDo /\ FingerprintsToDo
    BY <1>1, <1>5 DEF FixInv
  <2> QED BY <1>1, <2>1 DEF NamesToDo, UIDsToDo, FingerprintsToDo, F!Docs
<1> QED BY <1>1, <1>3, <1>4, <1>5 DEF FixInv

LEMMA HealedKeepsFiles == ASSUME FixInv, NEW j \in jobs, F!ApplyHealedLinkUpdates(j) PROVE FixInv'
<1>1. /\ fixing = "heal" /\ job = None /\ jobs' = jobs \ {j} /\ job' = F!NewJob(j.old, j.new, j.refs)
      /\ UNCHANGED <<tree, dryRun, issues, files, fixing, todo, fpTargets, errors>>
  BY DEF F!ApplyHealedLinkUpdates, F!run
<1>2. HoldAll(files', tree.files) /\ HoldAll(files, tree.files)' /\ DOMAIN j.refs \subseteq F!Docs(files')
  BY <1>1 DEF FixInv, HoldAll, F!Docs, IsFile, StagesInOrder
<1>3. JobIsSafe'
  BY <1>1, <1>2, NewJobIsSafe
<1>4. StagesInOrder'
  BY <1>1 DEF FixInv, StagesInOrder, F!Docs
<1>5. ASSUME ~dryRun, errors' = {} PROVE (NamesToDo /\ UIDsToDo /\ FingerprintsToDo)'
  <2>1. NamesToDo /\ UIDsToDo /\ FingerprintsToDo
    BY <1>1, <1>5 DEF FixInv
  <2> QED BY <1>1, <2>1 DEF NamesToDo, UIDsToDo, FingerprintsToDo, F!Docs
<1> QED BY <1>1, <1>2, <1>3, <1>4, <1>5 DEF FixInv

LEMMA FingerprintsKeepFiles == ASSUME NoneIsApart, FixInv, F!ApplyFingerprintFixes PROVE FixInv'
<1>1. /\ fixing = "heal" /\ jobs = {} /\ job = None /\ fixing' = "done"
      /\ UNCHANGED <<tree, dryRun, issues, todo, fpTargets, job, jobs>>
      /\ \E bad \in SUBSET fpTargets :
           /\ {p \in fpTargets : files[p] = None} \subseteq bad
           /\ files' = [p \in Paths |-> IF p \in fpTargets \ bad THEN F!UpdateFrontmatterFingerprint(p) ELSE files[p]]
           /\ errors' = IF bad = {} THEN errors ELSE errors \cup {"fingerprint"}
  BY DEF F!ApplyFingerprintFixes, F!run
<1>2. PICK bad \in SUBSET fpTargets :
           /\ {p \in fpTargets : files[p] = None} \subseteq bad
           /\ files' = [p \in Paths |-> IF p \in fpTargets \ bad THEN F!UpdateFrontmatterFingerprint(p) ELSE files[p]]
           /\ errors' = IF bad = {} THEN errors ELSE errors \cup {"fingerprint"}
  BY <1>1
<1>3. HoldAll(files, tree.files) /\ todo = {}
  BY <1>1 DEF FixInv, StagesInOrder
<1>4. ASSUME NEW p \in Paths, p \in fpTargets \ bad
      PROVE  LET n == F!UpdateFrontmatterFingerprint(p) IN
             /\ files[p] # None /\ IsFile(n) /\ n.doc = files[p].doc /\ n.uid = files[p].uid /\ n.alias = files[p].alias
             /\ ~dryRun => n.fp = n.body
  <2>1. files[p] # None /\ IsFile(files[p])
    BY <1>2, <1>3, <1>4 DEF HoldAll
  <2> DEFINE n == [files[p] EXCEPT !.fp = files[p].body]
  <2>2. F!UpdateFrontmatterFingerprint(p) = IF dryRun THEN files[p] ELSE n
    BY DEF F!UpdateFrontmatterFingerprint, F!UpsertFingerprint, F!ComputeFingerprint
  <2>3. IsFile(n) /\ n.fp = files[p].body /\ n.doc = files[p].doc /\ n.uid = files[p].uid /\ n.alias = files[p].alias /\ n.body = files[p].body
    BY <2>1, FpSet
  <2> HIDE DEF n
  <2> QED BY <2>1, <2>2, <2>3
<1>5. HoldAll(files', tree.files) /\ F!Docs(files') = F!Docs(files)
  <2>1. files' = [p \in Paths |-> files'[p]]
    BY <1>2
  <2>2. \A p \in Paths : \/ files'[p] = files[p]
                         \/ /\ files[p] # None /\ IsFile(files'[p]) /\ files'[p].doc = files[p].doc
                            /\ files[p].uid # None => files'[p].uid = files[p].uid
    BY <1>2, <1>4
  <2> QED BY <1>3, <2>1, <2>2, HeldInPlace
<1>6. HoldAll(files, tree.files)' /\ JobIsSafe' /\ StagesInOrder'
  BY <1>1, <1>3, <1>5 DEF HoldAll, F!Docs, IsFile, JobIsSafe, StagesInOrder
<1>7. ASSUME ~dryRun, errors' = {} PROVE (NamesToDo /\ UIDsToDo /\ FingerprintsToDo)'
  <2>1. errors = {} /\ bad = {}
    BY <1>2, <1>7
  <2>2. NamesToDo /\ UIDsToDo /\ FingerprintsToDo
    BY <1>7, <2>1 DEF FixInv
  <2>3. NamesToDo'
    BY <1>1, <1>5, <2>2 DEF NamesToDo, F!Docs
  <2>4. ASSUME NEW p \in F!Docs(files)
        PROVE  files'[p].uid = files[p].uid /\ files'[p].alias = files[p].alias /\ files'[p].fp = files'[p].body
    <3>1. p \in Paths
      BY DEF F!Docs
    <3>2. CASE p \in fpTargets
      <4>1. files'[p] = F!UpdateFrontmatterFingerprint(p)
        BY <1>2, <2>1, <3>1, <3>2
      <4> QED BY <1>4, <1>7, <2>1, <3>1, <3>2, <4>1
    <3>3. CASE p \notin fpTargets
      <4>1. files'[p] = files[p]
        BY <1>2, <3>1, <3>3
      <4>2. files[p].fp = files[p].body
        BY <1>1, <2>2, <3>3 DEF FingerprintsToDo
      <4> QED BY <4>1, <4>2
    <3> QED BY <3>2, <3>3
  <2>5. UIDsToDo'
    BY <1>1, <1>5, <2>2, <2>4 DEF UIDsToDo, F!Docs, F!FrontmatterUIDRule
  <2>6. FingerprintsToDo'
    BY <1>1, <1>5, <2>4 DEF FingerprintsToDo, F!Docs
  <2> QED BY <2>3, <2>5, <2>6
<1> QED BY <1>1, <1>6, <1>7 DEF FixInv

LEMMA FixKept == ASSUME NoneIsApart, FixInv, F!Next \/ UNCHANGED fixVars PROVE FixInv'
<1>1. CASE UNCHANGED fixVars
  <2>1. HoldAll(files, tree.files)' /\ StagesInOrder'
    BY <1>1 DEF FixInv, HoldAll, StagesInOrder, F!Docs, IsFile, fixVars
  <2>2. JobIsSafe'
    <3>1. UNCHANGED <<files, job, tree, fixing>>
      BY <1>1 DEF fixVars
    <3>2. F!Docs(files)' = F!Docs(files) /\ F!Docs(job.before)' = F!Docs(job.before)
      BY <3>1 DEF F!Docs
    <3>3. HoldAll(job.before, tree.files)' <=> HoldAll(job.before, tree.files)
      BY <3>1 DEF HoldAll, F!Docs, IsFile
    <3> QED BY <3>1, <3>2, <3>3 DEF FixInv, JobIsSafe
  <2>3. ASSUME (~dryRun /\ errors = {})' PROVE (NamesToDo /\ UIDsToDo /\ FingerprintsToDo)'
    <3>1. NamesToDo /\ UIDsToDo /\ FingerprintsToDo
      BY <1>1, <2>3 DEF FixInv, fixVars
    <3> QED BY <1>1, <3>1 DEF NamesToDo, UIDsToDo, FingerprintsToDo, F!Docs, fixVars
  <2> QED BY <2>1, <2>2, <2>3 DEF FixInv
<1>2. CASE F!LintPath
  BY <1>2, LintKeepsFiles
<1>3. CASE F!ApplyUIDFixes
  BY <1>3, UIDsKeepFiles
<1>4. CASE F!ApplyUIDAliasesFixes
  BY <1>4, AliasesKeepFiles
<1>5. CASE F!LinksUpdated
  BY <1>5, UpdatedKeepsFiles
<1>6. CASE F!HealBrokenLinks
  BY <1>6, HealKeepsFiles
<1>7. CASE F!ApplyFingerprintFixes
  BY <1>7, FingerprintsKeepFiles
<1>8. ASSUME NEW p \in Paths, F!ProcessFile(p) PROVE FixInv'
  BY <1>8, ProcessKeepsFiles
<1>9. ASSUME NEW p \in Paths, F!UpdateSource(p) PROVE FixInv'
  BY <1>9, UpdateKeepsFiles
<1>10. ASSUME NEW p \in Paths, F!UpdateSourceFails(p) PROVE FixInv'
  BY <1>10, FailKeepsFiles
<1>11. ASSUME NEW j \in jobs, F!ApplyHealedLinkUpdates(j) PROVE FixInv'
  BY <1>11, HealedKeepsFiles
<1> QED BY <1>1, <1>2, <1>3, <1>4, <1>5, <1>6, <1>7, <1>8, <1>9, <1>10, <1>11 DEF F!Next

(* Only a link update that fails reports one.                               *)
LEMMA FailuresRestore == ASSUME FixInv, F!Next \/ UNCHANGED fixVars PROVE F!FailedUpdateRestores
<1>1. ASSUME NEW p \in Paths, F!UpdateSourceFails(p) PROVE F!FailedUpdateRestores
  BY <1>1, FailKeepsFiles
<1>2. CASE F!ApplyUIDFixes \/ F!ApplyUIDAliasesFixes
  <2>1. errors' = errors \/ errors' = errors \cup {"uid"} \/ errors' = errors \cup {"alias"}
    BY <1>2 DEF F!ApplyUIDFixes, F!ApplyUIDAliasesFixes, F!FixAll
  <2> QED BY <2>1 DEF F!FailedUpdateRestores
<1>3. CASE F!ApplyFingerprintFixes
  <2>1. errors' = errors \/ errors' = errors \cup {"fingerprint"}
    BY <1>3 DEF F!ApplyFingerprintFixes
  <2> QED BY <2>1 DEF F!FailedUpdateRestores
<1>4. ASSUME NEW p \in Paths, F!ProcessFile(p) PROVE F!FailedUpdateRestores
  <2>1. errors' = errors \/ errors' = errors \cup {"rename"}
    BY <1>4 DEF F!ProcessFile
  <2> QED BY <2>1 DEF F!FailedUpdateRestores
<1>5. ASSUME UNCHANGED errors PROVE F!FailedUpdateRestores
  BY <1>5 DEF F!FailedUpdateRestores
<1>6. ASSUME NEW p \in Paths, F!UpdateSource(p) PROVE UNCHANGED errors
  BY <1>6 DEF F!UpdateSource
<1>7. ASSUME NEW j \in jobs, F!ApplyHealedLinkUpdates(j) PROVE UNCHANGED errors
  BY <1>7 DEF F!ApplyHealedLinkUpdates
<1>8. CASE F!LintPath \/ F!LinksUpdated \/ F!HealBrokenLinks \/ UNCHANGED fixVars
  <2>1. UNCHANGED errors
    BY <1>8 DEF F!LintPath, F!LinksUpdated, F!HealBrokenLinks, fixVars
  <2> QED BY <1>5, <2>1
<1> QED BY <1>1, <1>2, <1>3, <1>4, <1>5, <1>6, <1>7, <1>8 DEF F!Next

(* Every document is held once, and what was to be done is done.            *)
LEMMA FixIsRight == ASSUME FixInv PROVE F!NothingLost /\ F!FixedIsClean
<1>1. F!NothingLost
  <2> SUFFICES ASSUME NEW p \in F!Docs(tree.files)
               PROVE  LET now == {q \in F!Docs(files) : files[q].doc = tree.files[p].doc} IN
                      F!Cardinality(now) = 1 /\ \A q \in now : tree.files[p].uid # None => files[q].uid = tree.files[p].uid
    BY DEF F!NothingLost
  <2> DEFINE now == {q \in F!Docs(files) : files[q].doc = tree.files[p].doc}
  <2>1. PICK q \in F!Docs(files) : files[q].doc = tree.files[p].doc /\ (tree.files[p].uid # None => files[q].uid = tree.files[p].uid)
    BY DEF FixInv, HoldAll
  <2>2. now = {q}
    BY <2>1 DEF FixInv, HoldAll
  <2>3. Cardinality({q}) = 1
    BY FS_Singleton
  <2>4. F!Cardinality({q}) = Cardinality({q})
    BY Zenon DEF F!Cardinality, Cardinality
  <2> QED BY <2>1, <2>2, <2>3, <2>4
<1>2. F!FixedIsClean
  <2> SUFFICES ASSUME F!Finished, NEW p \in F!Docs(files) PROVE F!CheckFile(files, p) = {}
    BY DEF F!FixedIsClean
  <2>1. fixing = "done" /\ NamesToDo /\ UIDsToDo /\ FingerprintsToDo /\ todo = {}
    BY DEF FixInv, F!Finished, StagesInOrder
  <2>2. F!FilenameRule(p) = {}
    BY <2>1 DEF NamesToDo, F!FilenameRule
  <2>3. F!FrontmatterUIDRule(files[p]) = {}
    BY <2>1 DEF UIDsToDo
  <2>4. F!FrontmatterFingerprintRule(files[p]) = {}
    BY <2>1 DEF FingerprintsToDo, F!FrontmatterFingerprintRule, F!ComputeFingerprint
  <2> QED BY <2>2, <2>3, <2>4 DEF F!CheckFile
<1> QED BY <1>1, <1>2

(* The fixer loses and doubles no document and gives none another uid,      *)
(* leaves nothing to fix when it ends without an error, and when a write of *)
(* a link update fails, leaves every file as it was before that update: for *)
(* any tree and names, any number of failing writes, and whatever the order *)
(* in which files and link updates are taken up.                            *)
THEOREM FixesKeepDocuments ==
  ASSUME NoneIsApart
  PROVE  Spec => FixKeepsDocuments
<1> DEFINE Inv == part = "fix" => FixInv
<1>1. Init => Inv
  BY FixStarts DEF Init
<1>2. Inv /\ [Next]_vars => Inv'
  BY FixKept DEF Next, vars
<1>3. Inv /\ [Next]_vars => [part = "fix" => F!NothingLost' /\ F!FixedIsClean' /\ F!FailedUpdateRestores]_vars
  <2> SUFFICES ASSUME Inv, [Next]_vars, part = "fix" PROVE F!NothingLost' /\ F!FixedIsClean' /\ F!FailedUpdateRestores
    OBVIOUS
  <2>1. FixInv' /\ (F!Next \/ UNCHANGED fixVars)
    BY <1>2 DEF Next, vars
  <2>2. FixInv' => F!NothingLost' /\ F!FixedIsClean'
    BY FixIsRight, PTL
  <2> QED BY <2>1, <2>2, FailuresRestore
<1> QED BY <1>1, <1>2, <1>3, PTL DEF Spec, FixKeepsDocuments

-----------------------------------------------------------------------------
(* Pages.                                                                  *)

Parts == {"gen", "src", "path", "name", "isIndex", "repo", "forge", "dir", "links", "images", "fm", "h1", "edit", "badge", "raw"}
IsDocument(d) == d = [x \in Parts |-> d[x]]
IsFrontMatter(fm) == fm = [k \in C!Fields |-> fm[k]]

(* A document with one part changed.                                        *)
LEMMA PartSet ==
  ASSUME NEW d, IsDocument(d), NEW k \in Parts, NEW v, NEW n, n = [d EXCEPT ![k] = v]
  PROVE  IsDocument(n) /\ n[k] = v /\ \A x \in Parts \ {k} : n[x] = d[x]
<1> HIDE DEF Parts
<1> QED BY DEF IsDocument

(* A file that was found.                                                   *)
IsDocFile(f) ==
  /\ f = [repo |-> f.repo, forge |-> f.forge, base |-> f.base, dir |-> f.dir, name |-> f.name, asset |-> f.asset, body |-> f.body]
  /\ Len(f.dir) \in Nat /\ f.body.own \subseteq C!Fields

(* What its author has written in the front matter.                         *)
Wrote(d, k) == ~d.gen /\ d.src.body.valid /\ k \in d.src.body.own

(* An index page that its heading is to title.                              *)
Headed(d) == ~d.gen /\ d.isIndex /\ d.dir \notin {<<>>, <<d.src.base>>} /\ d.src.body.h1 /\ ~Wrote(d, "title")

FromFile(d) ==
  /\ ~d.gen /\ IsDocFile(d.src) /\ d.dir = d.src.dir /\ (d.path.name = C!IndexName => d.isIndex)
  /\ site.publicOnly => C!IsPublicMarkdown(d.src)

(* A document before the transforms.                                        *)
Fresh(d) ==
  /\ IsDocument(d) /\ IsFrontMatter(d.fm) /\ d.raw = None /\ d.edit = None /\ d.badge = FALSE
  /\ \/ d.gen /\ d.src = None /\ \A k \in C!Fields : d.fm[k] # "own"
     \/ /\ FromFile(d) /\ d.name = d.src.name /\ (d.isIndex <=> C!IsIndexFileName(d.name)) /\ (d.h1 <=> d.src.body.h1)
        /\ \A k \in C!Fields : d.fm[k] = "none"

(* A document between them: what its author has written is still there.     *)
Underway(d) ==
  /\ IsDocument(d) /\ IsFrontMatter(d.fm) /\ d.raw = None /\ d.badge = FALSE
  /\ site.publicOnly => d.edit = None
  /\ (d.gen /\ d.src = None) \/ FromFile(d)
  /\ \A k \in C!Fields : Wrote(d, k) => d.fm[k] = "own"
  /\ d.fm["uid"] = "own" => Wrote(d, "uid")

(* Parsing makes the author's fields the document's own, and no others.     *)
LEMMA ParsedIsUnderway ==
  ASSUME NEW d, Fresh(d), NEW e, e = C!ParseFrontMatter(d)
  PROVE  /\ Underway(e) /\ e.name = d.name /\ (e.isIndex <=> d.isIndex) /\ (e.h1 <=> d.h1) /\ e.gen = d.gen /\ e.src = d.src
         /\ Headed(e) => e.fm["title"] = "none"
<1> DEFINE fm == [k \in C!Fields |-> IF k \in d.src.body.own \/ (k = "public" /\ d.src.body.public # "none") THEN "own" ELSE "none"]
<1>0. {"title", "uid"} \subseteq C!Fields
  BY DEF C!Fields
<1>1. CASE d.gen \/ ~d.src.body.valid
  <2>1. e = d
    BY <1>1 DEF C!ParseFrontMatter
  <2> QED BY <1>0, <1>1, <2>1 DEF Fresh, Underway, Wrote, Headed, FromFile
<1>2. CASE ~(d.gen \/ ~d.src.body.valid)
  <2>1. e = [d EXCEPT !["fm"] = fm]
    BY <1>2 DEF C!ParseFrontMatter
  <2>2. IsDocument(e) /\ e.fm = fm /\ \A x \in Parts \ {"fm"} : e[x] = d[x]
    <3>1. "fm" \in Parts
      BY DEF Parts
    <3> HIDE DEF fm
    <3>2. IsDocument(d)
      BY DEF Fresh
    <3> HIDE DEF Parts
    <3> QED BY <2>1, <3>1, <3>2 DEF IsDocument
  <2>3. /\ e.gen = d.gen /\ e.src = d.src /\ e.path = d.path /\ e.name = d.name /\ e.isIndex = d.isIndex /\ e.dir = d.dir
        /\ e.h1 = d.h1 /\ e.edit = d.edit /\ e.badge = d.badge /\ e.raw = d.raw
    BY <2>2 DEF Parts
  <2>4. IsFrontMatter(e.fm) /\ \A k \in C!Fields : e.fm[k] = IF k \in d.src.body.own \/ (k = "public" /\ d.src.body.public # "none") THEN "own" ELSE "none"
    BY <2>2 DEF IsFrontMatter
  <2> HIDE DEF fm
  <2>5. FromFile(e)
    BY <1>2, <2>3 DEF Fresh, FromFile
  <2>6. /\ \A k \in C!Fields : Wrote(e, k) => e.fm[k] = "own"
        /\ e.fm["uid"] = "own" => Wrote(e, "uid")
        /\ Headed(e) => e.fm["title"] = "none"
    BY <1>0, <1>2, <2>3, <2>4 DEF Wrote, Headed
  <2> QED BY <2>2, <2>3, <2>4, <2>5, <2>6 DEF Fresh, Underway
<1> QED BY <1>1, <1>2

(* A transform that leaves alone what is written.                           *)
Carries(d, e) ==
  /\ IsDocument(e) /\ IsFrontMatter(e.fm)
  /\ e.gen = d.gen /\ e.src = d.src /\ e.isIndex = d.isIndex /\ e.dir = d.dir /\ e.raw = d.raw /\ e.badge = d.badge
  /\ e.path = d.path \/ e.isIndex
  /\ site.publicOnly => e.edit = None
  /\ \A k \in C!Fields : e.fm[k] = "own" <=> d.fm[k] = "own"

(* Such a document stays one.                                               *)
LEMMA GoesOn ==
  ASSUME NEW d, Underway(d), NEW e, Carries(d, e)
  PROVE  Underway(e) /\ (Headed(e) <=> Headed(d))
<1>0. "uid" \in C!Fields
  BY DEF C!Fields
<1>1. FromFile(d) => FromFile(e)
  BY DEF FromFile, Carries
<1>2. \A k : Wrote(e, k) <=> Wrote(d, k)
  BY DEF Wrote, Carries
<1>3. Headed(e) <=> Headed(d)
  BY <1>2 DEF Headed, Carries
<1> QED BY <1>0, <1>1, <1>2, <1>3 DEF Underway, Carries

(* A README that becomes _index is an index page already.                   *)
LEMMA NormalizedIsUnderway ==
  ASSUME NEW d, Underway(d), d.gen \/ (d.name = d.src.name /\ (d.isIndex <=> C!IsIndexFileName(d.name))), NEW e, e = C!NormalizeIndexFiles(d)
  PROVE  /\ Underway(e) /\ (Headed(e) <=> Headed(d)) /\ e.fm = d.fm /\ (e.h1 <=> d.h1) 
         /\ Headed(e) => e.name.word \in {"index", "_index"}
<1>1. CASE ~(~d.gen /\ d.name.word = "readme")
  <2>1. e = d
    BY <1>1 DEF C!NormalizeIndexFiles
  <2> QED BY <1>1, <2>1 DEF Headed, C!IsIndexFileName
<1>2. CASE ~d.gen /\ d.name.word = "readme"
  <2> DEFINE n == [d EXCEPT !["name"] = C!IndexName]
             path == [n.path EXCEPT !.name = C!IndexName]
  <2>1. e = [n EXCEPT !["path"] = path]
    BY <1>2 DEF C!NormalizeIndexFiles
  <2>2. "name" \in Parts /\ "path" \in Parts
    BY DEF Parts
  <2>3. IsDocument(n) /\ n.name = C!IndexName /\ \A x \in Parts \ {"name"} : n[x] = d[x]
    BY <2>2, PartSet DEF Underway
  <2>8. IsDocument(n)
    BY <2>3
  <2> HIDE DEF n, path
  <2>4. IsDocument(e) /\ \A x \in Parts \ {"path"} : e[x] = n[x]
    BY <2>1, <2>2, <2>8 DEF IsDocument
  <2>5. /\ e.gen = d.gen /\ e.src = d.src /\ e.name = C!IndexName /\ e.isIndex = d.isIndex /\ e.dir = d.dir
        /\ e.h1 = d.h1 /\ e.edit = d.edit /\ e.badge = d.badge /\ e.raw = d.raw /\ e.fm = d.fm
    BY <2>3, <2>4 DEF Parts
  <2>6. d.isIndex
    BY <1>2 DEF C!IsIndexFileName
  <2>7. Underway(e) /\ (Headed(e) <=> Headed(d))
    <3>1. Carries(d, e)
      BY <2>4, <2>5, <2>6 DEF Underway, Carries
    <3> QED BY <3>1, GoesOn
  <2> QED BY <2>5, <2>7 DEF C!IndexName
<1> QED BY <1>1, <1>2

(* A field that the author has not written is set.                          *)
LEMMA FieldCarried ==
  ASSUME NEW d, Underway(d), NEW k \in C!Fields, d.fm[k] # "own", NEW v, v # "own", NEW e, e = [d EXCEPT !.fm[k] = v]
  PROVE  /\ Underway(e) /\ (Headed(e) <=> Headed(d)) /\ e.name = d.name /\ e.h1 = d.h1 /\ e.isIndex = d.isIndex /\ e.dir = d.dir
         /\ e.gen = d.gen /\ e.src = d.src /\ e.fm[k] = v /\ \A x \in C!Fields \ {k} : e.fm[x] = d.fm[x]
<1>1. IsDocument(d) /\ IsFrontMatter(d.fm)
  BY DEF Underway
<1>2. /\ IsDocument(e) /\ IsFrontMatter(e.fm) /\ e.fm[k] = v /\ \A x \in C!Fields \ {k} : e.fm[x] = d.fm[x]
      /\ \A x \in Parts \ {"fm"} : e[x] = d[x]
  <2>1. e = [d EXCEPT !["fm"] = [d.fm EXCEPT ![k] = v]] /\ "fm" \in Parts
    BY DEF Parts
  <2> HIDE DEF Parts
  <2>2. IsDocument(e) /\ e.fm = [d.fm EXCEPT ![k] = v] /\ \A x \in Parts \ {"fm"} : e[x] = d[x]
    BY <1>1, <2>1 DEF IsDocument
  <2> QED BY <1>1, <2>2 DEF IsFrontMatter
<1>3. /\ e.gen = d.gen /\ e.src = d.src /\ e.path = d.path /\ e.name = d.name /\ e.isIndex = d.isIndex /\ e.dir = d.dir
      /\ e.h1 = d.h1 /\ e.edit = d.edit /\ e.badge = d.badge /\ e.raw = d.raw
  BY <1>2 DEF Parts
<1>4. Carries(d, e)
  BY <1>2, <1>3 DEF Carries, Underway
<1>5. Underway(e) /\ (Headed(e) <=> Headed(d))
  BY <1>4, GoesOn
<1> QED BY <1>2, <1>3, <1>5

(* A field is set only where none is.                                       *)
LEMMA MissingIsSet ==
  ASSUME NEW d, Underway(d), NEW k \in C!Fields, NEW e, e = C!SetIfMissing(d, k)
  PROVE  /\ Underway(e) /\ (Headed(e) <=> Headed(d)) /\ e.name = d.name /\ e.h1 = d.h1
         /\ \A x \in C!Fields \ {k} : e.fm[x] = d.fm[x]
<1>1. CASE d.fm[k] = "none"
  <2>1. e = [d EXCEPT !.fm[k] = "tool"]
    BY <1>1 DEF C!SetIfMissing
  <2> QED BY <1>1, <2>1, FieldCarried
<1>2. CASE d.fm[k] # "none"
  BY <1>2 DEF C!SetIfMissing
<1> QED BY <1>1, <1>2

(* The base fields leave an index page without a title for its heading.     *)
LEMMA BasedIsUnderway ==
  ASSUME NEW d, Underway(d), Headed(d) => d.fm["title"] = "none" /\ d.name.word \in {"index", "_index"},
         NEW e, e = C!BuildBaseFrontMatter(d)
  PROVE  Underway(e) /\ (Headed(e) <=> Headed(d)) /\ e.h1 = d.h1 /\ (Headed(e) => C!NoRealTitle(e))
<1>0. {"title", "type", "date"} \subseteq C!Fields
  BY DEF C!Fields
<1> DEFINE same == d.fm["title"] # "none" \/ (~d.name.up /\ d.name.word \in {"index", "_index"})
           t == IF same THEN d ELSE [d EXCEPT !.fm["title"] = "name"]
           u == C!SetIfMissing(t, "type")
<1>1. e = C!SetIfMissing(u, "date")
  BY DEF C!BuildBaseFrontMatter
<1>2. Underway(t) /\ (Headed(t) <=> Headed(d)) /\ t.name = d.name /\ t.h1 = d.h1
      /\ (Headed(d) => t.fm["title"] = "none" \/ (t.fm["title"] = "name" /\ d.name.up))
  <2>1. CASE same
    BY <2>1
  <2>2. CASE ~same
    <3>1. t = [d EXCEPT !.fm["title"] = "name"] /\ d.fm["title"] = "none"
      BY <2>2
    <3> HIDE DEF t
    <3>2. Underway(t) /\ (Headed(t) <=> Headed(d)) /\ t.name = d.name /\ t.h1 = d.h1 /\ t.fm["title"] = "name"
      BY <1>0, <3>1, FieldCarried
    <3> QED BY <2>2, <3>2
  <2> QED BY <2>1, <2>2
<1> HIDE DEF t
<1>6. "type" \in C!Fields /\ "date" \in C!Fields /\ u = C!SetIfMissing(t, "type")
  BY <1>0
<1> HIDE DEF u
<1>3. Underway(u) /\ (Headed(u) <=> Headed(t)) /\ u.name = t.name /\ u.h1 = t.h1 /\ \A x \in C!Fields \ {"type"} : u.fm[x] = t.fm[x]
  <2>1. Underway(t)
    BY <1>2
  <2>2. "type" \in C!Fields
    BY <1>6
  <2>3. u = C!SetIfMissing(t, "type")
    BY <1>6
  <2> QED BY <2>1, <2>2, <2>3, MissingIsSet
<1>4. Underway(e) /\ (Headed(e) <=> Headed(u)) /\ e.name = u.name /\ e.h1 = u.h1 /\ \A x \in C!Fields \ {"date"} : e.fm[x] = u.fm[x]
  <2>1. Underway(u)
    BY <1>3
  <2>2. "date" \in C!Fields
    BY <1>6
  <2> QED BY <1>1, <2>1, <2>2, MissingIsSet
<1>5. e.fm["title"] = t.fm["title"] /\ e.name = d.name /\ e.h1 = d.h1
  BY <1>0, <1>2, <1>3, <1>4
<1> QED BY <1>2, <1>3, <1>4, <1>5 DEF C!NoRealTitle

(* A heading becomes the title only where there is no real one.             *)
LEMMA HeadingIsUnderway ==
  ASSUME NEW d, Underway(d), NEW e, e = C!ExtractH1AsTitle(d)
  PROVE  /\ Underway(e) /\ (Headed(e) <=> Headed(d)) /\ e.h1 = d.h1
         /\ e.fm["title"] = IF C!NoRealTitle(d) /\ d.h1 THEN "heading" ELSE d.fm["title"]
<1>0. "title" \in C!Fields
  BY DEF C!Fields
<1>1. CASE C!NoRealTitle(d) /\ d.h1
  <2>1. e = [d EXCEPT !.fm["title"] = "heading"] /\ d.fm["title"] # "own"
    BY <1>1 DEF C!ExtractH1AsTitle, C!NoRealTitle
  <2>2. Underway(e) /\ (Headed(e) <=> Headed(d)) /\ e.h1 = d.h1 /\ e.fm["title"] = "heading"
    BY <1>0, <2>1, FieldCarried
  <2> QED BY <1>1, <2>2
<1>2. CASE ~(C!NoRealTitle(d) /\ d.h1)
  BY <1>2 DEF C!ExtractH1AsTitle
<1> QED BY <1>1, <1>2

(* An index page of a section is titled by its heading.                     *)
LEMMA IndexTitleIsUnderway ==
  ASSUME NEW d, Underway(d), Headed(d) => C!NoRealTitle(d) /\ d.h1, NEW e, e = C!ExtractIndexTitle(d)
  PROVE  Underway(e) /\ (Headed(e) <=> Headed(d)) /\ e.h1 = d.h1 /\ (Headed(e) => e.fm["title"] = "heading")
<1>0. "title" \in C!Fields
  BY DEF C!Fields
<1>1. CASE ~d.isIndex \/ ~C!NoRealTitle(d)
  <2>1. e = d
    BY <1>1 DEF C!ExtractIndexTitle
  <2> QED BY <1>1, <2>1 DEF Headed
<1>2. CASE ~(~d.isIndex \/ ~C!NoRealTitle(d)) /\ (d.dir = <<>> \/ (~d.gen /\ d.dir = <<d.src.base>>))
  <2>1. e = [d EXCEPT !.fm["title"] = "repository"] /\ d.fm["title"] # "own"
    BY <1>2 DEF C!ExtractIndexTitle, C!NoRealTitle
  <2>2. Underway(e) /\ (Headed(e) <=> Headed(d)) /\ e.h1 = d.h1
    BY <1>0, <2>1, FieldCarried
  <2>3. ~Headed(d)
    BY <1>2 DEF Headed
  <2> QED BY <2>2, <2>3
<1>3. CASE ~(~d.isIndex \/ ~C!NoRealTitle(d)) /\ ~(d.dir = <<>> \/ (~d.gen /\ d.dir = <<d.src.base>>))
  <2>1. e = C!ExtractH1AsTitle(d)
    BY <1>3 DEF C!ExtractIndexTitle
  <2> QED BY <2>1, HeadingIsUnderway
<1> QED BY <1>1, <1>2, <1>3

(* Transforms of a part that says nothing here.                             *)
LEMMA OtherCarried ==
  ASSUME NEW d, Underway(d), NEW e, IsDocument(e), NEW k \in {"h1", "links", "images"}, \A x \in Parts \ {k} : e[x] = d[x]
  PROVE  Underway(e) /\ (Headed(e) <=> Headed(d)) /\ e.fm = d.fm
<1>1. /\ e.gen = d.gen /\ e.src = d.src /\ e.path = d.path /\ e.name = d.name /\ e.isIndex = d.isIndex /\ e.dir = d.dir
      /\ e.edit = d.edit /\ e.badge = d.badge /\ e.raw = d.raw /\ e.fm = d.fm
  BY DEF Parts
<1>2. Carries(d, e)
  BY <1>1 DEF Carries, Underway
<1> QED BY <1>1, <1>2, GoesOn

(* Links, images and the heading are rewritten; the fields stay.            *)
LEMMA RewrittenIsUnderway ==
  ASSUME NEW d, Underway(d)
  PROVE  LET e == C!StripHeading(d)
             f == C!RewriteRelativeLinks(d)
             g == C!RewriteImageLinks(d)
         IN /\ Underway(e) /\ (Headed(e) <=> Headed(d)) /\ e.fm = d.fm
            /\ Underway(f) /\ (Headed(f) <=> Headed(d)) /\ f.fm = d.fm
            /\ Underway(g) /\ (Headed(g) <=> Headed(d)) /\ g.fm = d.fm
<1> DEFINE e == C!StripHeading(d)
           f == C!RewriteRelativeLinks(d)
           g == C!RewriteImageLinks(d)
<1>0. IsDocument(d) /\ {"h1", "links", "images"} \subseteq Parts
  BY DEF Underway, Parts
<1>1. IsDocument(e) /\ \A x \in Parts \ {"h1"} : e[x] = d[x]
  <2> HIDE DEF Parts
  <2> QED BY <1>0 DEF IsDocument, C!StripHeading
<1>2. IsDocument(f) /\ \A x \in Parts \ {"links"} : f[x] = d[x]
  <2> HIDE DEF Parts
  <2> QED BY <1>0 DEF IsDocument, C!RewriteRelativeLinks
<1>3. IsDocument(g) /\ \A x \in Parts \ {"images"} : g[x] = d[x]
  <2> HIDE DEF Parts
  <2> QED BY <1>0 DEF IsDocument, C!RewriteImageLinks
<1> HIDE DEF e, f, g
<1>4. Underway(e) /\ (Headed(e) <=> Headed(d)) /\ e.fm = d.fm
  BY <1>1, OtherCarried
<1>5. Underway(f) /\ (Headed(f) <=> Headed(d)) /\ f.fm = d.fm
  BY <1>2, OtherCarried
<1>6. Underway(g) /\ (Headed(g) <=> Headed(d)) /\ g.fm = d.fm
  BY <1>3, OtherCarried
<1> QED BY <1>4, <1>5, <1>6 DEF e, f, g

(* Tags of the repository, where the author has none.                       *)
LEMMA MetadataIsUnderway ==
  ASSUME NEW d, Underway(d), NEW e, e = C!AddRepositoryMetadata(d)
  PROVE  Underway(e) /\ (Headed(e) <=> Headed(d)) /\ e.fm["title"] = d.fm["title"]
<1>1. CASE d.gen
  BY <1>1 DEF C!AddRepositoryMetadata
<1>2. CASE ~d.gen
  <2>1. e = C!SetIfMissing(d, "tags")
    BY <1>2 DEF C!AddRepositoryMetadata
  <2>2. "tags" \in C!Fields /\ "title" \in C!Fields \ {"tags"}
    BY DEF C!Fields
  <2>3. Underway(e) /\ (Headed(e) <=> Headed(d)) /\ \A x \in C!Fields \ {"tags"} : e.fm[x] = d.fm[x]
    BY <2>1, <2>2, MissingIsSet, SMTT(40)
  <2> QED BY <2>2, <2>3
<1> QED BY <1>1, <1>2

(* A public site has no edit link.                                          *)
LEMMA EditedIsUnderway ==
  ASSUME NEW d, Underway(d), NEW e, e = C!AddEditLink(d)
  PROVE  Underway(e) /\ (Headed(e) <=> Headed(d)) /\ e.fm["title"] = d.fm["title"]
<1>1. \/ e = d
      \/ ~site.publicOnly /\ d.fm["editURL"] = "none" /\ \E link : e = [d EXCEPT !.fm["editURL"] = "tool", !.edit = link]
  BY DEF C!AddEditLink
<1>2. CASE ~site.publicOnly /\ d.fm["editURL"] = "none" /\ \E link : e = [d EXCEPT !.fm["editURL"] = "tool", !.edit = link]
  <2>1. PICK link : e = [d EXCEPT !.fm["editURL"] = "tool", !.edit = link]
    BY <1>2
  <2> DEFINE n == [d EXCEPT !.fm["editURL"] = "tool"]
  <2>2. e = [n EXCEPT !["edit"] = link]
    BY <2>1
  <2>3. "editURL" \in C!Fields /\ "title" \in C!Fields \ {"editURL"} /\ "edit" \in Parts
    BY DEF C!Fields, Parts
  <2>4. d.fm["editURL"] # "own" /\ n = [d EXCEPT !.fm["editURL"] = "tool"]
    BY <1>2
  <2> HIDE DEF n
  <2>5. Underway(n) /\ (Headed(n) <=> Headed(d)) /\ \A x \in C!Fields \ {"editURL"} : n.fm[x] = d.fm[x]
    BY <2>3, <2>4, FieldCarried
  <2>6. IsDocument(n)
    BY <2>5 DEF Underway
  <2>7. IsDocument(e) /\ \A x \in Parts \ {"edit"} : e[x] = n[x]
    <3> HIDE DEF Parts
    <3> QED BY <2>2, <2>3, <2>6 DEF IsDocument
  <2>8. /\ e.gen = n.gen /\ e.src = n.src /\ e.path = n.path /\ e.isIndex = n.isIndex /\ e.dir = n.dir
        /\ e.badge = n.badge /\ e.raw = n.raw /\ e.fm = n.fm
    BY <2>7 DEF Parts
  <2>9. Carries(n, e)
    BY <1>2, <2>5, <2>7, <2>8 DEF Carries, Underway
  <2>10. Underway(n)
    BY <2>5
  <2>11. Underway(e) /\ (Headed(e) <=> Headed(n))
    BY <2>9, <2>10, GoesOn
  <2> QED BY <2>3, <2>5, <2>8, <2>11
<1> QED BY <1>1, <1>2

(* A page as it is written at a path.                                       *)
RightPage(p, raw) ==
  LET page == raw.page
      f == page.src
  IN /\ raw.fp = page
     /\ page.badge = (f # None /\ f.body.valid /\ "uid" \in f.body.own /\ f.body.alias)
     /\ site.publicOnly => page.edit = None /\ (f # None => f.body.valid /\ f.body.public = "true")
     /\ f # None /\ f.body.valid => \A k \in f.body.own : page.fm[k] = "own"
     /\ /\ f # None /\ p.name = C!IndexName /\ f.dir \notin {<<>>, <<f.base>>} /\ f.body.h1
        /\ ~(f.body.valid /\ "title" \in f.body.own)
        => page.fm["title"] = "heading"

(* What is missing is no file.                                              *)
NoneIsNoFile ==
  \A r, o, b, d, n, a, x : [repo |-> r, forge |-> o, base |-> b, dir |-> d, name |-> n, asset |-> a, body |-> x] # None

(* The page is serialised with its permalink and then fingerprinted.        *)
LEMMA FinishedIsRight ==
  ASSUME NoneIsNoFile, NEW d, Underway(d), Headed(d) => d.fm["title"] = "heading",
         NEW e, e = C!FingerprintContent(C!SerializeDocument(C!InjectPermalink(d)))
  PROVE  RightPage(e.path, e.raw)
<1> DEFINE n == C!InjectPermalink(d)
           raw == [page |-> C!Page(n), fp |-> None]
           m == C!SerializeDocument(n)
           done == [page |-> raw.page, fp |-> raw.page]
<1>0. {"badge", "raw"} \subseteq Parts /\ {"uid", "title"} \subseteq C!Fields
  BY DEF Parts, C!Fields
<1>1. IsDocument(d) /\ d.raw = None /\ d.badge = FALSE
  BY DEF Underway
<1>2. IsDocument(n) /\ (\A x \in Parts \ {"badge"} : n[x] = d[x]) /\ n.badge = (~d.gen /\ d.fm["uid"] = "own" /\ d.src.body.alias)
  <2> HIDE DEF Parts
  <2>1. CASE ~d.gen /\ d.fm["uid"] = "own" /\ d.src.body.alias
    <3>1. n = [d EXCEPT !["badge"] = TRUE]
      BY <2>1 DEF C!InjectPermalink
    <3>2. IsDocument(n) /\ (\A x \in Parts \ {"badge"} : n[x] = d[x]) /\ n.badge = TRUE
      <4> HIDE DEF n
      <4> QED BY <1>0, <1>1, <3>1 DEF IsDocument
    <3> QED BY <2>1, <3>2
  <2>2. CASE ~(~d.gen /\ d.fm["uid"] = "own" /\ d.src.body.alias)
    <3>1. n = d
      BY <2>2 DEF C!InjectPermalink
    <3> QED BY <1>1, <2>2, <3>1
  <2> QED BY <2>1, <2>2
<1>3. n.src = d.src /\ n.path = d.path /\ n.fm = d.fm /\ n.edit = d.edit /\ n.raw = None
  BY <1>1, <1>2 DEF Parts
<1> HIDE DEF n
<1>4. m = [n EXCEPT !["raw"] = raw]
  BY <1>3 DEF C!SerializeDocument
<1>5. IsDocument(m) /\ m.raw = raw /\ \A x \in Parts \ {"raw"} : m[x] = n[x]
  <2> HIDE DEF Parts, raw, m
  <2> QED BY <1>0, <1>2, <1>4 DEF IsDocument
<1>6. e = [m EXCEPT !["raw"] = done]
  <2>1. e = C!FingerprintContent(m)
    BY DEF n
  <2> HIDE DEF m
  <2> QED BY <1>5, <2>1 DEF C!FingerprintContent
<1>7. e.raw = done /\ \A x \in Parts \ {"raw"} : e[x] = m[x]
  <2> HIDE DEF Parts, done, m
  <2> QED BY <1>0, <1>5, <1>6 DEF IsDocument
<1>8. e.path = d.path
  <2> HIDE DEF m, done, raw
  <2> QED BY <1>3, <1>5, <1>7 DEF Parts
<1> HIDE DEF m
<1> DEFINE page == C!Page(n)
<1>9. e.raw.page = page /\ e.raw.fp = page
  BY <1>7
<1>10. page.src = d.src /\ page.fm = d.fm /\ page.edit = d.edit /\ page.badge = (~d.gen /\ d.fm["uid"] = "own" /\ d.src.body.alias)
  BY <1>2, <1>3 DEF C!Page
<1> HIDE DEF page, raw, done
<1>11. d.src # None <=> ~d.gen
  BY DEF Underway, FromFile, IsDocFile, NoneIsNoFile
<1>12. \A k \in C!Fields : Wrote(d, k) => d.fm[k] = "own"
  BY DEF Underway
<1>13. d.fm["uid"] = "own" <=> Wrote(d, "uid")
  BY <1>0 DEF Underway
<1>14. page.badge = (d.src # None /\ d.src.body.valid /\ "uid" \in d.src.body.own /\ d.src.body.alias)
  BY <1>10, <1>11, <1>13 DEF Wrote
<1>15. site.publicOnly => d.edit = None /\ (d.src # None => d.src.body.valid /\ d.src.body.public = "true")
  BY <1>11 DEF Underway, FromFile, C!IsPublicMarkdown
<1>16. d.src # None /\ d.src.body.valid => \A k \in d.src.body.own : d.fm[k] = "own"
  BY <1>11, <1>12 DEF Wrote, Underway, FromFile, IsDocFile
<1>17. /\ d.src # None /\ d.path.name = C!IndexName /\ d.src.dir \notin {<<>>, <<d.src.base>>} /\ d.src.body.h1
       /\ ~(d.src.body.valid /\ "title" \in d.src.body.own)
       => d.fm["title"] = "heading"
  BY <1>11 DEF Wrote, Headed, Underway, FromFile
<1> QED BY <1>8, <1>9, <1>10, <1>14, <1>15, <1>16, <1>17 DEF RightPage

(* The transforms make a document the page that its author wrote.           *)
LEMMA TransformedIsRight ==
  ASSUME NoneIsNoFile, NEW d, Fresh(d), NEW e, e = C!Transform(d)
  PROVE  RightPage(e.path, e.raw)
<1> DEFINE d1 == C!ParseFrontMatter(d)
           d2 == C!NormalizeIndexFiles(d1)
           d3 == C!BuildBaseFrontMatter(d2)
           d4 == C!ExtractIndexTitle(d3)
           d5 == C!ExtractH1AsTitle(d4)
           d6 == C!StripHeading(d5)
           d7 == C!RewriteRelativeLinks(d6)
           d8 == C!RewriteImageLinks(d7)
           d9 == C!AddRepositoryMetadata(d8)
           d10 == C!AddEditLink(d9)
<1>1. e = C!FingerprintContent(C!SerializeDocument(C!InjectPermalink(d10)))
  BY DEF C!Transform
<1>2. d1 = C!ParseFrontMatter(d) /\ d2 = C!NormalizeIndexFiles(d1) /\ d3 = C!BuildBaseFrontMatter(d2)
  OBVIOUS
<1>3. d4 = C!ExtractIndexTitle(d3) /\ d5 = C!ExtractH1AsTitle(d4) /\ d6 = C!StripHeading(d5)
  OBVIOUS
<1>4. d7 = C!RewriteRelativeLinks(d6) /\ d8 = C!RewriteImageLinks(d7)
  OBVIOUS
<1>5. d9 = C!AddRepositoryMetadata(d8) /\ d10 = C!AddEditLink(d9)
  OBVIOUS
<1> HIDE DEF d1, d2, d3, d4, d5, d6, d7, d8, d9, d10
<1>6. /\ Underway(d1) /\ d1.name = d.name /\ (d1.isIndex <=> d.isIndex) /\ (d1.h1 <=> d.h1) /\ d1.gen = d.gen /\ d1.src = d.src
      /\ Headed(d1) => d1.fm["title"] = "none"
  BY <1>2, ParsedIsUnderway
<1>7. d1.gen \/ (d1.name = d1.src.name /\ (d1.isIndex <=> C!IsIndexFileName(d1.name)) /\ (d1.h1 <=> d1.src.body.h1))
  BY <1>6 DEF Fresh
<1>8. Underway(d2) /\ (Headed(d2) <=> Headed(d1)) /\ d2.fm = d1.fm /\ (d2.h1 <=> d1.h1) /\ (Headed(d2) => d2.name.word \in {"index", "_index"})
  <2>1. Underway(d1)
    BY <1>6
  <2>2. d1.gen \/ (d1.name = d1.src.name /\ (d1.isIndex <=> C!IsIndexFileName(d1.name)))
    BY <1>7
  <2> QED BY <1>2, <2>1, <2>2, NormalizedIsUnderway
<1>9. Underway(d3) /\ (Headed(d3) <=> Headed(d2)) /\ d3.h1 = d2.h1 /\ (Headed(d3) => C!NoRealTitle(d3))
  <2>1. Underway(d2)
    BY <1>8
  <2>2. Headed(d2) => d2.fm["title"] = "none" /\ d2.name.word \in {"index", "_index"}
    BY <1>6, <1>8
  <2> QED BY <1>2, <2>1, <2>2, BasedIsUnderway
<1>10. Headed(d3) => C!NoRealTitle(d3) /\ d3.h1
  BY <1>7, <1>8, <1>9 DEF Headed
<1>11. Underway(d4) /\ (Headed(d4) => d4.fm["title"] = "heading")
  <2>1. Underway(d3)
    BY <1>9
  <2> QED BY <1>3, <1>10, <2>1, IndexTitleIsUnderway
<1>12. Underway(d5) /\ (Headed(d5) => d5.fm["title"] = "heading")
  <2>1. Underway(d4)
    BY <1>11
  <2>2. /\ Underway(d5) /\ (Headed(d5) <=> Headed(d4))
        /\ d5.fm["title"] = IF C!NoRealTitle(d4) /\ d4.h1 THEN "heading" ELSE d4.fm["title"]
    BY <1>3, <2>1, HeadingIsUnderway
  <2> QED BY <1>11, <2>2
<1>13. Underway(d6) /\ (Headed(d6) => d6.fm["title"] = "heading")
  BY <1>3, <1>12, RewrittenIsUnderway
<1>14. Underway(d7) /\ (Headed(d7) => d7.fm["title"] = "heading")
  BY <1>4, <1>13, RewrittenIsUnderway
<1>15. Underway(d8) /\ (Headed(d8) => d8.fm["title"] = "heading")
  BY <1>4, <1>14, RewrittenIsUnderway
<1>16. Underway(d9) /\ (Headed(d9) => d9.fm["title"] = "heading")
  <2>1. Underway(d8)
    BY <1>15
  <2> QED BY <1>5, <1>15, <2>1, MetadataIsUnderway
<1>17. Underway(d10) /\ (Headed(d10) => d10.fm["title"] = "heading")
  <2>1. Underway(d9)
    BY <1>16
  <2> QED BY <1>5, <1>16, <2>1, EditedIsUnderway
<1> QED BY <1>1, <1>17, FinishedIsRight

IsSeq(q) == q \in Seq({q[i] : i \in DOMAIN q})

(* Sequences, whatever they are of.                                         *)
LEMMA SeqIs ==
  ASSUME NEW q
  PROVE  IsSeq(q) <=> (Len(q) \in Nat /\ DOMAIN q = 1..Len(q) /\ q = [i \in 1..Len(q) |-> q[i]])
<1>1. IsSeq(q) => (Len(q) \in Nat /\ DOMAIN q = 1..Len(q) /\ q = [i \in 1..Len(q) |-> q[i]])
  BY DEF IsSeq
<1>2. ASSUME Len(q) \in Nat, DOMAIN q = 1..Len(q), q = [i \in 1..Len(q) |-> q[i]] PROVE IsSeq(q)
  <2> DEFINE S == {q[i] : i \in DOMAIN q}
  <2>1. q \in [1..Len(q) -> S]
    BY <1>2
  <2>2. q \in Seq(S)
    BY <1>2, <2>1
  <2> QED BY <2>2 DEF IsSeq
<1> QED BY <1>1, <1>2

LEMMA InSeq ==
  ASSUME NEW A, NEW s \in Seq(A)
  PROVE  IsSeq(s)
<1> DEFINE S == {s[i] : i \in DOMAIN s}
<1>1. Len(s) \in Nat /\ s \in [1..Len(s) -> A]
  OBVIOUS
<1>2. s \in [1..Len(s) -> S]
  BY <1>1
<1>3. s \in Seq(S)
  BY <1>1, <1>2
<1> QED BY <1>3 DEF IsSeq

Joins(q, r, s) == s = q \o r
Appends(q, x, s) == s = Append(q, x)
Drops(q, s) == q # <<>> /\ s = Tail(q)

(* What two sequences that are joined have, one of them has.                *)
LEMMA Joined ==
  ASSUME NEW q, IsSeq(q), NEW r, IsSeq(r), NEW s, Joins(q, r, s)
  PROVE  IsSeq(s) /\ \A i \in DOMAIN s : (\E j \in DOMAIN q : s[i] = q[j]) \/ (\E j \in DOMAIN r : s[i] = r[j])
<1> DEFINE A == {q[i] : i \in DOMAIN q}
           B == {r[i] : i \in DOMAIN r}
<1>1. q \in Seq(A \cup B) /\ r \in Seq(A \cup B)
  BY DEF IsSeq
<1>2. s \in Seq(A \cup B) /\ Len(s) = Len(q) + Len(r)
  <2> HIDE DEF A, B
  <2> QED BY <1>1 DEF Joins
<1>3. ASSUME NEW i \in DOMAIN s PROVE (\E j \in DOMAIN q : s[i] = q[j]) \/ (\E j \in DOMAIN r : s[i] = r[j])
  <2>1. s[i] = IF i <= Len(q) THEN q[i] ELSE r[i - Len(q)]
    <3> HIDE DEF A, B
    <3> QED BY <1>1, <1>2 DEF Joins
  <2> QED BY <1>1, <1>2, <2>1
<1>4. IsSeq(s)
  <2> HIDE DEF A, B
  <2> QED BY <1>2, InSeq
<1> QED BY <1>3, <1>4

LEMMA Appended ==
  ASSUME NEW q, IsSeq(q), NEW x, NEW s, Appends(q, x, s)
  PROVE  IsSeq(s) /\ \A i \in DOMAIN s : s[i] = x \/ \E j \in DOMAIN q : s[i] = q[j]
<1> DEFINE A == {q[i] : i \in DOMAIN q} \cup {x}
<1>1. q \in Seq(A) /\ x \in A
  BY DEF IsSeq
<1> HIDE DEF A
<1>2. s \in Seq(A) /\ Len(s) = Len(q) + 1 /\ \A i \in 1..Len(s) : s[i] = IF i <= Len(q) THEN q[i] ELSE x
  BY <1>1 DEF Appends
<1>3. IsSeq(s)
  BY <1>2, InSeq
<1> QED BY <1>1, <1>2, <1>3

LEMMA Dropped ==
  ASSUME NEW q, IsSeq(q), NEW s, Drops(q, s)
  PROVE  IsSeq(s) /\ (\A i \in DOMAIN s : \E j \in DOMAIN q : s[i] = q[j]) /\ 1 \in DOMAIN q /\ Head(q) = q[1]
<1> DEFINE A == {q[i] : i \in DOMAIN q}
<1>1. q \in Seq(A)
  BY DEF IsSeq
<1> HIDE DEF A
<1>2. s \in Seq(A) /\ Len(s) = Len(q) - 1 /\ \A i \in 1..Len(s) : s[i] = q[i + 1]
  BY <1>1 DEF Drops
<1>3. IsSeq(s)
  BY <1>2, InSeq
<1> QED BY <1>1, <1>2, <1>3 DEF Drops


Rising(W, at) == at \in [1..Cardinality(W) -> W] /\ \A i, j \in 1..Cardinality(W) : i < j => at[i] < at[j]

(* An order of positions goes on with a later one.                          *)
LEMMA OneMore ==
  ASSUME NEW W \in SUBSET Nat, IsFiniteSet(W), NEW m \in Nat, m \notin W, \A n \in W : n <= m, NEW at, Rising(W, at)
  PROVE  \E more : Rising(W \cup {m}, more)
<1> DEFINE k == Cardinality(W)
           more == [i \in 1..(k + 1) |-> IF i = k + 1 THEN m ELSE at[i]]
<1>1. k \in Nat /\ Cardinality(W \cup {m}) = k + 1
  BY FS_CardinalityType, FS_AddElement
<1>2. at \in [1..k -> W] /\ \A i, j \in 1..k : i < j => at[i] < at[j]
  BY DEF Rising
<1> HIDE DEF k
<1>3. \A n \in W : n < m
  OBVIOUS
<1>4. \A i \in 1..k : at[i] \in W /\ at[i] \in Nat /\ at[i] < m
  BY <1>2, <1>3
<1>5. more \in [1..(k + 1) -> W \cup {m}]
  BY <1>1, <1>4
<1>6. ASSUME NEW i \in 1..(k + 1), NEW j \in 1..(k + 1), i < j PROVE more[i] < more[j]
  <2>1. i \in 1..k /\ more[i] = at[i]
    BY <1>1, <1>6
  <2>2. CASE j = k + 1
    BY <1>4, <2>1, <2>2
  <2>3. CASE j # k + 1
    <3>1. j \in 1..k /\ more[j] = at[j]
      BY <1>1, <2>3
    <3> QED BY <1>2, <1>6, <2>1, <3>1
  <2> QED BY <2>2, <2>3
<1> HIDE DEF more
<1>7. Rising(W \cup {m}, more)
  BY <1>1, <1>5, <1>6 DEF Rising
<1> QED BY <1>7

(* A finite set of positions has an order from the first to the last.       *)
LEMMA HasOrder ==
  ASSUME NEW S \in SUBSET Nat, IsFiniteSet(S)
  PROVE  Cardinality(S) \in Nat /\ \E at : Rising(S, at)
<1> DEFINE Of(n) == {W \in SUBSET Nat : IsFiniteSet(W) /\ Cardinality(W) = n}
           Bad == {n \in Nat : \E W \in Of(n) : ~\E at : Rising(W, at)}
<1>1. Bad = {}
  <2>1. SUFFICES ASSUME Bad # {} PROVE FALSE
    OBVIOUS
  <2>2. PICK n \in Bad : \A m \in Bad : n <= m
    BY <2>1, Least
  <2>3. PICK W \in SUBSET Nat : IsFiniteSet(W) /\ Cardinality(W) = n /\ ~\E at : Rising(W, at)
    BY <2>2
  <2>4. CASE W = {}
    <3>1. Cardinality(W) = 0
      BY <2>4, FS_EmptySet
    <3>2. Rising(W, <<>>)
      BY <2>4, <3>1 DEF Rising
    <3> QED BY <2>3, <3>2
  <2>5. CASE W # {}
    <3>1. PICK m \in W : \A x \in W : x <= m
      BY <2>3, <2>5, Largest
    <3> DEFINE U == W \ {m}
    <3>2. IsFiniteSet(U) /\ Cardinality(U) = n - 1 /\ n - 1 \in Nat
      <4>1. IsFiniteSet(U) /\ Cardinality(U) = n - 1
        BY <2>3, FS_RemoveElement
      <4>2. Cardinality(U) \in Nat
        BY <4>1, FS_CardinalityType
      <4> QED BY <4>1, <4>2
    <3>3. n - 1 \notin Bad
      BY <2>2
    <3>4. U \in Of(n - 1)
      BY <3>2
    <3>5. PICK at : Rising(U, at)
      BY <3>2, <3>3, <3>4
    <3>6. U \in SUBSET Nat /\ m \in Nat /\ m \notin U /\ U \cup {m} = W
      OBVIOUS
    <3>7. \A x \in U : x <= m
      BY <3>1
    <3>8. IsFiniteSet(U)
      BY <3>2
    <3> HIDE DEF U
    <3>9. \E more : Rising(U \cup {m}, more)
      BY <3>5, <3>6, <3>7, <3>8, OneMore
    <3> QED BY <2>3, <3>6, <3>9
  <2> QED BY <2>4, <2>5
<1>2. Cardinality(S) \in Nat
  BY FS_CardinalityType
<1>3. S \in Of(Cardinality(S))
  OBVIOUS
<1>4. PICK at : Rising(S, at)
  <2> HIDE DEF Of
  <2> QED BY <1>1, <1>2, <1>3
<1> QED BY <1>2, <1>4

(* The order in which they are walked.                                      *)
LEMMA Ordered ==
  ASSUME NEW S \in SUBSET Nat, IsFiniteSet(S)
  PROVE  Cardinality(S) \in Nat /\ C!InOrder(S) \in [1..Cardinality(S) -> S]
<1>1. Cardinality(S) \in Nat
  BY HasOrder
<1>2. PICK at : Rising(S, at)
  BY HasOrder
<1>3. C!Cardinality(S) = Cardinality(S)
  BY Zenon DEF C!Cardinality, Cardinality
<1>4. at \in [1..C!Cardinality(S) -> S] /\ \A i, j \in DOMAIN at : i < j => at[i] < at[j]
  BY <1>2, <1>3 DEF Rising
<1>5. C!InOrder(S) \in [1..C!Cardinality(S) -> S]
  BY <1>1, <1>3, <1>4 DEF C!InOrder
<1> QED BY <1>1, <1>3, <1>5

(* What the walk finds are files.                                           *)
LEMMA WalkFinds ==
  ASSUME site \in Sites, NEW r \in C!Repos, NEW w, w = C!WalkDocsDirectory(r)
  PROVE  IsSeq(w) /\ \A k \in DOMAIN w : IsDocFile(w[k])
<1> DEFINE repo == site.repos[r]
           keep(f) == f.kind # "other" /\ ~C!IsHidden(f.name) /\ ~(f.dir = <<>> /\ C!IsIgnoredFile(f.name))
           S == {i \in DOMAIN repo.files : keep(repo.files[i])}
           at == C!InOrder(S)
           file(f) == [repo |-> r, forge |-> IF C!NamespaceForges THEN repo.forge ELSE None, base |-> f.base, dir |-> f.dir,
                       name |-> f.name, asset |-> f.kind = "asset", body |-> f.body]
<1>1. /\ Len(repo.files) \in Nat /\ DOMAIN repo.files = 1..Len(repo.files)
      /\ \A i \in DOMAIN repo.files : Len(repo.files[i].dir) \in Nat /\ repo.files[i].body.own \subseteq C!Fields
  <2>1. r \in DOMAIN site.repos
    BY DEF C!Repos
  <2>2. Len(repo.files) \in Nat /\ DOMAIN repo.files = 1..Len(repo.files)
    BY <2>1, SitesAssumption, Zenon
  <2>3. \A i \in DOMAIN repo.files : repo.files[i].dir \in Seq(Names) /\ repo.files[i].body.own \subseteq C!Fields
    BY <2>1, SitesAssumption, Zenon
  <2> HIDE DEF repo
  <2> QED BY <2>2, <2>3
<1>2. w = [k \in DOMAIN at |-> file(repo.files[at[k]])]
  BY DEF C!WalkDocsDirectory
<1>3. IsFiniteSet(S) /\ S \in SUBSET Nat
  <2> HIDE DEF keep, repo
  <2>1. S \in SUBSET (1..Len(repo.files))
    BY <1>1
  <2>2. IsFiniteSet(1..Len(repo.files))
    <3> DEFINE n == Len(repo.files)
    <3>1. n \in Int /\ 1 \in Int
      BY <1>1
    <3> HIDE DEF n
    <3>2. IsFiniteSet(1..n)
      BY <3>1, FS_Interval
    <3> QED BY <3>2 DEF n
  <2>3. IsFiniteSet(S)
    <3> HIDE DEF S
    <3> QED BY <2>1, <2>2, FS_Subset
  <2> QED BY <1>1, <2>1, <2>3
<1>4. \A i \in S : i \in DOMAIN repo.files
  OBVIOUS
<1> HIDE DEF S, keep
<1>5. Cardinality(S) \in Nat /\ at \in [1..Cardinality(S) -> S]
  BY <1>3, Ordered
<1> HIDE DEF at
<1>6. ASSUME NEW k \in DOMAIN w PROVE IsDocFile(w[k])
  <2>1. k \in DOMAIN at
    BY <1>2
  <2>2. at[k] \in DOMAIN repo.files
    BY <1>4, <1>5, <2>1
  <2>3. w[k] = file(repo.files[at[k]])
    BY <1>2, <2>1, SMTT(30)
  <2> HIDE DEF repo
  <2> QED BY <1>1, <2>2, <2>3 DEF IsDocFile
<1>7. IsSeq(w)
  <2> DEFINE A == {file(repo.files[at[k]]) : k \in DOMAIN at}
  <2>1. w \in [1..Cardinality(S) -> A]
    <3> HIDE DEF file, repo
    <3> QED BY <1>2, <1>5
  <2> HIDE DEF A
  <2>2. w \in Seq(A)
    BY <1>5, <2>1
  <2> QED BY <2>2, InSeq, SMTT(30)
<1> QED BY <1>6, <1>7, SMTT(30)

(* A document that is read is a fresh one.                                  *)
LEMMA LoadedIsFresh ==
  ASSUME NEW f, IsDocFile(f), site.publicOnly => C!IsPublicMarkdown(f), NEW d, d = C!NewDocumentFromDocFile(f)
  PROVE  Fresh(d) /\ FromFile(d)
<1>1. IsDocument(d)
  BY DEF IsDocument, Parts, C!NewDocumentFromDocFile
<1>2. /\ ~d.gen /\ d.src = f /\ d.path = C!GetHugoPath(f) /\ d.name = f.name /\ d.isIndex = C!IsIndexFileName(f.name) /\ d.dir = f.dir
      /\ d.fm = [k \in C!Fields |-> "none"] /\ d.h1 = f.body.h1 /\ d.edit = None /\ d.badge = FALSE /\ d.raw = None
  BY DEF C!NewDocumentFromDocFile
<1>3. d.path.name = C!IndexName => d.isIndex
  <2>1. d.path.name = IF f.name.word = "index" THEN C!IndexName ELSE C!Lower(f.name)
    BY <1>2 DEF C!GetHugoPath
  <2>2. CASE f.name.word = "index"
    BY <1>2, <2>2 DEF C!IsIndexFileName
  <2>3. CASE f.name.word # "index" /\ C!Lower(f.name) = C!IndexName
    <3>1. DOMAIN f.name = {"word", "up"}
      BY <2>3 DEF C!Lower, C!IndexName
    <3>2. f.name.word = "_index"
      BY <2>3, <3>1 DEF C!Lower, C!IndexName
    <3> QED BY <1>2, <3>2 DEF C!IsIndexFileName
  <2> QED BY <2>1, <2>2, <2>3
<1>4. FromFile(d)
  BY <1>2, <1>3 DEF FromFile
<1> QED BY <1>1, <1>2, <1>4 DEF Fresh, IsFrontMatter

(* So is one that is generated.                                             *)
LEMMA GeneratedIsFresh ==
  ASSUME NEW repo, NEW dir, NEW path, NEW d, d = C!Generated(repo, dir, path)
  PROVE  Fresh(d)
<1>1. IsDocument(d)
  BY DEF IsDocument, Parts, C!Generated
<1>2. /\ d.gen /\ d.src = None /\ d.edit = None /\ d.badge = FALSE /\ d.raw = None
      /\ d.fm = [k \in C!Fields |-> IF k \in {"title", "type"} \/ (k = "public" /\ site.publicOnly) THEN "tool" ELSE "none"]
  BY DEF C!Generated
<1> QED BY <1>1, <1>2 DEF Fresh, IsFrontMatter

(* Orders of a finite set of documents are sequences of them.               *)
LEMMA OrdersAreSeqs ==
  ASSUME NEW S, IsFiniteSet(S), NEW q \in C!SetToSeqs(S)
  PROVE  IsSeq(q) /\ \A i \in DOMAIN q : q[i] \in S
<1>1. Cardinality(S) \in Nat /\ C!Cardinality(S) = Cardinality(S)
  <2>1. C!Cardinality(S) = Cardinality(S)
    BY Zenon DEF C!Cardinality, Cardinality
  <2> QED BY <2>1, FS_CardinalityType
<1>2. q \in [1..Cardinality(S) -> S]
  BY <1>1 DEF C!SetToSeqs
<1>3. q \in Seq(S)
  BY <1>1, <1>2
<1> QED BY <1>1, <1>2, <1>3, InSeq

(* A finite set has finitely many images.                                   *)
LEMMA ImagesAreFinite ==
  ASSUME NEW S, IsFiniteSet(S), NEW f, DOMAIN f = S, NEW W, W \subseteq {f[x] : x \in S}
  PROVE  IsFiniteSet(W)
<1> DEFINE I == {f[x] : x \in S}
           g == [x \in S |-> f[x]]
<1>1. g \in Surjection(S, I)
  BY DEF Surjection
<1> HIDE DEF g
<1>2. IsFiniteSet(I)
  <2> HIDE DEF I
  <2> QED BY <1>1, FS_Surjection
<1>3. W \in SUBSET I
  OBVIOUS
<1> HIDE DEF I
<1> QED BY <1>2, <1>3, FS_Subset

(* There are finitely many generated indexes, and they are fresh documents. *)
LEMMA RepositoryIndexes ==
  ASSUME NEW ds, IsSeq(ds), NEW D, D = C!GenerateRepositoryIndex(ds)
  PROVE  IsFiniteSet(D) /\ \A d \in D : Fresh(d)
<1> DEFINE without == {r \in {ds[i].repo : i \in DOMAIN ds} : ~\E i \in DOMAIN ds : ds[i].repo = r /\ ds[i].isIndex /\ ds[i].dir = <<>>}
           f == [i \in DOMAIN ds |-> C!Generated(ds[i].repo, <<>>, <<ds[i].repo>>)]
<1>1. D = IF C!IsSingleRepo THEN {} ELSE {C!Generated(r, <<>>, <<r>>) : r \in without}
  BY DEF C!GenerateRepositoryIndex
<1>2. \A r \in without : \E i \in DOMAIN ds : r = ds[i].repo
  OBVIOUS
<1> HIDE DEF without
<1>3. D \subseteq {f[i] : i \in DOMAIN ds}
  <2>1. ASSUME NEW d \in D PROVE \E i \in DOMAIN ds : d = f[i]
    <3>1. PICK r \in without : d = C!Generated(r, <<>>, <<r>>)
      BY <1>1
    <3>2. PICK i \in DOMAIN ds : r = ds[i].repo
      BY <1>2
    <3>3. f[i] = C!Generated(ds[i].repo, <<>>, <<ds[i].repo>>)
      OBVIOUS
    <3> QED BY <3>1, <3>2, <3>3
  <2> HIDE DEF f
  <2> QED BY <2>1
<1>4. IsFiniteSet(DOMAIN ds)
  <2>1. Len(ds) \in Nat /\ DOMAIN ds = 1..Len(ds)
    BY SeqIs
  <2> QED BY <2>1, FS_Interval
<1>5. IsFiniteSet(D)
  <2>1. DOMAIN f = DOMAIN ds
    OBVIOUS
  <2> HIDE DEF f
  <2> QED BY <1>3, <1>4, <2>1, ImagesAreFinite
<1>6. ASSUME NEW d \in D PROVE Fresh(d)
  <2>1. PICK r \in without : d = C!Generated(r, <<>>, <<r>>)
    BY <1>1
  <2> QED BY <2>1, GeneratedIsFresh
<1> QED BY <1>5, <1>6

LEMMA SectionIndexes ==
  ASSUME NEW ds, IsSeq(ds), \A i \in DOMAIN ds : Len(ds[i].dir) \in Nat, NEW D, D = C!GenerateSectionIndex(ds)
  PROVE  IsFiniteSet(D) /\ \A d \in D : Fresh(d)
<1> DEFINE of(i) == {<<ds[i].repo, SubSeq(ds[i].dir, 1, n)>> : n \in 1..Len(ds[i].dir)}
           each == [i \in DOMAIN ds |-> of(i)]
           some == {each[i] : i \in DOMAIN ds}
           existing == {<<ds[i].repo, ds[i].dir>> : i \in {j \in DOMAIN ds : ds[j].isIndex}}
           gen(s) == C!Generated(s[1], s[2], (IF C!IsSingleRepo THEN <<>> ELSE <<s[1]>>) \o s[2])
           all == UNION {of(i) : i \in DOMAIN ds}
           f == [s \in UNION some |-> gen(s)]
<1>1. D = {gen(s) : s \in all \ existing}
  BY DEF C!GenerateSectionIndex
<1>2. IsFiniteSet(DOMAIN ds)
  <2>1. Len(ds) \in Nat /\ DOMAIN ds = 1..Len(ds)
    BY SeqIs
  <2> QED BY <2>1, FS_Interval
<1>3. ASSUME NEW i \in DOMAIN ds PROVE IsFiniteSet(of(i))
  <2> DEFINE h == [n \in 1..Len(ds[i].dir) |-> <<ds[i].repo, SubSeq(ds[i].dir, 1, n)>>]
  <2>1. IsFiniteSet(1..Len(ds[i].dir))
    BY FS_Interval
  <2>2. DOMAIN h = 1..Len(ds[i].dir) /\ of(i) \subseteq {h[n] : n \in 1..Len(ds[i].dir)}
    OBVIOUS
  <2> HIDE DEF h, of
  <2> QED BY <2>1, <2>2, ImagesAreFinite
<1> HIDE DEF of
<1>4. all = UNION some
  OBVIOUS
<1>5. IsFiniteSet(UNION some)
  <2>1. \A W \in some : IsFiniteSet(W)
    BY <1>3
  <2>2. IsFiniteSet(some)
    <3>1. DOMAIN each = DOMAIN ds
      OBVIOUS
    <3> HIDE DEF each
    <3> QED BY <1>2, <3>1, ImagesAreFinite
  <2> HIDE DEF some
  <2> QED BY <2>1, <2>2, FS_UNION
<1> HIDE DEF all, some, existing
<1>6. IsFiniteSet(D)
  <2>1. DOMAIN f = UNION some /\ D \subseteq {f[s] : s \in UNION some}
    BY <1>1, <1>4
  <2> HIDE DEF f
  <2> QED BY <1>5, <2>1, ImagesAreFinite
<1>7. ASSUME NEW d \in D PROVE Fresh(d)
  <2>1. PICK s \in all : d = gen(s)
    BY <1>1
  <2> QED BY <2>1, GeneratedIsFresh
<1> QED BY <1>6, <1>7

LEMMA MainIndexes ==
  ASSUME NEW ds, NEW q, q = C!GenerateMainIndex(ds)
  PROVE  IsSeq(q) /\ \A i \in DOMAIN q : Fresh(q[i])
<1> DEFINE d == C!Generated(None, <<>>, <<>>)
<1>1. q = <<>> \/ q = <<d>>
  BY DEF C!GenerateMainIndex
<1>2. Fresh(d)
  BY GeneratedIsFresh
<1> HIDE DEF d
<1>3. q \in Seq({d})
  <2>1. d \in {d}
    OBVIOUS
  <2>2. <<>> \in Seq({d}) /\ <<d>> \in Seq({d})
    BY <2>1
  <2> QED BY <1>1, <2>2
<1>4. \A i \in DOMAIN q : q[i] = d
  BY <1>3
<1> QED BY <1>2, <1>3, <1>4, InSeq

-----------------------------------------------------------------------------
(* What the content pipeline has found, read, transformed and written.      *)
DocFilesInv == IsSeq(docFiles) /\ \A i \in DOMAIN docFiles : IsDocFile(docFiles[i])
PendingInv == pending \subseteq DOMAIN docFiles /\ (building = "copy" => \A i \in pending : docFiles[i].asset)
QueueInv ==
  /\ IsSeq(queue) /\ \A i \in DOMAIN queue : Fresh(queue[i])
  /\ building \in {"discover", "copy", "load"} => \A i \in DOMAIN queue : FromFile(queue[i])
DocsInv == IsSeq(docs) /\ \A i \in DOMAIN docs : RightPage(docs[i].path, docs[i].raw)
OutInv == \A p \in DOMAIN out : ~p.asset => RightPage(p, out[p])
SiteInv == site \in Sites /\ DocFilesInv /\ PendingInv /\ QueueInv /\ DocsInv /\ OutInv

LEMMA SiteStarts == ASSUME C!Init PROVE SiteInv
<1>1. IsSeq(<<>>)
  BY DEF IsSeq
<1> QED BY <1>1 DEF C!Init, SiteInv, DocFilesInv, PendingInv, QueueInv, DocsInv, OutInv

(* The site is the same throughout.                                         *)
LEMMA SameSite ==
  ASSUME site' = site
  PROVE  /\ \A d : Fresh(d)' <=> Fresh(d)
         /\ \A d : FromFile(d)' <=> FromFile(d)
         /\ \A p, raw : RightPage(p, raw)' <=> RightPage(p, raw)
BY DEF Fresh, FromFile, RightPage

(* What a step leaves alone is as right as before.                          *)
LEMMA QueueStays ==
  ASSUME QueueInv, site' = site, queue' = queue, building' = building \/ building' \notin {"discover", "copy", "load"} \/ building \in {"discover", "copy", "load"}
  PROVE  QueueInv'
BY SameSite DEF QueueInv

LEMMA DocsStay == ASSUME DocsInv, site' = site, docs' = docs PROVE DocsInv'
BY SameSite DEF DocsInv

LEMMA OutStays == ASSUME OutInv, site' = site, out' = out PROVE OutInv'
BY SameSite DEF OutInv

(* The actions of the pipeline.                                             *)
LEMMA DiscoverKeepsSite == ASSUME SiteInv, NEW r \in C!Repos, C!DiscoverDocs(r) PROVE SiteInv'
<1>1. site' = site /\ building' = building /\ building = "discover" /\ pending' = pending /\ queue' = queue /\ docs' = docs /\ out' = out
  BY DEF C!DiscoverDocs
<1> DEFINE w == IF site.repos[r].docignore THEN <<>> ELSE C!WalkDocsDirectory(r)
<1>2. docFiles' = docFiles \o w
  BY DEF C!DiscoverDocs
<1>3. IsSeq(w) /\ \A k \in DOMAIN w : IsDocFile(w[k])
  <2>1. IsSeq(<<>>)
    BY DEF IsSeq
  <2>2. site \in Sites
    BY DEF SiteInv
  <2>3. IsSeq(C!WalkDocsDirectory(r)) /\ \A k \in DOMAIN C!WalkDocsDirectory(r) : IsDocFile(C!WalkDocsDirectory(r)[k])
    BY <2>2, WalkFinds
  <2> QED BY <2>1, <2>3
<1> HIDE DEF w
<1>4. DocFilesInv' /\ DOMAIN docFiles \subseteq DOMAIN docFiles'
  <2>1. IsSeq(docFiles) /\ \A i \in DOMAIN docFiles : IsDocFile(docFiles[i])
    BY DEF SiteInv, DocFilesInv
  <2>2. IsSeq(docFiles') /\ \A i \in DOMAIN docFiles' : (\E j \in DOMAIN docFiles : docFiles'[i] = docFiles[j]) \/ (\E j \in DOMAIN w : docFiles'[i] = w[j])
    <3>1. IsSeq(docFiles)
      BY <2>1
    <3>2. IsSeq(w)
      BY <1>3
    <3>3. Joins(docFiles, w, docFiles')
      BY <1>2 DEF Joins
    <3> QED BY <3>1, <3>2, <3>3, Joined
  <2>3. DOMAIN docFiles \subseteq DOMAIN docFiles'
    BY <1>2, <1>3, <2>1 DEF IsSeq
  <2> QED BY <1>3, <2>1, <2>2, <2>3 DEF DocFilesInv
<1>5. PendingInv'
  BY <1>1, <1>4 DEF SiteInv, PendingInv
<1> QED BY <1>1, <1>4, <1>5, QueueStays, DocsStay, OutStays DEF SiteInv

LEMMA DiscoveredKeepsSite == ASSUME SiteInv, C!Discovered PROVE SiteInv'
<1>1. site' = site /\ building = "discover" /\ docFiles' = docFiles /\ queue' = queue /\ docs' = docs /\ out' = out
  BY DEF C!Discovered
<1>2. (building' = "failed" /\ pending' = pending) \/ pending' = {i \in DOMAIN docFiles : docFiles[i].asset}
  BY DEF C!Discovered
<1>3. DocFilesInv' /\ PendingInv'
  BY <1>1, <1>2 DEF SiteInv, DocFilesInv, PendingInv
<1> QED BY <1>1, <1>3, QueueStays, DocsStay, OutStays DEF SiteInv

LEMMA CopyKeepsSite == ASSUME SiteInv, C!CopyAssetFile PROVE SiteInv'
<1>1. site' = site /\ building' = building /\ building = "copy" /\ docFiles' = docFiles /\ queue' = queue /\ docs' = docs
  BY DEF C!CopyAssetFile
<1>2. PICK i \in pending : pending' = pending \ {i} /\ out' = C!Put(C!GetHugoPath(docFiles[i]), docFiles[i])
  BY DEF C!CopyAssetFile
<1> DEFINE p == C!GetHugoPath(docFiles[i])
<1>3. p.asset
  BY <1>1 DEF C!GetHugoPath, SiteInv, PendingInv
<1> HIDE DEF p
<1>4. DOMAIN out' = DOMAIN out \cup {p} /\ \A x \in DOMAIN out \ {p} : out'[x] = out[x]
  BY <1>2 DEF C!Put, p
<1>5. OutInv'
  BY <1>1, <1>3, <1>4, SameSite DEF SiteInv, OutInv
<1>6. DocFilesInv' /\ PendingInv'
  BY <1>1, <1>2 DEF SiteInv, DocFilesInv, PendingInv
<1> QED BY <1>1, <1>5, <1>6, QueueStays, DocsStay DEF SiteInv

LEMMA AssetsKeepSite == ASSUME SiteInv, C!AssetsCopied PROVE SiteInv'
<1>1. site' = site /\ building = "copy" /\ building' = "load" /\ docFiles' = docFiles /\ queue' = queue /\ docs' = docs /\ out' = out
  BY DEF C!AssetsCopied
<1>2. pending' = {i \in DOMAIN docFiles : ~docFiles[i].asset}
  BY DEF C!AssetsCopied
<1>3. DocFilesInv' /\ PendingInv'
  BY <1>1, <1>2 DEF SiteInv, DocFilesInv, PendingInv
<1> QED BY <1>1, <1>3, QueueStays, DocsStay, OutStays DEF SiteInv

LEMMA LoadKeepsSite == ASSUME SiteInv, C!LoadContent PROVE SiteInv'
<1>1. site' = site /\ building' = building /\ building = "load" /\ docFiles' = docFiles /\ docs' = docs /\ out' = out
  BY DEF C!LoadContent
<1>2. PICK i \in pending :
        /\ pending' = pending \ {i}
        /\ queue' = IF site.publicOnly /\ ~C!IsPublicMarkdown(docFiles[i]) THEN queue
                    ELSE Append(queue, C!NewDocumentFromDocFile(docFiles[i]))
  BY DEF C!LoadContent
<1>3. QueueInv'
  <2>1. CASE site.publicOnly /\ ~C!IsPublicMarkdown(docFiles[i])
    BY <1>1, <1>2, <2>1, QueueStays DEF SiteInv
  <2>2. CASE ~(site.publicOnly /\ ~C!IsPublicMarkdown(docFiles[i]))
    <3> DEFINE d == C!NewDocumentFromDocFile(docFiles[i])
    <3>1. IsDocFile(docFiles[i])
      BY DEF SiteInv, DocFilesInv, PendingInv
    <3>2. Fresh(d) /\ FromFile(d)
      BY <2>2, <3>1, LoadedIsFresh
    <3>3. queue' = Append(queue, d)
      BY <1>2, <2>2
    <3> HIDE DEF d
    <3>4. IsSeq(queue) /\ \A k \in DOMAIN queue : Fresh(queue[k]) /\ FromFile(queue[k])
      BY <1>1 DEF SiteInv, QueueInv
    <3>5. IsSeq(queue') /\ \A k \in DOMAIN queue' : queue'[k] = d \/ \E j \in DOMAIN queue : queue'[k] = queue[j]
      <4>1. IsSeq(queue)
        BY <3>4
      <4>2. Appends(queue, d, queue')
        BY <3>3 DEF Appends
      <4> QED BY <4>1, <4>2, Appended
    <3> QED BY <1>1, <3>2, <3>4, <3>5, SameSite DEF QueueInv
  <2> QED BY <2>1, <2>2
<1>4. DocFilesInv' /\ PendingInv'
  BY <1>1, <1>2 DEF SiteInv, DocFilesInv, PendingInv
<1> QED BY <1>1, <1>3, <1>4, DocsStay, OutStays DEF SiteInv

LEMMA ProcessKeepsSite == ASSUME SiteInv, C!ProcessContent PROVE SiteInv'
<1>1. site' = site /\ building = "load" /\ building' = "process" /\ docFiles' = docFiles /\ pending' = pending /\ docs' = docs /\ out' = out
  BY DEF C!ProcessContent
<1> DEFINE R == C!GenerateRepositoryIndex(queue)
           S == C!GenerateSectionIndex(queue)
           m == C!GenerateMainIndex(queue)
<1>2. PICK r \in C!SetToSeqs(R), s \in C!SetToSeqs(S) : queue' = queue \o m \o r \o s
  BY DEF C!ProcessContent
<1>3. IsSeq(queue) /\ \A i \in DOMAIN queue : Fresh(queue[i]) /\ FromFile(queue[i])
  BY <1>1 DEF SiteInv, QueueInv
<1>4. IsSeq(m) /\ \A i \in DOMAIN m : Fresh(m[i])
  BY MainIndexes
<1>5. IsFiniteSet(R) /\ \A d \in R : Fresh(d)
  BY <1>3, RepositoryIndexes
<1>6. IsFiniteSet(S) /\ \A d \in S : Fresh(d)
  <2>1. \A i \in DOMAIN queue : Len(queue[i].dir) \in Nat
    BY <1>3 DEF FromFile, IsDocFile
  <2> QED BY <1>3, <2>1, SectionIndexes
<1> HIDE DEF R, S, m
<1>7. IsSeq(r) /\ \A i \in DOMAIN r : Fresh(r[i])
  BY <1>5, OrdersAreSeqs
<1>8. IsSeq(s) /\ \A i \in DOMAIN s : Fresh(s[i])
  BY <1>6, OrdersAreSeqs
<1> DEFINE a == queue \o m
           b == a \o r
<1>9. IsSeq(a) /\ \A i \in DOMAIN a : (\E j \in DOMAIN queue : a[i] = queue[j]) \/ (\E j \in DOMAIN m : a[i] = m[j])
  <2>1. IsSeq(queue)
    BY <1>3
  <2>2. IsSeq(m)
    BY <1>4
  <2>3. Joins(queue, m, a)
    BY DEF Joins
  <2> HIDE DEF a
  <2> QED BY <2>1, <2>2, <2>3, Joined
<1>10. queue' = b \o s /\ b = a \o r
  BY <1>2
<1> HIDE DEF a
<1>11. IsSeq(b) /\ \A i \in DOMAIN b : (\E j \in DOMAIN a : b[i] = a[j]) \/ (\E j \in DOMAIN r : b[i] = r[j])
  <2>1. IsSeq(a)
    BY <1>9
  <2>2. IsSeq(r)
    BY <1>7
  <2>3. Joins(a, r, b)
    BY DEF Joins
  <2> HIDE DEF b
  <2> QED BY <2>1, <2>2, <2>3, Joined
<1> HIDE DEF b
<1>12. IsSeq(queue') /\ \A i \in DOMAIN queue' : (\E j \in DOMAIN b : queue'[i] = b[j]) \/ (\E j \in DOMAIN s : queue'[i] = s[j])
  <2>1. IsSeq(b)
    BY <1>11
  <2>2. IsSeq(s)
    BY <1>8
  <2>3. Joins(b, s, queue')
    BY <1>10 DEF Joins
  <2> QED BY <2>1, <2>2, <2>3, Joined
<1>13. \A i \in DOMAIN a : Fresh(a[i])
  BY <1>3, <1>4, <1>9
<1>14. \A i \in DOMAIN b : Fresh(b[i])
  BY <1>7, <1>11, <1>13
<1>15. \A i \in DOMAIN queue' : Fresh(queue'[i])
  BY <1>8, <1>12, <1>14
<1>16. QueueInv'
  BY <1>1, <1>12, <1>15, SameSite DEF QueueInv
<1>17. DocFilesInv' /\ PendingInv'
  BY <1>1 DEF SiteInv, DocFilesInv, PendingInv
<1> QED BY <1>1, <1>16, <1>17, DocsStay, OutStays DEF SiteInv

LEMMA TransformsKeepSite == ASSUME NoneIsNoFile, SiteInv, C!ProcessTransforms PROVE SiteInv'
<1>1. site' = site /\ building = "process" /\ building' \in {"process", "write"} /\ docFiles' = docFiles /\ pending' = pending /\ out' = out
  BY DEF C!ProcessTransforms
<1>2. IsSeq(queue) /\ (\A i \in DOMAIN queue : Fresh(queue[i])) /\ IsSeq(docs) /\ \A i \in DOMAIN docs : RightPage(docs[i].path, docs[i].raw)
  BY DEF SiteInv, QueueInv, DocsInv
<1>3. QueueInv' /\ DocsInv'
  <2>1. CASE queue = <<>>
    <3>1. queue' = queue /\ docs' = docs
      BY <2>1 DEF C!ProcessTransforms
    <3> QED BY <1>1, <3>1, QueueStays, DocsStay DEF SiteInv
  <2>2. CASE queue # <<>>
    <3> DEFINE e == C!Transform(Head(queue))
    <3>1. queue' = Tail(queue) /\ docs' = Append(docs, e)
      BY <2>2 DEF C!ProcessTransforms
    <3>2. IsSeq(queue') /\ (\A i \in DOMAIN queue' : \E j \in DOMAIN queue : queue'[i] = queue[j]) /\ 1 \in DOMAIN queue /\ Head(queue) = queue[1]
      <4>1. IsSeq(queue)
        BY <1>2
      <4>2. Drops(queue, queue')
        BY <2>2, <3>1 DEF Drops
      <4> QED BY <4>1, <4>2, Dropped
    <3>3. Fresh(Head(queue))
      BY <1>2, <3>2
    <3>4. RightPage(e.path, e.raw)
      BY <3>3, TransformedIsRight
    <3> HIDE DEF e
    <3>5. IsSeq(docs') /\ \A i \in DOMAIN docs' : docs'[i] = e \/ \E j \in DOMAIN docs : docs'[i] = docs[j]
      <4>1. IsSeq(docs)
        BY <1>2
      <4>2. Appends(docs, e, docs')
        BY <3>1 DEF Appends
      <4> QED BY <4>1, <4>2, Appended
    <3>6. QueueInv'
      BY <1>1, <1>2, <3>2, SameSite DEF QueueInv
    <3>7. DocsInv'
      BY <1>1, <1>2, <3>4, <3>5, SameSite DEF DocsInv
    <3> QED BY <3>6, <3>7
  <2> QED BY <2>1, <2>2
<1>4. DocFilesInv' /\ PendingInv'
  BY <1>1 DEF SiteInv, DocFilesInv, PendingInv
<1> QED BY <1>1, <1>3, <1>4, OutStays DEF SiteInv

LEMMA WriteKeepsSite == ASSUME SiteInv, C!WriteDocument PROVE SiteInv'
<1>1. site' = site /\ building' = building /\ docFiles' = docFiles /\ pending' = pending /\ queue' = queue
  BY DEF C!WriteDocument
<1> DEFINE d == Head(docs)
<1>2. docs # <<>> /\ docs' = Tail(docs) /\ out' = C!Put(d.path, d.raw)
  BY DEF C!WriteDocument
<1>3. IsSeq(docs) /\ \A i \in DOMAIN docs : RightPage(docs[i].path, docs[i].raw)
  BY DEF SiteInv, DocsInv
<1>4. IsSeq(docs') /\ (\A i \in DOMAIN docs' : \E j \in DOMAIN docs : docs'[i] = docs[j]) /\ 1 \in DOMAIN docs /\ d = docs[1]
  <2>1. IsSeq(docs)
    BY <1>3
  <2>2. Drops(docs, docs')
    BY <1>2 DEF Drops
  <2> HIDE DEF d
  <2> QED BY <2>1, <2>2, Dropped DEF d
<1>5. RightPage(d.path, d.raw)
  BY <1>3, <1>4
<1> HIDE DEF d
<1>6. DOMAIN out' = DOMAIN out \cup {d.path} /\ out'[d.path] = d.raw /\ \A x \in DOMAIN out \ {d.path} : out'[x] = out[x]
  BY <1>2 DEF C!Put
<1>7. OutInv'
  BY <1>1, <1>5, <1>6, SameSite DEF SiteInv, OutInv
<1>8. DocsInv'
  BY <1>1, <1>3, <1>4, SameSite DEF DocsInv
<1>9. DocFilesInv' /\ PendingInv'
  BY <1>1 DEF SiteInv, DocFilesInv, PendingInv
<1> QED BY <1>1, <1>7, <1>8, <1>9, QueueStays DEF SiteInv

LEMMA EndKeepsSite == ASSUME SiteInv, C!Copied \/ C!CopyFails \/ UNCHANGED siteVars PROVE SiteInv'
<1>1. /\ site' = site /\ docFiles' = docFiles /\ pending' = pending /\ queue' = queue /\ docs' = docs /\ out' = out
      /\ building' = building \/ building' \in {"done", "failed", "cancelled"}
  BY DEF C!Copied, C!CopyFails, siteVars
<1>2. DocFilesInv' /\ PendingInv'
  BY <1>1 DEF SiteInv, DocFilesInv, PendingInv
<1> QED BY <1>1, <1>2, QueueStays, DocsStay, OutStays DEF SiteInv

LEMMA SiteKept == ASSUME NoneIsNoFile, SiteInv, C!Next \/ UNCHANGED siteVars PROVE SiteInv'
BY DiscoverKeepsSite, DiscoveredKeepsSite, CopyKeepsSite, AssetsKeepSite, LoadKeepsSite, ProcessKeepsSite, TransformsKeepSite,
   WriteKeepsSite, EndKeepsSite DEF C!Next

(* What is written shows the properties of the pages.                       *)
LEMMA SitePagesAreRight ==
  ASSUME SiteInv
  PROVE  C!OwnFieldsKept /\ C!HeadingBecomesTitle /\ C!PageIsComplete /\ C!PrivateStaysOut
<1>1. \A p \in C!Pages : p \in DOMAIN out /\ RightPage(p, out[p])
  BY DEF SiteInv, OutInv, C!Pages
<1>2. C!OwnFieldsKept
  BY <1>1 DEF C!OwnFieldsKept, RightPage
<1>3. C!HeadingBecomesTitle
  BY <1>1 DEF C!HeadingBecomesTitle, RightPage
<1>4. C!PageIsComplete
  BY <1>1 DEF C!PageIsComplete, RightPage
<1>5. C!PrivateStaysOut
  BY <1>1 DEF C!PrivateStaysOut, RightPage
<1> QED BY <1>2, <1>3, <1>4, <1>5

(* Whatever files the repositories have, in whatever order they are walked   *)
(* and however often reading or writing fails: a page that is written has all *)
(* fields of the author's front matter as they were, the title of a section's *)
(* index from its heading, the permalink of its uid and the fingerprint of the *)
(* page as it is written, and a public site has only pages whose authors have *)
(* made them public.                                                          *)
THEOREM PagesAreComplete ==
  ASSUME NoneIsNoFile
  PROVE  Spec => []PageIsComplete
<1> DEFINE Inv == part = "site" => SiteInv
<1>1. Init => Inv
  BY SiteStarts DEF Init
<1>2. Inv /\ [Next]_vars => Inv'
  <2>1. ASSUME Inv, [Next]_vars, part' = "site" PROVE SiteInv'
    <3>1. part = "site" /\ (C!Next \/ UNCHANGED siteVars)
      BY <2>1 DEF Next, vars
    <3>2. SiteInv
      BY <2>1, <3>1
    <3> QED BY <3>1, <3>2, SiteKept
  <2> QED BY <2>1
<1>3. Inv => PageIsComplete
  BY SitePagesAreRight DEF PageIsComplete
<1> QED BY <1>1, <1>2, <1>3, PTL DEF Spec

-----------------------------------------------------------------------------
(* Where links lead: names, paths and URLs.                                 *)

(* A name in lower case.                                                    *)
LEMMA LowerIs ==
  ASSUME NEW n \in Names
  PROVE  /\ C!Lower(n) \in Names /\ C!Lower(n).word = n.word /\ C!Lower(n).up = FALSE
         /\ C!Lower(C!Lower(n)) = C!Lower(n) /\ (~n.up => C!Lower(n) = n)
BY DEF Names, C!Lower

(* Directories in lower case, name by name.                                 *)
LEMMA LoweredIs ==
  ASSUME NEW a \in Seq(Names)
  PROVE  /\ C!LowerAll(a) \in Seq(Names) /\ Len(C!LowerAll(a)) = Len(a)
         /\ \A i \in 1..Len(a) : C!LowerAll(a)[i] = C!Lower(a[i])
<1>1. Len(a) \in Nat /\ DOMAIN a = 1..Len(a) /\ \A i \in 1..Len(a) : a[i] \in Names
  OBVIOUS
<1> DEFINE b == C!LowerAll(a)
<1>2. b = [i \in 1..Len(a) |-> C!Lower(a[i])]
  BY <1>1 DEF C!LowerAll
<1>3. \A i \in 1..Len(a) : C!Lower(a[i]) \in Names
  BY <1>1, LowerIs
<1> HIDE DEF Names
<1>4. b \in [1..Len(a) -> Names]
  BY <1>2, <1>3
<1>5. b \in Seq(Names) /\ Len(b) = Len(a)
  BY <1>1, <1>4
<1> QED BY <1>2, <1>5

(* Two sequences of names that agree everywhere are the same.               *)
LEMMA SameNames ==
  ASSUME NEW a \in Seq(Names), NEW b \in Seq(Names), Len(a) = Len(b), \A i \in 1..Len(a) : a[i] = b[i]
  PROVE  a = b
BY SeqEqual

(* Lower case of lower case.                                                *)
LEMMA LowerAgain ==
  ASSUME NEW a \in Seq(Names)
  PROVE  C!LowerAll(C!LowerAll(a)) = C!LowerAll(a) /\ (C!IsLower(a) => C!LowerAll(a) = a)
<1> DEFINE b == C!LowerAll(a)
           c == C!LowerAll(b)
<1>1. b \in Seq(Names) /\ Len(b) = Len(a) /\ \A i \in 1..Len(a) : b[i] = C!Lower(a[i])
  BY LoweredIs
<1>6. \A i \in 1..Len(a) : a[i] \in Names
  OBVIOUS
<1>7. \A i \in 1..Len(a) : C!Lower(C!Lower(a[i])) = C!Lower(a[i]) /\ (~a[i].up => C!Lower(a[i]) = a[i])
  BY <1>6, LowerIs
<1> HIDE DEF b
<1>2. c \in Seq(Names) /\ Len(c) = Len(b) /\ \A i \in 1..Len(b) : c[i] = C!Lower(b[i])
  BY <1>1, LoweredIs
<1> HIDE DEF c
<1>3. \A i \in 1..Len(c) : c[i] = b[i]
  BY <1>1, <1>2, <1>7
<1>4. c = b
  <2>1. c \in Seq(Names)
    BY <1>2
  <2>2. b \in Seq(Names)
    BY <1>1
  <2>3. Len(c) = Len(b)
    BY <1>2
  <2> QED BY <1>3, <2>1, <2>2, <2>3, SameNames
<1>5. ASSUME C!IsLower(a) PROVE b = a
  <2>1. DOMAIN a = 1..Len(a)
    OBVIOUS
  <2>2. \A i \in 1..Len(a) : b[i] = a[i]
    BY <1>1, <1>5, <1>7, <2>1 DEF C!IsLower
  <2>3. b \in Seq(Names)
    BY <1>1
  <2>4. Len(a) = Len(b)
    BY <1>1
  <2> QED BY <2>2, <2>3, <2>4, SameNames
<1> QED BY <1>4, <1>5 DEF b, c

(* Lower case of two directories in a row.                                  *)
LEMMA LowerJoined ==
  ASSUME NEW a \in Seq(Names), NEW b \in Seq(Names)
  PROVE  C!LowerAll(a \o b) = C!LowerAll(a) \o C!LowerAll(b)
<1> DEFINE u == C!LowerAll(a)
           v == C!LowerAll(b)
           w == a \o b
           x == C!LowerAll(w)
           y == u \o v
<1>1. u \in Seq(Names) /\ Len(u) = Len(a) /\ \A i \in 1..Len(a) : u[i] = C!Lower(a[i])
  BY LoweredIs
<1>2. v \in Seq(Names) /\ Len(v) = Len(b) /\ \A i \in 1..Len(b) : v[i] = C!Lower(b[i])
  BY LoweredIs
<1>3. w \in Seq(Names) /\ Len(w) = Len(a) + Len(b) /\ \A i \in 1..(Len(a) + Len(b)) : w[i] = IF i <= Len(a) THEN a[i] ELSE b[i - Len(a)]
  BY ConcatProperties
<1> HIDE DEF u, v, w
<1>4. y \in Seq(Names) /\ Len(y) = Len(u) + Len(v) /\ \A i \in 1..(Len(u) + Len(v)) : y[i] = IF i <= Len(u) THEN u[i] ELSE v[i - Len(u)]
  <2>1. u \in Seq(Names)
    BY <1>1
  <2>2. v \in Seq(Names)
    BY <1>2
  <2> QED BY <2>1, <2>2, ConcatProperties
<1>5. x \in Seq(Names) /\ Len(x) = Len(w) /\ \A i \in 1..Len(w) : x[i] = C!Lower(w[i])
  BY <1>3, LoweredIs
<1> HIDE DEF x, y
<1>8. Len(a) \in Nat /\ Len(b) \in Nat
  OBVIOUS
<1>6. ASSUME NEW i \in 1..Len(x) PROVE x[i] = y[i]
  <2>1. i \in 1..(Len(a) + Len(b)) /\ x[i] = C!Lower(w[i])
    BY <1>3, <1>5
  <2>2. CASE i <= Len(a)
    BY <1>1, <1>2, <1>3, <1>4, <1>8, <2>1, <2>2, SMTT(40)
  <2>3. CASE ~(i <= Len(a))
    <3>1. i - Len(a) \in 1..Len(b) /\ w[i] = b[i - Len(a)] /\ y[i] = v[i - Len(a)]
      BY <1>1, <1>2, <1>3, <1>4, <1>8, <2>1, <2>3
    <3> QED BY <1>2, <2>1, <3>1
  <2> QED BY <2>2, <2>3
<1>7. x = y
  BY <1>1, <1>2, <1>3, <1>4, <1>5, <1>6, SameNames
<1> QED BY <1>7 DEF u, v, w, x, y

LEMMA LowerOne ==
  ASSUME NEW n \in Names
  PROVE  C!LowerAll(<<n>>) = <<C!Lower(n)>> /\ C!LowerAll(<<>>) = <<>> /\ <<n>> \in Seq(Names) /\ <<>> \in Seq(Names)
BY DEF C!LowerAll

(* Two directories in a row.                                                *)
LEMMA NamesJoined ==
  ASSUME NEW a \in Seq(Names), NEW b \in Seq(Names)
  PROVE  /\ a \o b \in Seq(Names) /\ Len(a \o b) = Len(a) + Len(b) /\ <<>> \o a = a /\ a \o <<>> = a
         /\ C!IsLower(a \o b) => C!IsLower(a) /\ C!IsLower(b)
<1> DEFINE w == a \o b
<1>1. w \in Seq(Names) /\ Len(w) = Len(a) + Len(b) /\ \A i \in 1..(Len(a) + Len(b)) : w[i] = IF i <= Len(a) THEN a[i] ELSE b[i - Len(a)]
  BY ConcatProperties
<1>2. <<>> \o a = a /\ a \o <<>> = a
  BY ConcatEmptySeq
<1>3. ASSUME C!IsLower(w) PROVE C!IsLower(a) /\ C!IsLower(b)
  <2> HIDE DEF w
  <2>1. Len(a) \in Nat /\ Len(b) \in Nat /\ DOMAIN a = 1..Len(a) /\ DOMAIN b = 1..Len(b) /\ DOMAIN w = 1..Len(w)
    BY <1>1
  <2>2. \A i \in 1..Len(w) : ~w[i].up
    BY <1>3, <2>1 DEF C!IsLower
  <2>3. ASSUME NEW i \in 1..Len(a) PROVE ~a[i].up
    <3>1. i \in 1..Len(w) /\ w[i] = a[i]
      BY <1>1, <2>1
    <3> QED BY <2>2, <3>1
  <2>4. ASSUME NEW i \in 1..Len(b) PROVE ~b[i].up
    <3>1. i + Len(a) \in 1..Len(w) /\ w[i + Len(a)] = b[i]
      BY <1>1, <2>1, SMTT(30)
    <3> QED BY <2>2, <3>1
  <2> QED BY <2>1, <2>3, <2>4 DEF C!IsLower
<1> QED BY <1>1, <1>2, <1>3

LEMMA NamesAssociate ==
  ASSUME NEW a \in Seq(Names), NEW b \in Seq(Names), NEW c \in Seq(Names)
  PROVE  (a \o b) \o c = a \o (b \o c)
BY ConcatAssociative

(* The ways a rewritten link is put together from the page's and its own.   *)
LEMMA LinkForms ==
  ASSUME NEW x \in Seq(Names), NEW u \in Seq(Names), NEW p \in Seq(Names)
  PROVE  /\ C!LowerAll((x \o C!LowerAll(u)) \o p) = C!LowerAll(x \o (u \o p))
         /\ C!IsLower(p) => C!LowerAll(x \o u) \o p = C!LowerAll(x \o (u \o p))
         /\ C!IsLower(x) /\ C!IsLower(p) => (x \o C!LowerAll(u)) \o p = C!LowerAll(x \o (u \o p))
<1> DEFINE lx == C!LowerAll(x)
           lu == C!LowerAll(u)
           lp == C!LowerAll(p)
           up == u \o p
           xl == x \o lu
           xu == x \o u
<1>1. lx \in Seq(Names) /\ lu \in Seq(Names) /\ lp \in Seq(Names)
  BY LoweredIs
<1>2. up \in Seq(Names) /\ xu \in Seq(Names)
  BY NamesJoined
<1>3. C!LowerAll(lu) = lu /\ (C!IsLower(x) => lx = x) /\ (C!IsLower(p) => lp = p)
  BY LowerAgain
<1>4. C!LowerAll(up) = lu \o lp /\ C!LowerAll(xu) = lx \o lu
  BY LowerJoined
<1>5. C!LowerAll(x \o up) = lx \o C!LowerAll(up)
  <2> HIDE DEF up, lx
  <2> QED BY <1>2, LowerJoined DEF lx
<1>6. xl \in Seq(Names)
  <2> HIDE DEF lu
  <2> QED BY <1>1, NamesJoined
<1>7. C!LowerAll(xl) = lx \o lu
  <2>1. C!LowerAll(xl) = lx \o C!LowerAll(lu)
    <3>1. lu \in Seq(Names)
      BY <1>1
    <3> HIDE DEF lu
    <3> QED BY <3>1, LowerJoined
  <2> QED BY <1>3, <2>1
<1>8. C!LowerAll(xl \o p) = C!LowerAll(xl) \o lp
  <2> HIDE DEF xl
  <2> QED BY <1>6, LowerJoined
<1>9. (lx \o lu) \o lp = lx \o (lu \o lp)
  <2> HIDE DEF lx, lu, lp
  <2> QED BY <1>1, ConcatAssociative, SMTT(40)
<1> HIDE DEF lx, lu, lp, up, xl, xu
<1>10. C!LowerAll(xl \o p) = C!LowerAll(x \o up)
  BY <1>4, <1>5, <1>7, <1>8, <1>9, Zenon
<1>11. C!IsLower(p) => C!LowerAll(xu) \o p = C!LowerAll(x \o up)
  BY <1>3, <1>4, <1>5, <1>9, Zenon
<1>12. C!IsLower(x) /\ C!IsLower(p) => xl \o p = C!LowerAll(x \o up)
  <2>1. xl = x \o lu
    BY DEF xl
  <2> QED BY <1>3, <1>4, <1>5, <1>9, <2>1, Zenon
<1> QED BY <1>10, <1>11, <1>12 DEF lx, lu, lp, up, xl, xu

(* A file as a walk has found it in its repository.                         *)
Located(f) ==
  /\ f.repo \in DOMAIN site.repos /\ f.repo \in Names
  /\ f.forge = IF C!NamespaceForges THEN site.repos[f.repo].forge ELSE None
  /\ f.forge = None \/ f.forge \in Names
  /\ f.base \in Names /\ f.dir \in Seq(Names) /\ f.name \in Names /\ f.asset \in BOOLEAN
  /\ \A k \in DOMAIN f.body.links : IsLink(f.body.links[k])
  /\ \A k \in DOMAIN f.body.images : IsLink(f.body.images[k])

(* What a path begins with, and what of a file comes in a URL after it.     *)
UnderForge(f) == IF f.forge = None THEN <<>> ELSE <<f.forge>>
Root(f) == UnderForge(f) \o (IF C!IsSingleRepo THEN <<>> ELSE <<f.repo>>)
InUrl(dir, name) == IF name.word \in {"readme", "index"} THEN dir ELSE dir \o <<name>>

(* The root of a repository in the site.                                    *)
LEMMA RootIs ==
  ASSUME NEW f, Located(f)
  PROVE  /\ UnderForge(f) \in Seq(Names) /\ Root(f) \in Seq(Names)
         /\ (C!IsSingleRepo => Root(f) = UnderForge(f))
         /\ (~C!IsSingleRepo => Root(f) = UnderForge(f) \o <<f.repo>>)
<1>1. UnderForge(f) \in Seq(Names)
  BY LowerOne DEF UnderForge, Located
<1>2. <<f.repo>> \in Seq(Names)
  BY LowerOne DEF Located
<1>3. UnderForge(f) \o <<>> = UnderForge(f) /\ UnderForge(f) \o <<f.repo>> \in Seq(Names)
  <2> DEFINE a == UnderForge(f)
             b == <<f.repo>>
  <2>1. a \in Seq(Names) /\ b \in Seq(Names)
    BY <1>1, <1>2
  <2> HIDE DEF a, b
  <2>2. a \o <<>> = a /\ a \o b \in Seq(Names)
    BY <2>1, NamesJoined
  <2> QED BY <2>2 DEF a, b
<1> QED BY <1>1, <1>3 DEF Root

(* The directory of a path is all in lower case.                            *)
LEMMA PathDir ==
  ASSUME NEW f, Located(f)
  PROVE  C!GetHugoPath(f).dir = C!LowerAll(Root(f) \o f.dir) /\ Root(f) \o f.dir \in Seq(Names)
<1> DEFINE a == UnderForge(f)
           b == IF C!IsSingleRepo THEN <<>> ELSE <<f.repo>>
           la == IF f.forge = None THEN <<>> ELSE <<C!Lower(f.forge)>>
           lb == IF C!IsSingleRepo THEN <<>> ELSE <<C!Lower(f.repo)>>
<1>1. C!GetHugoPath(f).dir = (la \o lb) \o C!LowerAll(f.dir)
  BY DEF C!GetHugoPath
<1>2. Root(f) = a \o b
  BY DEF Root
<1>3. a \in Seq(Names) /\ C!LowerAll(a) = la
  BY LowerOne DEF UnderForge, Located
<1>4. b \in Seq(Names) /\ C!LowerAll(b) = lb
  BY LowerOne DEF Located
<1>5. f.dir \in Seq(Names)
  BY DEF Located
<1> HIDE DEF a, b, la, lb
<1>6. a \o b \in Seq(Names) /\ C!LowerAll(a \o b) = la \o lb
  BY <1>3, <1>4, LowerJoined, NamesJoined
<1> DEFINE c == a \o b
<1>7. c \in Seq(Names)
  BY <1>6
<1> HIDE DEF c
<1>8. C!LowerAll(c \o f.dir) = C!LowerAll(c) \o C!LowerAll(f.dir) /\ c \o f.dir \in Seq(Names)
  BY <1>5, <1>7, LowerJoined, NamesJoined
<1> QED BY <1>1, <1>2, <1>6, <1>8, Zenon DEF c

(* The URL of a document's page.                                            *)
LEMMA UrlOf ==
  ASSUME NEW g, Located(g), g.asset = FALSE, g.name.word # "_index"
  PROVE  C!Url(C!PathOf(g)) = C!LowerAll(Root(g) \o InUrl(g.dir, g.name))
<1> DEFINE p == C!GetHugoPath(g)
           q == C!PathOf(g)
           x == Root(g)
           xd == x \o g.dir
<1>0. x \in Seq(Names) /\ g.dir \in Seq(Names) /\ <<g.name>> \in Seq(Names) /\ g.name \in Names
  BY RootIs, LowerOne DEF Located
<1>1. p.dir = C!LowerAll(xd) /\ xd \in Seq(Names)
  BY PathDir
<1>2. q.dir = p.dir /\ q.asset = FALSE /\ q.name = IF g.name.word \in {"readme", "index"} THEN C!IndexName ELSE C!Lower(g.name)
  BY DEF C!PathOf, C!NormalizeIndexFiles, C!NewDocumentFromDocFile, C!GetHugoPath
<1>3. C!LowerAll(C!LowerAll(xd)) = C!LowerAll(xd)
  <2> HIDE DEF xd
  <2> QED BY <1>1, LowerAgain
<1>4. C!LowerAll(<<g.name>>) = <<C!Lower(g.name)>>
  BY <1>0, LowerOne
<1>5. C!Url(q) = C!LowerAll(IF q.name = C!IndexName THEN q.dir ELSE q.dir \o <<q.name>>)
  BY <1>2 DEF C!Url
<1> HIDE DEF p, q
<1>6. CASE g.name.word \in {"readme", "index"}
  <2>1. C!Url(q) = C!LowerAll(q.dir) /\ InUrl(g.dir, g.name) = g.dir
    BY <1>2, <1>5, <1>6 DEF InUrl
  <2> HIDE DEF xd
  <2>2. C!Url(q) = C!LowerAll(xd)
    BY <1>1, <1>2, <1>3, <2>1
  <2> QED BY <2>1, <2>2 DEF xd, q
<1>7. CASE g.name.word \notin {"readme", "index"}
  <2>1. q.name = C!Lower(g.name) /\ q.name # C!IndexName
    <3>1. C!Lower(g.name).word = g.name.word
      BY <1>0, LowerIs
    <3> QED BY <1>2, <1>7, <3>1 DEF C!IndexName
  <2> DEFINE n == <<g.name>>
             ln == C!LowerAll(n)
             ld == C!LowerAll(xd)
  <2>2. C!Url(q) = C!LowerAll(ld \o ln)
    BY <1>1, <1>2, <1>4, <1>5, <2>1
  <2>3. C!LowerAll(ld \o ln) = C!LowerAll(ld) \o C!LowerAll(ln)
    <3>1. ld \in Seq(Names)
      <4> HIDE DEF xd
      <4> QED BY <1>1, LoweredIs
    <3>2. ln \in Seq(Names)
      <4>1. n \in Seq(Names)
        BY <1>0
      <4> HIDE DEF n
      <4> QED BY <4>1, LoweredIs
    <3> HIDE DEF ld, ln
    <3> QED BY <3>1, <3>2, LowerJoined
  <2>4. C!LowerAll(ln) = ln
    <3>1. n \in Seq(Names)
      BY <1>0
    <3> HIDE DEF n
    <3> QED BY <3>1, LowerAgain
  <2>5. C!LowerAll(xd \o n) = ld \o ln
    <3>1. n \in Seq(Names) /\ xd \in Seq(Names)
      BY <1>0, <1>1
    <3> HIDE DEF n, xd
    <3> QED BY <3>1, LowerJoined
  <2>6. xd \o n = x \o (g.dir \o n)
    <3>1. n \in Seq(Names)
      BY <1>0
    <3>2. x \in Seq(Names)
      BY <1>0
    <3>4. g.dir \in Seq(Names)
      BY <1>0
    <3> HIDE DEF n, x
    <3>3. (x \o g.dir) \o n = x \o (g.dir \o n)
      BY <3>1, <3>2, <3>4, NamesAssociate, Zenon
    <3> QED BY <3>3
  <2>7. InUrl(g.dir, g.name) = g.dir \o n
    BY <1>7 DEF InUrl
  <2> HIDE DEF n, ln, ld, xd, x
  <2>8. C!LowerAll(ld) = ld
    BY <1>3 DEF ld
  <2>9. C!Url(q) = C!LowerAll(x \o InUrl(g.dir, g.name))
    BY <2>2, <2>3, <2>4, <2>5, <2>6, <2>7, <2>8, Zenon
  <2> QED BY <2>9 DEF x, q
<1> QED BY <1>6, <1>7

(* What a link of a page names, below the root of the repository.           *)
Above(f, l) == IF l.abs THEN <<>> ELSE SubSeq(f.dir, 1, Len(f.dir) - l.ups)

(* A document where its file was found.                                     *)
Stands(d, f) ==
  /\ d.repo = f.repo /\ d.forge = f.forge /\ d.dir = f.dir /\ (d.isIndex <=> C!IsIndexFileName(f.name))
  /\ d.path.dir = C!LowerAll(Root(f) \o f.dir)

(* What is above the target of a link.                                      *)
LEMMA AboveIs ==
  ASSUME NEW f, Located(f), NEW l, IsLink(l), l.ups <= Len(f.dir)
  PROVE  /\ Above(f, l) \in Seq(Names)
         /\ ~l.abs /\ l.ups = 0 => Above(f, l) = f.dir
         /\ l.abs \/ l.ups = Len(f.dir) => Above(f, l) = <<>>
<1> DEFINE a == f.dir
           n == Len(a) - l.ups
<1>1. a \in Seq(Names) /\ l.ups \in Nat /\ n \in 0..Len(a) /\ l.abs \in BOOLEAN
  BY DEF Located, IsLink
<1> HIDE DEF a
<1>2. <<>> \in Seq(Names)
  OBVIOUS
<1>3. SubSeq(a, 1, n) \in Seq(Names) /\ (n = 0 => SubSeq(a, 1, n) = <<>>) /\ (n = Len(a) => SubSeq(a, 1, n) = a)
  BY <1>1, SubSeqFull
<1>4. Above(f, l) = IF l.abs THEN <<>> ELSE SubSeq(a, 1, n)
  BY DEF Above, a
<1>5. (l.ups = 0 => n = Len(a)) /\ (l.ups = Len(a) => n = 0)
  BY <1>1
<1> HIDE DEF n
<1>6. /\ Above(f, l) \in Seq(Names)
      /\ ~l.abs /\ l.ups = 0 => Above(f, l) = a
      /\ l.abs \/ l.ups = Len(a) => Above(f, l) = <<>>
  BY <1>1, <1>2, <1>3, <1>4, <1>5
<1> QED BY <1>6 DEF a

(* The directory of a page below its root.                                  *)
LEMMA Extracted ==
  ASSUME NEW f, Located(f), NEW d, Stands(d, f)
  PROVE  /\ C!IsSingleRepo => C!ExtractDirectory(d) = C!LowerAll(Root(f) \o f.dir)
         /\ ~C!IsSingleRepo => C!ExtractDirectory(d) = C!LowerAll(f.dir)
<1> DEFINE x == Root(f)
           lx == C!LowerAll(x)
           lu == C!LowerAll(f.dir)
           w == lx \o lu
           skip == IF C!IsSingleRepo THEN 0 ELSE IF d.forge # None THEN 2 ELSE 1
<1>1. x \in Seq(Names) /\ f.dir \in Seq(Names)
  BY RootIs DEF Located
<1>2. lx \in Seq(Names) /\ Len(lx) = Len(x)
  <2> HIDE DEF x
  <2> QED BY <1>1, LoweredIs
<1>3. lu \in Seq(Names)
  BY <1>1, LoweredIs
<1>4. d.path.dir = w
  <2>1. C!LowerAll(x \o f.dir) = w
    <3> HIDE DEF x
    <3> QED BY <1>1, LowerJoined
  <2> QED BY <2>1 DEF Stands
<1>5. C!ExtractDirectory(d) = SubSeq(w, skip + 1, Len(w))
  BY <1>4, Zenon DEF C!ExtractDirectory
<1>6. ~C!IsSingleRepo => Len(x) = skip
  <2>1. ~C!IsSingleRepo => x = UnderForge(f) \o <<f.repo>>
    BY RootIs
  <2>2. Len(UnderForge(f)) = (IF d.forge # None THEN 1 ELSE 0) /\ UnderForge(f) \in Seq(Names)
    BY RootIs DEF Stands, UnderForge
  <2>3. <<f.repo>> \in Seq(Names) /\ Len(<<f.repo>>) = 1
    BY LowerOne DEF Located
  <2> DEFINE a == UnderForge(f)
             b == <<f.repo>>
  <2>4. a \in Seq(Names) /\ b \in Seq(Names) /\ Len(a) = (IF d.forge # None THEN 1 ELSE 0) /\ Len(b) = 1
    BY <2>2, <2>3
  <2> HIDE DEF a, b, x
  <2>5. Len(a \o b) = Len(a) + Len(b)
    BY <2>4, NamesJoined
  <2>6. ~C!IsSingleRepo => x = a \o b
    BY <2>1 DEF a, b
  <2> QED BY <2>4, <2>5, <2>6
<1>7. w \in Seq(Names) /\ Len(w) = Len(lx) + Len(lu) /\ \A i \in 1..(Len(lx) + Len(lu)) : w[i] = IF i <= Len(lx) THEN lx[i] ELSE lu[i - Len(lx)]
  <2>1. lx \in Seq(Names)
    BY <1>2
  <2> HIDE DEF lx, lu
  <2> QED BY <1>3, <2>1, ConcatProperties
<1>8. C!IsSingleRepo => SubSeq(w, skip + 1, Len(w)) = w
  <2> HIDE DEF w
  <2>1. SubSeq(w, 1, Len(w)) = w
    BY <1>7, SubSeqFull
  <2>2. C!IsSingleRepo => skip = 0
    OBVIOUS
  <2> QED BY <2>1, <2>2
<1>9. ASSUME ~C!IsSingleRepo PROVE SubSeq(w, skip + 1, Len(w)) = lu
  <2>1. Len(lx) = skip /\ skip \in Nat /\ Len(lu) \in Nat
    BY <1>2, <1>3, <1>6, <1>9
  <2> DEFINE v == SubSeq(w, skip + 1, Len(w))
  <2> HIDE DEF w, lx, lu, skip
  <2>2. v \in Seq(Names) /\ Len(v) = Len(lu) /\ \A i \in 1..Len(lu) : v[i] = w[skip + i]
    BY <1>7, <2>1
  <2>3. \A i \in 1..Len(v) : v[i] = lu[i]
    BY <1>7, <2>1, <2>2
  <2>4. v \in Seq(Names)
    BY <2>2
  <2>5. Len(v) = Len(lu)
    BY <2>2
  <2> HIDE DEF v
  <2>6. v = lu
    BY <1>3, <2>3, <2>4, <2>5, SameNames
  <2> QED BY <2>6 DEF v
<1> HIDE DEF w, lx, lu, skip
<1>10. ~C!IsSingleRepo => C!ExtractDirectory(d) = lu
  BY <1>5, <1>9
<1>11. C!IsSingleRepo => C!ExtractDirectory(d) = d.path.dir
  BY <1>4, <1>5, <1>8
<1> QED BY <1>10, <1>11 DEF lu, Stands

(* Two directories in lower case are one.                                   *)
LEMMA LowerBoth ==
  ASSUME NEW a \in Seq(Names), NEW b \in Seq(Names), C!IsLower(a), C!IsLower(b)
  PROVE  C!IsLower(a \o b)
<1> DEFINE w == a \o b
<1>1. w \in Seq(Names) /\ Len(w) = Len(a) + Len(b) /\ \A i \in 1..(Len(a) + Len(b)) : w[i] = IF i <= Len(a) THEN a[i] ELSE b[i - Len(a)]
  BY ConcatProperties
<1> HIDE DEF w
<1>2. Len(a) \in Nat /\ Len(b) \in Nat /\ DOMAIN a = 1..Len(a) /\ DOMAIN b = 1..Len(b) /\ DOMAIN w = 1..Len(w)
  BY <1>1
<1>3. ASSUME NEW i \in DOMAIN w PROVE ~w[i].up
  <2>1. CASE i <= Len(a)
    BY <1>1, <1>2, <2>1 DEF C!IsLower
  <2>2. CASE ~(i <= Len(a))
    <3>1. i - Len(a) \in DOMAIN b /\ w[i] = b[i - Len(a)]
      BY <1>1, <1>2, <2>2
    <3> QED BY <3>1 DEF C!IsLower
  <2> QED BY <2>1, <2>2
<1>4. C!IsLower(w)
  BY <1>3 DEF C!IsLower
<1> QED BY <1>4 DEF w

(* The links that are known to lead elsewhere.                              *)
Exempt(f, l) ==
  \/ l.ups > 0 /\ l.ups # Len(f.dir)
  \/ l.name.word = "_index" \/ (C!LinkPath(l) = <<l.name>> /\ C!IsIndexFileName(l.name))
  \/ /\ ~l.abs /\ (C!IsSingleRepo \/ l.ups > 0 \/ C!IsIndexFileName(f.name))
     /\ ~C!IsLower(l.dir \o <<l.name, f.repo>> \o (IF f.forge = None THEN <<>> ELSE <<f.forge>>))
  \/ C!IsSingleRepo /\ f.forge # None /\ (l.abs \/ l.ups > 0)

(* What the link names.                                                     *)
LEMMA LinkPathIs ==
  ASSUME NEW f, NEW l, IsLink(l), ~Exempt(f, l)
  PROVE  C!LinkPath(l) = InUrl(l.dir, l.name) /\ C!LinkPath(l) \in Seq(Names)
<1>1. l.dir \in Seq(Names) /\ <<l.name>> \in Seq(Names) /\ l.name \in Names
  BY LowerOne DEF IsLink
<1> DEFINE a == l.dir
           n == <<l.name>>
           cond == l.dir # <<>> \/ l.ups > 0 \/ l.abs
           word == l.name.word
           joined == a \o n
           path == C!LinkPath(l)
<1>2. path = (IF word \in {"readme", "index"} /\ cond THEN a ELSE joined) /\ InUrl(l.dir, l.name) = (IF word \in {"readme", "index"} THEN a ELSE joined)
  BY DEF C!LinkPath, InUrl
<1>3. <<>> \o n = n /\ joined \in Seq(Names)
  <2>1. n \in Seq(Names)
    BY <1>1
  <2>2. a \in Seq(Names)
    BY <1>1
  <2> HIDE DEF n, a
  <2> QED BY <2>1, <2>2, NamesJoined
<1>4. word \in {"readme", "index"} => cond
  <2>1. ASSUME word \in {"readme", "index"}, ~cond PROVE FALSE
    <3>1. path = joined /\ a = <<>>
      BY <1>2, <2>1
    <3>2. path = n
      <4> HIDE DEF n, path
      <4> QED BY <1>3, <3>1
    <3>3. C!IsIndexFileName(l.name)
      BY <2>1 DEF C!IsIndexFileName
    <3> QED BY <3>2, <3>3 DEF Exempt
  <2> QED BY <2>1
<1>5. a \in Seq(Names)
  BY <1>1
<1> HIDE DEF cond, joined, a, word, path
<1>6. path = InUrl(l.dir, l.name) /\ path \in Seq(Names)
  BY <1>2, <1>3, <1>4, <1>5
<1> QED BY <1>6 DEF path

(* Where the case of a link is kept, all of it is lower case.               *)
LEMMA LinkIsLower ==
  ASSUME NEW f, Located(f), NEW l, IsLink(l), ~Exempt(f, l), ~l.abs, C!IsSingleRepo \/ l.ups > 0 \/ C!IsIndexFileName(f.name)
  PROVE  C!IsLower(C!LinkPath(l)) /\ C!IsLower(Root(f))
<1> DEFINE a == l.dir
           b == <<l.name, f.repo>>
           c == UnderForge(f)
           ab == a \o b
           n == <<l.name>>
           r == <<f.repo>>
<1>1. C!IsLower(ab \o c)
  BY DEF Exempt, UnderForge
<1>2. a \in Seq(Names) /\ b \in Seq(Names) /\ n \in Seq(Names) /\ r \in Seq(Names)
  BY LowerOne DEF IsLink, Located
<1>3. c \in Seq(Names)
  BY RootIs
<1>4. C!IsLower(ab) /\ C!IsLower(c)
  <2>1. ab \in Seq(Names)
    <3> HIDE DEF a, b
    <3> QED BY <1>2, NamesJoined
  <2> HIDE DEF ab, c
  <2> QED BY <1>1, <1>3, <2>1, NamesJoined
<1>5. C!IsLower(a) /\ C!IsLower(b)
  <2> HIDE DEF a, b
  <2> QED BY <1>2, <1>4, NamesJoined
<1>6. C!IsLower(n) /\ C!IsLower(r)
  BY <1>5 DEF C!IsLower
<1>7. C!IsLower(a \o n)
  <2> HIDE DEF a, n
  <2> QED BY <1>2, <1>5, <1>6, LowerBoth
<1>8. C!IsLower(c \o r)
  <2> HIDE DEF c, r
  <2> QED BY <1>2, <1>3, <1>4, <1>6, LowerBoth
<1>9. C!IsLower(C!LinkPath(l))
  <2>1. C!LinkPath(l) = a \/ C!LinkPath(l) = a \o n
    BY DEF C!LinkPath
  <2> HIDE DEF a, n
  <2> QED BY <1>5, <1>7, <2>1
<1>10. Root(f) = c \/ Root(f) = c \o r
  BY RootIs
<1> HIDE DEF c, r
<1> QED BY <1>4, <1>8, <1>9, <1>10

(* A file that a link of another one names.                                 *)
IsTarget(f, l, g) ==
  /\ Located(g) /\ g.repo = f.repo /\ l.ups <= Len(f.dir) /\ g.name = l.name
  /\ g.dir = IF l.abs THEN l.dir ELSE SubSeq(f.dir, 1, Len(f.dir) - l.ups) \o l.dir

(* The target of a link from the root of its repository.                    *)
LEMMA TargetIs ==
  ASSUME NEW f, Located(f), NEW l, IsLink(l), NEW g, IsTarget(f, l, g)
  PROVE  g.dir = Above(f, l) \o l.dir /\ Root(g) = Root(f)
<1>1. Root(g) = Root(f)
  BY DEF Root, UnderForge, IsTarget, Located
<1>2. <<>> \o l.dir = l.dir
  BY NamesJoined DEF IsLink
<1> QED BY <1>1, <1>2 DEF IsTarget, Above

(* A link that is not exempt is rewritten to the URL of its target.         *)
LEMMA LinkLeads ==
  ASSUME NEW f, Located(f), NEW l, IsLink(l), NEW g, IsTarget(f, l, g), g.asset = FALSE, ~Exempt(f, l), NEW d, Stands(d, f)
  PROVE  C!RewriteLinkPath(d, l) = C!Url(C!PathOf(g))
<1> DEFINE p == C!LinkPath(l)
           u == Above(f, l)
           x == Root(f)
           url == C!LowerAll(x \o (u \o p))
           dir == C!ExtractDirectory(d)
           to == C!RewriteLinkPath(d, l)
<1>1. p \in Seq(Names) /\ p = InUrl(l.dir, l.name)
  BY LinkPathIs
<1>2. x \in Seq(Names) /\ f.dir \in Seq(Names)
  BY RootIs DEF Located
<1>3. l.ups <= Len(f.dir) /\ l.ups \in Nat /\ l.abs \in BOOLEAN /\ l.dir \in Seq(Names) /\ <<l.name>> \in Seq(Names)
  BY LowerOne DEF IsTarget, IsLink
<1>4. /\ u \in Seq(Names)
      /\ ~l.abs /\ l.ups = 0 => u = f.dir
      /\ l.abs \/ l.ups = Len(f.dir) => u = <<>>
  BY <1>3, AboveIs
<1>5. C!Url(C!PathOf(g)) = url
  <2>1. Located(g) /\ g.name.word # "_index" /\ g.name = l.name
    BY DEF IsTarget, Exempt
  <2>2. C!Url(C!PathOf(g)) = C!LowerAll(Root(g) \o InUrl(g.dir, g.name))
    BY <2>1, UrlOf
  <2>3. InUrl(g.dir, l.name) = u \o p
    <3> DEFINE a == l.dir
               n == <<l.name>>
    <3>1. g.dir = u \o a
      BY TargetIs
    <3>2. InUrl(g.dir, l.name) = (IF l.name.word \in {"readme", "index"} THEN g.dir ELSE g.dir \o n)
      BY DEF InUrl
    <3>3. p = (IF l.name.word \in {"readme", "index"} THEN a ELSE a \o n)
      BY <1>1 DEF InUrl
    <3>4. (u \o a) \o n = u \o (a \o n)
      <4>1. a \in Seq(Names)
        BY <1>3
      <4>2. n \in Seq(Names)
        BY <1>3
      <4>3. u \in Seq(Names)
        BY <1>4
      <4> HIDE DEF a, n, u
      <4> QED BY <4>1, <4>2, <4>3, NamesAssociate
    <3> HIDE DEF a, n, u, p
    <3> QED BY <3>1, <3>2, <3>3, <3>4
  <2>4. Root(g) = x
    BY TargetIs
  <2> HIDE DEF u, p, x
  <2> QED BY <2>1, <2>2, <2>3, <2>4
<1>6. /\ C!IsSingleRepo => dir = C!LowerAll(x \o f.dir)
      /\ ~C!IsSingleRepo => dir = C!LowerAll(f.dir)
  BY Extracted
<1>7. /\ ~C!IsSingleRepo => C!RepoRoot(d) = x
      /\ C!IsSingleRepo /\ f.forge = None => x = <<>>
  BY RootIs DEF C!RepoRoot, Stands, UnderForge
<1>8. ~l.abs /\ (C!IsSingleRepo \/ l.ups > 0 \/ C!IsIndexFileName(f.name)) => C!IsLower(p) /\ C!IsLower(x)
  BY <1>3, LinkIsLower
<1>9. d.isIndex <=> C!IsIndexFileName(f.name)
  BY DEF Stands
<1>10. C!IsSingleRepo /\ (l.abs \/ l.ups > 0) => f.forge = None
  BY DEF Exempt
<1>11. l.ups > 0 => l.ups = Len(f.dir)
  BY DEF Exempt
<1>12. <<>> \o p = p /\ x \o <<>> = x
  <2> HIDE DEF p, x
  <2> QED BY <1>1, <1>2, NamesJoined
<1> HIDE DEF p, u, x
<1>13. C!IsLower(p) => C!LowerAll(p) = p
  BY <1>1, LowerAgain
<1>14. CASE l.abs
  <2>1. CASE C!IsSingleRepo
    <3>1. to = C!LowerAll(p)
      BY <1>14, <2>1 DEF C!RewriteLinkPath, p
    <3>2. x = <<>> /\ u = <<>>
      BY <1>4, <1>7, <1>10, <1>14, <2>1
    <3>3. x \o (u \o p) = p
      BY <1>12, <3>2
    <3> QED BY <1>5, <3>1, <3>3
  <2>2. CASE ~C!IsSingleRepo
    <3>1. to = C!LowerAll((C!RepoRoot(d) \o <<>>) \o p)
      BY <1>14, <2>2 DEF C!RewriteLinkPath, C!BuildFullPath, p
    <3>2. (C!RepoRoot(d) \o <<>>) \o p = x \o p
      BY <1>7, <1>12, <2>2
    <3>3. u \o p = p
      BY <1>4, <1>12, <1>14
    <3> QED BY <1>5, <3>1, <3>2, <3>3
  <2> QED BY <2>1, <2>2
<1>15. CASE ~l.abs /\ l.ups > 0
  <2>0. C!IsLower(p) /\ C!IsLower(x) /\ u = <<>>
    BY <1>4, <1>8, <1>11, <1>15
  <2>3. u \o p = p
    BY <1>12, <2>0
  <2>4. C!LowerAll(x \o p) = x \o p
    <3>1. x \o p \in Seq(Names)
      BY <1>1, <1>2, NamesJoined
    <3>2. C!IsLower(x \o p)
      BY <1>1, <1>2, <2>0, LowerBoth
    <3> DEFINE w == x \o p
    <3> HIDE DEF w
    <3>3. w \in Seq(Names) /\ C!IsLower(w)
      BY <3>1, <3>2 DEF w
    <3>4. C!LowerAll(w) = w
      BY <3>3, LowerAgain
    <3> QED BY <3>4 DEF w
  <2>1. CASE C!IsSingleRepo
    <3>1. to = p
      BY <1>15, <2>1 DEF C!RewriteLinkPath, C!HandleParentDirNavigation, p
    <3>2. x \o p = p
      BY <1>7, <1>10, <1>12, <1>15, <2>1
    <3> QED BY <1>5, <2>3, <2>4, <3>1, <3>2
  <2>2. CASE ~C!IsSingleRepo
    <3>1. to = C!RepoRoot(d) \o p
      BY <1>15, <2>2 DEF C!RewriteLinkPath, C!HandleParentDirNavigation, p
    <3> QED BY <1>5, <1>7, <2>2, <2>3, <2>4, <3>1
  <2> QED BY <2>1, <2>2
<1>16. CASE ~l.abs /\ ~(l.ups > 0)
  <2>0. u = f.dir
    BY <1>3, <1>4, <1>16
  <2>1. /\ C!LowerAll((x \o C!LowerAll(u)) \o p) = url
        /\ C!IsLower(p) => C!LowerAll(x \o u) \o p = url
        /\ C!IsLower(x) /\ C!IsLower(p) => (x \o C!LowerAll(u)) \o p = url
    <3>1. u \in Seq(Names)
      BY <1>4
    <3>2. url = C!LowerAll(x \o (u \o p))
      BY <1>5
    <3> HIDE DEF u, p, url
    <3>3. /\ C!LowerAll((x \o C!LowerAll(u)) \o p) = C!LowerAll(x \o (u \o p))
          /\ C!IsLower(p) => C!LowerAll(x \o u) \o p = C!LowerAll(x \o (u \o p))
          /\ C!IsLower(x) /\ C!IsLower(p) => (x \o C!LowerAll(u)) \o p = C!LowerAll(x \o (u \o p))
      BY <1>1, <1>2, <3>1, LinkForms, ZenonT(90)
    <3> QED BY <3>2, <3>3, Zenon
  <2>2. CASE C!IsSingleRepo
    <3>1. to = dir \o p
      BY <1>16, <2>2 DEF C!RewriteLinkPath, p
    <3>2. dir = C!LowerAll(x \o u)
      BY <1>6, <2>0, <2>2
    <3> HIDE DEF url, dir
    <3> QED BY <1>5, <1>8, <1>16, <2>1, <2>2, <3>1, <3>2
  <2>3. CASE ~C!IsSingleRepo /\ d.isIndex /\ dir # <<>>
    <3>1. to = (C!RepoRoot(d) \o dir) \o p
      BY <1>16, <2>3 DEF C!RewriteLinkPath, p
    <3>2. dir = C!LowerAll(u) /\ C!RepoRoot(d) = x
      BY <1>6, <1>7, <2>0, <2>3
    <3>3. C!IsLower(p) /\ C!IsLower(x)
      BY <1>8, <1>9, <1>16, <2>3
    <3> HIDE DEF url, dir
    <3> QED BY <1>5, <2>1, <3>1, <3>2, <3>3
  <2>4. CASE ~C!IsSingleRepo /\ ~(d.isIndex /\ dir # <<>>)
    <3>1. to = C!LowerAll((C!RepoRoot(d) \o dir) \o p)
      BY <1>16, <2>4 DEF C!RewriteLinkPath, C!BuildFullPath, p
    <3>2. dir = C!LowerAll(u) /\ C!RepoRoot(d) = x
      BY <1>6, <1>7, <2>0, <2>4
    <3> HIDE DEF url, dir
    <3> QED BY <1>5, <2>1, <3>1, <3>2
  <2> QED BY <2>2, <2>3, <2>4
<1> QED BY <1>14, <1>15, <1>16

(* An image is rewritten to the URL of its asset.                           *)
LEMMA ImageLeads ==
  ASSUME NEW f, Located(f), NEW l, IsLink(l), NEW g, IsTarget(f, l, g), g.asset, C!IsSingleRepo = l.abs,
         C!IsSingleRepo => f.forge = None, g.name.word # "index", NEW d, Stands(d, f)
  PROVE  C!RewriteImagePath(d, l) = C!Url(C!GetHugoPath(g))
<1> DEFINE a == l.dir
           n == <<l.name>>
           u == Above(f, l)
           x == Root(f)
           xd == x \o g.dir
           ld == C!LowerAll(xd)
           ln == C!LowerAll(n)
           q == C!GetHugoPath(g)
           to == C!RewriteImagePath(d, l)
<1>1. x \in Seq(Names) /\ a \in Seq(Names) /\ n \in Seq(Names) /\ ln = <<C!Lower(l.name)>>
  BY RootIs, LowerOne DEF IsLink
<1>2. l.ups <= Len(f.dir) /\ l.ups \in Nat /\ l.abs \in BOOLEAN /\ Len(f.dir) \in Nat
  BY DEF IsTarget, IsLink, Located
<1>3. u \in Seq(Names) /\ (l.abs => u = <<>>)
  BY <1>2, AboveIs
<1>4. g.dir = u \o a /\ Root(g) = x /\ g.name = l.name /\ Located(g)
  BY TargetIs DEF IsTarget
<1>5. q.dir = ld /\ xd \in Seq(Names)
  BY <1>4, PathDir
<1>6. q.asset /\ q.name = C!Lower(l.name)
  BY <1>4 DEF C!GetHugoPath
<1>7. C!Url(q) = C!LowerAll(ld \o ln)
  BY <1>1, <1>5, <1>6 DEF C!Url
<1> HIDE DEF q
<1>8. C!LowerAll(ld \o ln) = C!LowerAll(xd \o n)
  <2>0. xd \in Seq(Names) /\ n \in Seq(Names)
    BY <1>1, <1>5
  <2> HIDE DEF xd, n
  <2>1. ld \in Seq(Names) /\ ln \in Seq(Names)
    BY <2>0, LoweredIs
  <2>2. C!LowerAll(ld) = ld /\ C!LowerAll(ln) = ln
    BY <2>0, LowerAgain
  <2>3. C!LowerAll(xd \o n) = ld \o ln
    BY <2>0, LowerJoined
  <2> HIDE DEF ld, ln
  <2>4. C!LowerAll(ld \o ln) = C!LowerAll(ld) \o C!LowerAll(ln)
    BY <2>1, LowerJoined
  <2> QED BY <2>2, <2>3, <2>4
<1>9. xd \o n = (x \o u) \o (a \o n) /\ <<>> \o (a \o n) = a \o n /\ <<>> \o <<>> = <<>>
  <2>1. x \in Seq(Names)
    BY <1>1
  <2>2. a \in Seq(Names)
    BY <1>1
  <2>3. n \in Seq(Names)
    BY <1>1
  <2>4. u \in Seq(Names)
    BY <1>3
  <2> HIDE DEF x, a, n, u
  <2> DEFINE xu == x \o u
  <2>5. x \o (u \o a) = xu \o a
    BY <2>1, <2>2, <2>4, NamesAssociate, SMTT(30)
  <2>6. xu \in Seq(Names)
    BY <2>1, <2>4, NamesJoined
  <2>10. a \o n \in Seq(Names)
    BY <2>2, <2>3, NamesJoined
  <2> HIDE DEF xu
  <2>7. (xu \o a) \o n = xu \o (a \o n)
    BY <2>2, <2>3, <2>6, NamesAssociate, SMTT(30)
  <2>8. <<>> \o (a \o n) = a \o n
    <3> DEFINE b == a \o n
    <3>1. b \in Seq(Names)
      BY <2>10
    <3> HIDE DEF b
    <3>2. <<>> \o b = b
      BY <3>1, NamesJoined
    <3> QED BY <3>2 DEF b
  <2>9. <<>> \o <<>> = <<>>
    OBVIOUS
  <2> QED BY <1>4, <2>5, <2>7, <2>8, <2>9 DEF xu
<1> HIDE DEF xd, ld, ln
<1>10. CASE l.abs
  <2>1. to = C!LowerAll(a \o n)
    BY <1>10 DEF C!RewriteImagePath
  <2>2. x = <<>> /\ u = <<>>
    BY <1>3, <1>10, RootIs DEF UnderForge
  <2> HIDE DEF x, a, n, u
  <2>3. xd \o n = a \o n
    BY <1>9, <2>2
  <2> QED BY <1>7, <1>8, <2>1, <2>3 DEF q
<1>11. CASE ~l.abs
  <2> DEFINE m == Len(d.dir) - l.ups
             k == IF m < 0 THEN 0 ELSE m
  <2>1. to = C!LowerAll((C!RepoRoot(d) \o SubSeq(d.dir, 1, k)) \o (a \o n))
    BY <1>11 DEF C!RewriteImagePath, C!BuildFullPath
  <2>2. d.dir = f.dir /\ k = Len(f.dir) - l.ups
    BY <1>2 DEF Stands
  <2>3. SubSeq(d.dir, 1, k) = u
    BY <1>11, <2>2 DEF Above
  <2>4. C!RepoRoot(d) = x
    BY <1>11, RootIs DEF C!RepoRoot, Stands, UnderForge
  <2> HIDE DEF x, a, n, u, k
  <2> QED BY <1>7, <1>8, <1>9, <2>1, <2>3, <2>4 DEF q
<1> QED BY <1>2, <1>10, <1>11

-----------------------------------------------------------------------------
(* What the transforms leave alone.                                         *)
Lasting == {"gen", "src", "path", "name", "isIndex", "repo", "forge", "dir", "links", "images", "edit", "raw"}
Lasts(d, e) == IsDocument(e) /\ \A x \in Lasting : e[x] = d[x]

(* Transforms that set the front matter, the heading or the badge.          *)
LEMMA PartLasts ==
  ASSUME NEW d, IsDocument(d), NEW k \in {"fm", "h1", "badge"}, NEW v, NEW e, e = [d EXCEPT ![k] = v]
  PROVE  Lasts(d, e)
<1>1. k \in Parts /\ Lasting \subseteq Parts \ {k}
  BY DEF Parts, Lasting
<1>3. k \in Parts
  BY <1>1
<1>2. IsDocument(e) /\ \A x \in Parts \ {k} : e[x] = d[x]
  BY <1>3 DEF IsDocument
<1> QED BY <1>1, <1>2 DEF Lasts

LEMMA FieldLasts ==
  ASSUME NEW d, IsDocument(d), NEW k, NEW v, NEW e, e = [d EXCEPT !.fm[k] = v]
  PROVE  Lasts(d, e)
<1>1. e = [d EXCEPT !["fm"] = [d.fm EXCEPT ![k] = v]]
  OBVIOUS
<1> QED BY <1>1, PartLasts

LEMMA LastsOn ==
  ASSUME NEW d, NEW e, NEW f, Lasts(d, e), Lasts(e, f)
  PROVE  Lasts(d, f)
BY DEF Lasts

LEMMA MissingLasts ==
  ASSUME NEW d, IsDocument(d), NEW k, NEW e, e = C!SetIfMissing(d, k)
  PROVE  Lasts(d, e)
<1>1. CASE d.fm[k] = "none"
  <2>1. e = [d EXCEPT !.fm[k] = "tool"]
    BY <1>1 DEF C!SetIfMissing
  <2> QED BY <2>1, FieldLasts
<1>2. CASE d.fm[k] # "none"
  BY <1>2 DEF C!SetIfMissing, Lasts
<1> QED BY <1>1, <1>2

LEMMA TitleLasts ==
  ASSUME NEW d, IsDocument(d)
  PROVE  /\ Lasts(d, C!ParseFrontMatter(d)) /\ Lasts(d, C!ExtractH1AsTitle(d)) /\ Lasts(d, C!ExtractIndexTitle(d))
         /\ Lasts(d, C!StripHeading(d)) /\ Lasts(d, C!AddRepositoryMetadata(d)) /\ Lasts(d, C!InjectPermalink(d))
<1>0. Lasts(d, d)
  BY DEF Lasts
<1>1. Lasts(d, C!ParseFrontMatter(d))
  <2>1. C!ParseFrontMatter(d) = d \/ \E v : C!ParseFrontMatter(d) = [d EXCEPT !["fm"] = v]
    BY DEF C!ParseFrontMatter
  <2> QED BY <1>0, <2>1, PartLasts
<1>2. Lasts(d, C!ExtractH1AsTitle(d))
  <2>1. C!ExtractH1AsTitle(d) = d \/ C!ExtractH1AsTitle(d) = [d EXCEPT !.fm["title"] = "heading"]
    BY DEF C!ExtractH1AsTitle
  <2> QED BY <1>0, <2>1, FieldLasts
<1>3. Lasts(d, C!ExtractIndexTitle(d))
  <2>1. \/ C!ExtractIndexTitle(d) = d \/ C!ExtractIndexTitle(d) = [d EXCEPT !.fm["title"] = "repository"]
        \/ C!ExtractIndexTitle(d) = C!ExtractH1AsTitle(d)
    BY DEF C!ExtractIndexTitle
  <2> QED BY <1>0, <1>2, <2>1, FieldLasts
<1>4. Lasts(d, C!StripHeading(d))
  <2>1. \E v : C!StripHeading(d) = [d EXCEPT !["h1"] = v]
    BY DEF C!StripHeading
  <2> QED BY <2>1, PartLasts
<1>5. Lasts(d, C!AddRepositoryMetadata(d))
  <2>1. C!AddRepositoryMetadata(d) = d \/ C!AddRepositoryMetadata(d) = C!SetIfMissing(d, "tags")
    BY DEF C!AddRepositoryMetadata
  <2> QED BY <1>0, <2>1, MissingLasts
<1>6. Lasts(d, C!InjectPermalink(d))
  <2>1. C!InjectPermalink(d) = d \/ C!InjectPermalink(d) = [d EXCEPT !["badge"] = TRUE]
    BY DEF C!InjectPermalink
  <2> QED BY <1>0, <2>1, PartLasts
<1> QED BY <1>1, <1>2, <1>3, <1>4, <1>5, <1>6

LEMMA BaseLasts ==
  ASSUME NEW d, IsDocument(d)
  PROVE  Lasts(d, C!BuildBaseFrontMatter(d))
<1>1. PICK t : (t = d \/ t = [d EXCEPT !.fm["title"] = "name"]) /\ C!BuildBaseFrontMatter(d) = C!SetIfMissing(C!SetIfMissing(t, "type"), "date")
  BY DEF C!BuildBaseFrontMatter
<1>2. Lasts(d, t)
  BY <1>1, FieldLasts DEF Lasts
<1> DEFINE u == C!SetIfMissing(t, "type")
<1>3. Lasts(t, u)
  BY <1>2, MissingLasts DEF Lasts
<1>4. C!BuildBaseFrontMatter(d) = C!SetIfMissing(u, "date")
  BY <1>1
<1> HIDE DEF u
<1>5. Lasts(u, C!BuildBaseFrontMatter(d))
  BY <1>3, <1>4, MissingLasts DEF Lasts
<1>6. Lasts(d, u)
  BY <1>2, <1>3, LastsOn
<1> QED BY <1>5, <1>6, LastsOn

(* The path of a README becomes that of an index.                           *)
LEMMA NormalizedPath ==
  ASSUME NEW d, IsDocument(d), NEW e, e = C!NormalizeIndexFiles(d)
  PROVE  /\ IsDocument(e) /\ \A x \in Parts \ {"name", "path"} : e[x] = d[x]
         /\ e.path = IF ~d.gen /\ d.name.word = "readme" THEN [d.path EXCEPT !.name = C!IndexName] ELSE d.path
<1>1. CASE ~(~d.gen /\ d.name.word = "readme")
  <2>1. e = d
    BY <1>1 DEF C!NormalizeIndexFiles
  <2> QED BY <1>1, <2>1
<1>2. CASE ~d.gen /\ d.name.word = "readme"
  <2> DEFINE n == [d EXCEPT !["name"] = C!IndexName]
             path == [n.path EXCEPT !.name = C!IndexName]
  <2>1. e = [n EXCEPT !["path"] = path]
    BY <1>2 DEF C!NormalizeIndexFiles
  <2>2. "name" \in Parts /\ "path" \in Parts /\ "path" # "name"
    BY DEF Parts
  <2> HIDE DEF Parts
  <2>3. IsDocument(n) /\ \A x \in Parts \ {"name"} : n[x] = d[x]
    BY <2>2, PartSet
  <2>4. IsDocument(n) /\ n.path = d.path
    BY <2>2, <2>3
  <2>5. path = [d.path EXCEPT !.name = C!IndexName]
    BY <2>4
  <2> HIDE DEF n, path
  <2>6. IsDocument(e) /\ e.path = path /\ \A x \in Parts \ {"path"} : e[x] = n[x]
    BY <2>1, <2>2, <2>4 DEF IsDocument
  <2> QED BY <1>2, <2>3, <2>5, <2>6
<1> QED BY <1>1, <1>2

(* Where the edit link of a file leads.                                     *)
UrlFor(repo) == IF site.editURLBase # None THEN site.editURLBase ELSE site.repos[repo].url
EditFor(repo, forge, f, edit) ==
  \/ edit = [form |-> "vscode", path |-> f.dir \o <<f.name>>]
  \/ UrlFor(repo) # "local" /\ edit = [form |-> C!DetectForgeType([forge |-> forge], UrlFor(repo)), path |-> C!EditPath(f)]

(* The edit link is set, and nothing else of what lasts.                    *)
LEMMA EditLasts ==
  ASSUME NEW d, IsDocument(d), NEW e, e = C!AddEditLink(d)
  PROVE  /\ IsDocument(e) /\ \A x \in Parts \ {"fm", "edit"} : e[x] = d[x]
         /\ e.edit = d.edit \/ (~d.gen /\ EditFor(d.repo, d.forge, d.src, e.edit))
<1>1. CASE e = d
  BY <1>1
<1>2. CASE e # d
  <2>1. PICK link : e = [d EXCEPT !.fm["editURL"] = "tool", !.edit = link] /\ ~d.gen /\ EditFor(d.repo, d.forge, d.src, link)
    BY <1>2 DEF C!AddEditLink, EditFor, UrlFor, C!DetectForgeType
  <2> DEFINE fm == [d.fm EXCEPT !["editURL"] = "tool"]
             n == [d EXCEPT !["fm"] = fm]
  <2>2. e = [n EXCEPT !["edit"] = link]
    BY <2>1
  <2>3. "fm" \in Parts /\ "edit" \in Parts /\ "fm" # "edit"
    BY DEF Parts
  <2> HIDE DEF Parts, fm
  <2>4. IsDocument(n) /\ \A x \in Parts \ {"fm"} : n[x] = d[x]
    BY <2>3, PartSet
  <2>5. IsDocument(n)
    BY <2>4
  <2> HIDE DEF n
  <2>6. IsDocument(e) /\ e.edit = link /\ \A x \in Parts \ {"edit"} : e[x] = n[x]
    BY <2>2, <2>3, <2>5 DEF IsDocument
  <2> QED BY <2>1, <2>4, <2>6, SMTT(40)
<1> QED BY <1>1, <1>2

(* What is written of a document.                                           *)
LEMMA WrittenIs ==
  ASSUME NEW d, IsDocument(d), d.raw = None, NEW e, e = C!FingerprintContent(C!SerializeDocument(d))
  PROVE  e.path = d.path /\ e.raw.page = C!Page(d)
<1> DEFINE raw == [page |-> C!Page(d), fp |-> None]
           m == C!SerializeDocument(d)
           done == [page |-> raw.page, fp |-> raw.page]
<1>0. "raw" \in Parts /\ "path" \in Parts \ {"raw"}
  BY DEF Parts
<1>1. m = [d EXCEPT !["raw"] = raw]
  BY DEF C!SerializeDocument
<1> HIDE DEF Parts
<1>2. IsDocument(m) /\ m.raw = raw /\ \A x \in Parts \ {"raw"} : m[x] = d[x]
  <2> HIDE DEF m, raw
  <2> QED BY <1>0, <1>1 DEF IsDocument
<1>3. e = [m EXCEPT !["raw"] = done]
  <2> HIDE DEF m
  <2> QED BY <1>2 DEF C!FingerprintContent, m
<1>4. e.raw = done /\ \A x \in Parts \ {"raw"} : e[x] = m[x]
  <2>1. IsDocument(m)
    BY <1>2
  <2> HIDE DEF m, done
  <2> QED BY <1>0, <1>3, <2>1, PartSet
<1> HIDE DEF m
<1> QED BY <1>0, <1>2, <1>4

(* A transformed document is where its file is, with its links rewritten.   *)
Moved(d, e) ==
  LET page == e.raw.page
      at(s) == s.repo = d.repo /\ s.forge = d.forge /\ s.dir = d.dir /\ s.isIndex = d.isIndex /\ s.path = e.path
  IN /\ e.path = C!NormalizeIndexFiles(d).path /\ page.src = d.src
     /\ \E s : at(s) /\ page.links = [i \in DOMAIN d.links |-> C!RewriteLinkPath(s, d.links[i])]
     /\ \E s : at(s) /\ page.images = [i \in DOMAIN d.images |-> C!RewriteImagePath(s, d.images[i])]
     /\ page.edit = d.edit \/ (~d.gen /\ EditFor(d.repo, d.forge, d.src, page.edit))

(* All the transforms, one after the other.                                 *)
LEMMA TransformMoves ==
  ASSUME NEW d, IsDocument(d), d.raw = None, NEW e, e = C!Transform(d)
  PROVE  Moved(d, e)
<1> DEFINE d1 == C!ParseFrontMatter(d)
           d2 == C!NormalizeIndexFiles(d1)
           d3 == C!BuildBaseFrontMatter(d2)
           d4 == C!ExtractIndexTitle(d3)
           d5 == C!ExtractH1AsTitle(d4)
           d6 == C!StripHeading(d5)
           d7 == C!RewriteRelativeLinks(d6)
           d8 == C!RewriteImageLinks(d7)
           d9 == C!AddRepositoryMetadata(d8)
           d10 == C!AddEditLink(d9)
           d11 == C!InjectPermalink(d10)
<1>1. e = C!FingerprintContent(C!SerializeDocument(d11))
  BY DEF C!Transform
<1>2. d1 = C!ParseFrontMatter(d) /\ d2 = C!NormalizeIndexFiles(d1) /\ d3 = C!BuildBaseFrontMatter(d2)
  OBVIOUS
<1>3. d4 = C!ExtractIndexTitle(d3) /\ d5 = C!ExtractH1AsTitle(d4) /\ d6 = C!StripHeading(d5)
  OBVIOUS
<1>4. d7 = C!RewriteRelativeLinks(d6) /\ d8 = C!RewriteImageLinks(d7)
  OBVIOUS
<1>5. d9 = C!AddRepositoryMetadata(d8) /\ d10 = C!AddEditLink(d9) /\ d11 = C!InjectPermalink(d10)
  OBVIOUS
<1> HIDE DEF d1, d2, d3, d4, d5, d6, d7, d8, d9, d10, d11
<1>6. Lasts(d, d1)
  BY <1>2, TitleLasts
<1>7. /\ IsDocument(d2) /\ \A x \in Parts \ {"name", "path"} : d2[x] = d1[x]
      /\ d2.path = IF ~d1.gen /\ d1.name.word = "readme" THEN [d1.path EXCEPT !.name = C!IndexName] ELSE d1.path
  <2>1. IsDocument(d1)
    BY <1>6 DEF Lasts
  <2> QED BY <1>2, <2>1, NormalizedPath
<1>8. Lasts(d2, d6)
  <2>1. Lasts(d2, d3)
    BY <1>2, <1>7, BaseLasts
  <2>2. Lasts(d3, d4)
    BY <1>3, <2>1, TitleLasts DEF Lasts
  <2>3. Lasts(d4, d5)
    BY <1>3, <2>2, TitleLasts DEF Lasts
  <2>4. Lasts(d5, d6)
    BY <1>3, <2>3, TitleLasts DEF Lasts
  <2>5. Lasts(d2, d4)
    BY <2>1, <2>2, LastsOn
  <2>6. Lasts(d2, d5)
    BY <2>3, <2>5, LastsOn
  <2> QED BY <2>4, <2>6, LastsOn
<1>9. /\ IsDocument(d7) /\ \A x \in Parts \ {"links"} : d7[x] = d6[x]
      /\ d7.links = [i \in DOMAIN d6.links |-> C!RewriteLinkPath(d6, d6.links[i])]
  <2> DEFINE v == [i \in DOMAIN d6.links |-> C!RewriteLinkPath(d6, d6.links[i])]
  <2>1. d7 = [d6 EXCEPT !["links"] = v]
    BY <1>4 DEF C!RewriteRelativeLinks
  <2>2. IsDocument(d6) /\ "links" \in Parts
    BY <1>8 DEF Lasts, Parts
  <2> HIDE DEF v, Parts
  <2>3. IsDocument(d7) /\ d7.links = v /\ \A x \in Parts \ {"links"} : d7[x] = d6[x]
    BY <2>1, <2>2 DEF IsDocument
  <2> QED BY <2>3 DEF v
<1>10. /\ IsDocument(d8) /\ \A x \in Parts \ {"images"} : d8[x] = d7[x]
       /\ d8.images = [i \in DOMAIN d7.images |-> C!RewriteImagePath(d7, d7.images[i])]
  <2> DEFINE v == [i \in DOMAIN d7.images |-> C!RewriteImagePath(d7, d7.images[i])]
  <2>1. d8 = [d7 EXCEPT !["images"] = v]
    BY <1>4 DEF C!RewriteImageLinks
  <2>2. IsDocument(d7) /\ "images" \in Parts
    BY <1>9 DEF Parts
  <2> HIDE DEF v, Parts
  <2>3. IsDocument(d8) /\ d8.images = v /\ \A x \in Parts \ {"images"} : d8[x] = d7[x]
    BY <2>1, <2>2 DEF IsDocument
  <2> QED BY <2>3 DEF v
<1>11. Lasts(d8, d9)
  <2>1. IsDocument(d8)
    BY <1>10
  <2> QED BY <1>5, <2>1, TitleLasts
<1>12. /\ IsDocument(d10) /\ \A x \in Parts \ {"fm", "edit"} : d10[x] = d9[x]
       /\ d10.edit = d9.edit \/ (~d9.gen /\ EditFor(d9.repo, d9.forge, d9.src, d10.edit))
  <2>1. IsDocument(d9)
    BY <1>11 DEF Lasts
  <2> QED BY <1>5, <2>1, EditLasts
<1>13. Lasts(d10, d11)
  <2>1. IsDocument(d10)
    BY <1>12
  <2> QED BY <1>5, <2>1, TitleLasts
<1> DEFINE Same(x) == d11[x] = d10[x] /\ d10[x] = d9[x] /\ d9[x] = d8[x] /\ d8[x] = d7[x] /\ d7[x] = d6[x] /\ d6[x] = d2[x] /\ d2[x] = d1[x] /\ d1[x] = d[x]
<1>14. Same("gen") /\ Same("src") /\ Same("isIndex") /\ Same("repo") /\ Same("forge") /\ Same("dir") /\ Same("raw")
  BY <1>6, <1>7, <1>8, <1>9, <1>10, <1>11, <1>12, <1>13 DEF Lasts, Lasting, Parts
<1>15. d11.path = d10.path /\ d10.path = d9.path /\ d9.path = d8.path /\ d8.path = d7.path /\ d7.path = d6.path /\ d6.path = d2.path
  BY <1>8, <1>9, <1>10, <1>11, <1>12, <1>13 DEF Lasts, Lasting, Parts
<1>16. d1.path = d.path /\ d1.name = d.name /\ d1.gen = d.gen
  BY <1>6 DEF Lasts, Lasting
<1>17. d11.links = d7.links /\ d6.links = d.links
  BY <1>6, <1>7, <1>8, <1>9, <1>10, <1>11, <1>12, <1>13 DEF Lasts, Lasting, Parts
<1>18. d11.images = d8.images /\ d7.images = d.images
  BY <1>6, <1>7, <1>8, <1>9, <1>10, <1>11, <1>12, <1>13 DEF Lasts, Lasting, Parts
<1>19. d11.edit = d10.edit /\ d9.edit = d.edit
  BY <1>6, <1>7, <1>8, <1>9, <1>10, <1>11, <1>12, <1>13 DEF Lasts, Lasting, Parts
<1>20. e.path = d11.path /\ e.raw.page = C!Page(d11)
  <2>1. IsDocument(d11) /\ d11.raw = None
    BY <1>13, <1>14 DEF Lasts
  <2> QED BY <1>1, <2>1, WrittenIs
<1> DEFINE page == C!Page(d11)
<1>21. page.src = d11.src /\ page.links = d11.links /\ page.images = d11.images /\ page.edit = d11.edit
  BY DEF C!Page
<1> HIDE DEF page
<1>22. e.path = C!NormalizeIndexFiles(d).path
  <2> DEFINE n == C!NormalizeIndexFiles(d)
  <2>1. n.path = IF ~d.gen /\ d.name.word = "readme" THEN [d.path EXCEPT !.name = C!IndexName] ELSE d.path
    BY NormalizedPath
  <2> HIDE DEF n
  <2>2. d2.path = n.path
    BY <1>7, <1>16, <2>1
  <2> QED BY <1>15, <1>20, <2>2 DEF n
<1>23. page.links = [i \in DOMAIN d.links |-> C!RewriteLinkPath(d6, d.links[i])]
  BY <1>9, <1>17, <1>21
<1>24. page.images = [i \in DOMAIN d.images |-> C!RewriteImagePath(d7, d.images[i])]
  BY <1>10, <1>18, <1>21
<1>25. page.edit = d.edit \/ (~d.gen /\ EditFor(d.repo, d.forge, d.src, page.edit))
  BY <1>12, <1>14, <1>19, <1>21
<1> QED BY <1>14, <1>15, <1>20, <1>21, <1>22, <1>23, <1>24, <1>25 DEF Moved, page

-----------------------------------------------------------------------------
(* Where documents and pages are.                                           *)

(* A file is one of its repository's.                                       *)
Comes(f) ==
  \E k \in DOMAIN site.repos[f.repo].files :
    LET x == site.repos[f.repo].files[k] IN
    f = [repo |-> f.repo, forge |-> f.forge, base |-> x.base, dir |-> x.dir, name |-> x.name, asset |-> x.kind = "asset", body |-> x.body]

(* A directory whose index is generated has none that was found.            *)
Below(g, n) == (IF C!IsSingleRepo THEN <<>> ELSE <<g.repo>>) \o SubSeq(g.dir, 1, n)
GeneratedAt(p) ==
  \/ p = C!IndexPath(<<>>) /\ \A f \in C!Files : C!GetHugoPath(f) # p
  \/ \E g \in C!Files : \E n \in 0..Len(g.dir) :
       /\ p = C!IndexPath(Below(g, n))
       /\ \A f \in C!Files : C!IsIndexFileName(f.name) => <<f.repo, f.dir>> # <<g.repo, SubSeq(g.dir, 1, n)>>

(* The page of a file.                                                      *)
PageOf(f, p, page) ==
  /\ p = C!PathOf(f)
  /\ \E s : Stands(s, f) /\ page.links = [i \in DOMAIN f.body.links |-> C!RewriteLinkPath(s, f.body.links[i])]
  /\ \E s : Stands(s, f) /\ page.images = [i \in DOMAIN f.body.images |-> C!RewriteImagePath(s, f.body.images[i])]
  /\ page.edit = None \/ EditFor(f.repo, f.forge, f, page.edit)

DocPlaced(d) == (d.gen /\ GeneratedAt(d.path)) \/ \E f \in C!Files : d = C!NewDocumentFromDocFile(f)
PagePlaced(p, page) ==
  \/ page.src = None /\ page.edit = None /\ GeneratedAt(p)
  \/ page.src \in C!Files /\ PageOf(page.src, p, page)

(* The paths of what is still to be written or is written.                  *)
Reach == {C!NormalizeIndexFiles(queue[i]).path : i \in DOMAIN queue} \cup {docs[i].path : i \in DOMAIN docs} \cup DOMAIN out

(* A file is on its way, and so are the indexes above it.                   *)
OnItsWay(f) ==
  /\ C!PathOf(f) \in Reach
  /\ f.forge = None /\ C!IsLower(<<f.repo>> \o f.dir) =>
       \A n \in 0..Len(C!PathOf(f).dir) : C!IndexPath(SubSeq(C!PathOf(f).dir, 1, n)) \in Reach

FilesPlaced == \A i \in DOMAIN docFiles : Located(docFiles[i]) /\ Comes(docFiles[i])
NoneLost ==
  /\ building \in {"discover", "copy"} => queue = <<>>
  /\ building = "discover" => docs = <<>> /\ \A p \in DOMAIN out : p.asset
  /\ building \notin {"discover", "failed"} => ~C!DetectPathCollisions
  /\ building = "load" =>
       /\ \A i \in pending : ~docFiles[i].asset
       /\ \A j \in DOMAIN queue : \E f \in C!Files : queue[j] = C!NewDocumentFromDocFile(f)
       /\ \A i \in DOMAIN docFiles :
            C!Kept(docFiles[i]) => i \in pending \/ \E j \in DOMAIN queue : queue[j] = C!NewDocumentFromDocFile(docFiles[i])
  /\ building \in {"process", "write", "done"} => \A f \in C!Files : OnItsWay(f)
  /\ building \in {"write", "done"} => queue = <<>>
  /\ building = "done" => docs = <<>>
AllPlaced ==
  /\ \A i \in DOMAIN queue : DocPlaced(queue[i])
  /\ \A i \in DOMAIN docs : PagePlaced(docs[i].path, docs[i].raw.page)
  /\ \A p \in DOMAIN out : ~p.asset => PagePlaced(p, out[p].page)
PlacesInv == FilesPlaced /\ NoneLost /\ AllPlaced

(* Transforms put a document where it belongs.                              *)
LEMMA TransformPlaces ==
  ASSUME FilesPlaced, NEW d, Fresh(d), DocPlaced(d), NEW e, e = C!Transform(d)
  PROVE  PagePlaced(e.path, e.raw.page) /\ e.path = C!NormalizeIndexFiles(d).path
<1>1. Moved(d, e)
  BY TransformMoves DEF Fresh
<1>2. e.path = C!NormalizeIndexFiles(d).path
  BY <1>1 DEF Moved
<1>3. CASE d.gen /\ GeneratedAt(d.path)
  <2>1. d.src = None /\ d.edit = None
    BY <1>3 DEF Fresh, FromFile
  <2>2. e.path = d.path
    BY <1>2, <1>3 DEF C!NormalizeIndexFiles
  <2>3. e.raw.page.src = None /\ e.raw.page.edit = None
    BY <1>1, <1>3, <2>1 DEF Moved
  <2> QED BY <1>2, <1>3, <2>2, <2>3 DEF PagePlaced
<1>4. CASE \E f \in C!Files : d = C!NewDocumentFromDocFile(f)
  <2>1. PICK f \in C!Files : d = C!NewDocumentFromDocFile(f)
    BY <1>4
  <2>2. Located(f)
    BY <2>1 DEF FilesPlaced, C!Files, C!ToSet
  <2>3. /\ d.gen = FALSE /\ d.src = f /\ d.path = C!GetHugoPath(f) /\ d.isIndex = C!IsIndexFileName(f.name)
        /\ d.repo = f.repo /\ d.forge = f.forge /\ d.dir = f.dir /\ d.links = f.body.links /\ d.images = f.body.images /\ d.edit = None
    BY <2>1 DEF C!NewDocumentFromDocFile
  <2>4. e.path = C!PathOf(f)
    BY <1>2, <2>1 DEF C!PathOf
  <2>5. e.path.dir = C!LowerAll(Root(f) \o f.dir)
    <3>1. C!PathOf(f).dir = C!GetHugoPath(f).dir
      BY DEF C!PathOf, C!NormalizeIndexFiles, C!NewDocumentFromDocFile, C!GetHugoPath
    <3> QED BY <2>2, <2>4, <3>1, PathDir
  <2> DEFINE page == e.raw.page
             at(s) == s.repo = d.repo /\ s.forge = d.forge /\ s.dir = d.dir /\ s.isIndex = d.isIndex /\ s.path = e.path
  <2>6. ASSUME NEW s, at(s) PROVE Stands(s, f)
    BY <2>3, <2>5, <2>6 DEF Stands
  <2>7. page.src = f /\ (page.edit = None \/ EditFor(f.repo, f.forge, f, page.edit))
    BY <1>1, <2>3 DEF Moved
  <2>8. PICK s : at(s) /\ page.links = [i \in DOMAIN d.links |-> C!RewriteLinkPath(s, d.links[i])]
    BY <1>1 DEF Moved
  <2>9. PICK t : at(t) /\ page.images = [i \in DOMAIN d.images |-> C!RewriteImagePath(t, d.images[i])]
    BY <1>1 DEF Moved
  <2> HIDE DEF at, page
  <2>10. Stands(s, f) /\ page.links = [i \in DOMAIN f.body.links |-> C!RewriteLinkPath(s, f.body.links[i])]
    BY <2>3, <2>6, <2>8
  <2>11. Stands(t, f) /\ page.images = [i \in DOMAIN f.body.images |-> C!RewriteImagePath(t, f.body.images[i])]
    BY <2>3, <2>6, <2>9
  <2>12. PageOf(f, e.path, page)
    BY <2>4, <2>7, <2>10, <2>11 DEF PageOf
  <2> QED BY <1>2, <2>1, <2>7, <2>12 DEF PagePlaced, page
<1> QED BY <1>3, <1>4 DEF DocPlaced

(* With the same files, what was in its place is.                           *)
LEMMA SamePaths ==
  ASSUME site' = site
  PROVE  /\ C!IsSingleRepo' <=> C!IsSingleRepo
         /\ C!NamespaceForges' <=> C!NamespaceForges
         /\ \A f : C!GetHugoPath(f)' = C!GetHugoPath(f)
         /\ \A f : C!NewDocumentFromDocFile(f)' = C!NewDocumentFromDocFile(f)
         /\ \A f : C!PathOf(f)' = C!PathOf(f)
         /\ \A f : Root(f)' = Root(f)
         /\ \A f : Located(f)' <=> Located(f)
         /\ \A f : Comes(f)' <=> Comes(f)
         /\ \A f : C!Kept(f)' <=> C!Kept(f)
<1>1. C!IsSingleRepo' <=> C!IsSingleRepo
  BY DEF C!IsSingleRepo, C!Repos
<1>2. C!NamespaceForges' <=> C!NamespaceForges
  BY DEF C!NamespaceForges, C!Repos
<1>3. \A f : C!GetHugoPath(f)' = C!GetHugoPath(f)
  BY <1>1 DEF C!GetHugoPath
<1>4. \A f : C!NewDocumentFromDocFile(f)' = C!NewDocumentFromDocFile(f)
  BY <1>3 DEF C!NewDocumentFromDocFile
<1>5. \A f : C!PathOf(f)' = C!PathOf(f)
  BY <1>4 DEF C!PathOf
<1>6. \A f : Root(f)' = Root(f)
  BY <1>1 DEF Root
<1>7. \A f : Located(f)' <=> Located(f)
  BY <1>2 DEF Located
<1>8. \A f : Comes(f)' <=> Comes(f)
  BY DEF Comes
<1>9. \A f : C!Kept(f)' <=> C!Kept(f)
  BY DEF C!Kept
<1> QED BY <1>1, <1>2, <1>3, <1>4, <1>5, <1>6, <1>7, <1>8, <1>9

LEMMA SameRewriting ==
  ASSUME site' = site
  PROVE  /\ \A s, l : C!RewriteLinkPath(s, l)' = C!RewriteLinkPath(s, l)
         /\ \A s, f : Stands(s, f)' <=> Stands(s, f)
         /\ \A f, p, page : PageOf(f, p, page)' <=> PageOf(f, p, page)
<1>1. \A s : C!ExtractDirectory(s)' = C!ExtractDirectory(s)
  BY SamePaths DEF C!ExtractDirectory
<1>2. \A s, path : C!HandleParentDirNavigation(s, path)' = C!HandleParentDirNavigation(s, path)
  BY SamePaths DEF C!HandleParentDirNavigation
<1>3. \A s, l : C!RewriteLinkPath(s, l)' = C!RewriteLinkPath(s, l)
  BY <1>1, <1>2, SamePaths DEF C!RewriteLinkPath
<1>4. \A s, f : Stands(s, f)' <=> Stands(s, f)
  BY SamePaths DEF Stands
<1>5. \A r, o, f, edit : EditFor(r, o, f, edit)' <=> EditFor(r, o, f, edit)
  BY DEF EditFor, UrlFor
<1>6. \A f, p, page : PageOf(f, p, page)' <=> PageOf(f, p, page)
  BY <1>3, <1>4, <1>5, SamePaths, SMTT(30) DEF PageOf
<1> QED BY <1>3, <1>4, <1>6

LEMMA SamePlaces ==
  ASSUME site' = site, docFiles' = docFiles
  PROVE  /\ C!Files' = C!Files
         /\ C!DetectPathCollisions' <=> C!DetectPathCollisions
         /\ \A d : DocPlaced(d)' <=> DocPlaced(d)
         /\ \A p, page : PagePlaced(p, page)' <=> PagePlaced(p, page)
<1>1. C!Files' = C!Files
  BY SamePaths DEF C!Files
<1>2. C!DetectPathCollisions' <=> C!DetectPathCollisions
  BY SamePaths DEF C!DetectPathCollisions
<1>3. \A g, n : Below(g, n)' = Below(g, n)
  BY SamePaths DEF Below
<1>4. \A p : GeneratedAt(p)' <=> GeneratedAt(p)
  BY <1>1, <1>3, SamePaths DEF GeneratedAt
<1>5. \A d : DocPlaced(d)' <=> DocPlaced(d)
  BY <1>1, <1>4, SamePaths DEF DocPlaced
<1>6. \A p, page : PagePlaced(p, page)' <=> PagePlaced(p, page)
  BY <1>1, <1>4, SameRewriting, SMTT(40) DEF PagePlaced
<1> QED BY <1>1, <1>2, <1>5, <1>6

(* What the walk finds is in its repository.                                *)
LEMMA WalkPlaces ==
  ASSUME site \in Sites, NEW r \in C!Repos, NEW w, w = C!WalkDocsDirectory(r)
  PROVE  \A k \in DOMAIN w : Located(w[k]) /\ Comes(w[k])
<1> DEFINE repo == site.repos[r]
           found == repo.files
           keep(f) == f.kind # "other" /\ ~C!IsHidden(f.name) /\ ~(f.dir = <<>> /\ C!IsIgnoredFile(f.name))
           S == {i \in DOMAIN found : keep(found[i])}
           at == C!InOrder(S)
           forge == IF C!NamespaceForges THEN repo.forge ELSE None
           file(f) == [repo |-> r, forge |-> IF C!NamespaceForges THEN repo.forge ELSE None, base |-> f.base, dir |-> f.dir,
                       name |-> f.name, asset |-> f.kind = "asset", body |-> f.body]
<1>2. w = [k \in DOMAIN at |-> file(repo.files[at[k]])]
  BY DEF C!WalkDocsDirectory
<1>0. r \in DOMAIN site.repos
  BY SMTT(30) DEF C!Repos
<1>1. /\ r \in Names /\ (repo.forge = None \/ repo.forge \in Names)
      /\ Len(found) \in Nat /\ DOMAIN found = 1..Len(found)
      /\ \A i \in DOMAIN found :
           /\ found[i].base \in Names /\ found[i].dir \in Seq(Names) /\ found[i].name \in Names
           /\ \A k \in DOMAIN found[i].body.links : IsLink(found[i].body.links[k])
           /\ \A k \in DOMAIN found[i].body.images : IsLink(found[i].body.images[k])
  BY <1>0, SitesAssumption
<1>3. IsFiniteSet(S) /\ S \in SUBSET Nat
  <2> HIDE DEF keep, found
  <2>1. S \in SUBSET (1..Len(found))
    BY <1>1
  <2>2. IsFiniteSet(1..Len(found))
    <3> DEFINE n == Len(found)
    <3>1. n \in Int /\ 1 \in Int
      BY <1>1
    <3> HIDE DEF n
    <3>2. IsFiniteSet(1..n)
      BY <3>1, FS_Interval
    <3> QED BY <3>2 DEF n
  <2>3. IsFiniteSet(S)
    <3> HIDE DEF S
    <3> QED BY <2>1, <2>2, FS_Subset
  <2> QED BY <1>1, <2>1, <2>3
<1>4. \A i \in S : i \in DOMAIN found
  OBVIOUS
<1> HIDE DEF S, keep
<1>5. at \in [1..Cardinality(S) -> S]
  BY <1>3, Ordered
<1> HIDE DEF at
<1>6. ASSUME NEW k \in DOMAIN w PROVE Located(w[k]) /\ Comes(w[k])
  <2>1. k \in DOMAIN at
    BY <1>2, SMTT(30)
  <2>2. at[k] \in DOMAIN found
    BY <1>4, <1>5, <2>1
  <2> DEFINE x == found[at[k]]
             f == w[k]
  <2>3. f = file(x)
    BY <1>2, <2>1, SMTT(40)
  <2>4. /\ x.base \in Names /\ x.dir \in Seq(Names) /\ x.name \in Names
        /\ \A i \in DOMAIN x.body.links : IsLink(x.body.links[i])
        /\ \A i \in DOMAIN x.body.images : IsLink(x.body.images[i])
    <3> HIDE DEF found
    <3> QED BY <1>1, <2>2
  <2> HIDE DEF f, x, found
  <2>5. f.repo = r /\ f.forge = forge /\ f.base = x.base /\ f.dir = x.dir /\ f.name = x.name /\ f.asset = (x.kind = "asset") /\ f.body = x.body
    BY <2>3
  <2>6. forge = None \/ forge \in Names
    BY <1>1
  <2>7. Located(f)
    <3>1. f.asset \in BOOLEAN
      BY <2>5, SMTT(40)
    <3>2. f.forge = IF C!NamespaceForges THEN site.repos[f.repo].forge ELSE None
      BY <2>5, SMTT(40)
    <3> HIDE DEF forge, repo
    <3> QED BY <1>0, <1>1, <2>4, <2>5, <2>6, <3>1, <3>2 DEF Located
  <2>8. Comes(f)
    <3>1. at[k] \in DOMAIN site.repos[f.repo].files /\ x = site.repos[f.repo].files[at[k]]
      BY <2>2, <2>5 DEF x, found
    <3>2. f = [repo |-> f.repo, forge |-> f.forge, base |-> x.base, dir |-> x.dir, name |-> x.name, asset |-> x.kind = "asset", body |-> x.body]
      BY <2>3, <2>5
    <3> QED BY <3>1, <3>2 DEF Comes
  <2> QED BY <2>7, <2>8 DEF f
<1> QED BY <1>6, SMTT(40)

LEMMA PlacesStart == ASSUME C!Init PROVE PlacesInv
<1>1. docFiles = <<>> /\ queue = <<>> /\ docs = <<>> /\ building = "discover" /\ DOMAIN out = {}
  BY DEF C!Init
<1>2. FilesPlaced
  BY <1>1 DEF FilesPlaced
<1>3. NoneLost
  BY <1>1 DEF NoneLost
<1>4. AllPlaced
  BY <1>1 DEF AllPlaced
<1> QED BY <1>2, <1>3, <1>4 DEF PlacesInv

(* What a step leaves alone.                                                *)
LEMMA FilesStay == ASSUME FilesPlaced, site' = site, docFiles' = docFiles PROVE FilesPlaced'
BY SamePaths DEF FilesPlaced

(* What a walk finds is in its repository, and nothing is written yet.      *)
LEMMA DiscoverPlaces == ASSUME SiteInv, PlacesInv, NEW r \in C!Repos, C!DiscoverDocs(r) PROVE PlacesInv'
<1>1. site' = site /\ building' = building /\ building = "discover" /\ queue' = queue /\ docs' = docs /\ out' = out
  BY DEF C!DiscoverDocs
<1> DEFINE w == IF site.repos[r].docignore THEN <<>> ELSE C!WalkDocsDirectory(r)
<1>2. docFiles' = docFiles \o w
  BY DEF C!DiscoverDocs
<1>3. IsSeq(w) /\ \A k \in DOMAIN w : Located(w[k]) /\ Comes(w[k])
  <2>1. IsSeq(<<>>)
    BY DEF IsSeq
  <2>2. site \in Sites
    BY DEF SiteInv
  <2> DEFINE v == C!WalkDocsDirectory(r)
  <2>3. IsSeq(v)
    BY <2>2, WalkFinds
  <2>4. \A k \in DOMAIN v : Located(v[k]) /\ Comes(v[k])
    BY <2>2, WalkPlaces
  <2> HIDE DEF v
  <2> QED BY <2>1, <2>3, <2>4 DEF v
<1> HIDE DEF w
<1>4. FilesPlaced'
  <2>1. IsSeq(docFiles)
    BY DEF SiteInv, DocFilesInv
  <2>2. IsSeq(w)
    BY <1>3
  <2>3. Joins(docFiles, w, docFiles')
    BY <1>2 DEF Joins
  <2>4. \A i \in DOMAIN docFiles' : (\E j \in DOMAIN docFiles : docFiles'[i] = docFiles[j]) \/ (\E j \in DOMAIN w : docFiles'[i] = w[j])
    BY <2>1, <2>2, <2>3, Joined
  <2>5. \A i \in DOMAIN docFiles' : Located(docFiles'[i]) /\ Comes(docFiles'[i])
    BY <1>3, <2>4 DEF PlacesInv, FilesPlaced
  <2> QED BY <1>1, <2>5, SamePaths DEF FilesPlaced
<1>5. NoneLost'
  BY <1>1 DEF PlacesInv, NoneLost
<1>6. AllPlaced'
  BY <1>1 DEF PlacesInv, NoneLost, AllPlaced
<1> QED BY <1>4, <1>5, <1>6 DEF PlacesInv

(* No collision is left when copying begins.                                *)
LEMMA DiscoveredPlaces == ASSUME PlacesInv, C!Discovered PROVE PlacesInv'
<1>1. site' = site /\ building = "discover" /\ docFiles' = docFiles /\ queue' = queue /\ docs' = docs /\ out' = out
  BY DEF C!Discovered
<1>2. building' = "failed" \/ (building' = "copy" /\ ~C!DetectPathCollisions)
  BY DEF C!Discovered
<1>3. NoneLost'
  BY <1>1, <1>2, SamePlaces DEF PlacesInv, NoneLost
<1>4. AllPlaced'
  BY <1>1, SamePlaces DEF PlacesInv, AllPlaced
<1> QED BY <1>1, <1>3, <1>4, FilesStay DEF PlacesInv

(* An asset is no page.                                                     *)
LEMMA CopyPlaces == ASSUME SiteInv, PlacesInv, C!CopyAssetFile PROVE PlacesInv'
<1>1. site' = site /\ building' = building /\ building = "copy" /\ docFiles' = docFiles /\ queue' = queue /\ docs' = docs
  BY DEF C!CopyAssetFile
<1>2. PICK i \in pending : pending' = pending \ {i} /\ out' = C!Put(C!GetHugoPath(docFiles[i]), docFiles[i])
  BY DEF C!CopyAssetFile
<1> DEFINE p == C!GetHugoPath(docFiles[i])
<1>3. p.asset
  BY <1>1 DEF C!GetHugoPath, SiteInv, PendingInv
<1> HIDE DEF p
<1>4. DOMAIN out' = DOMAIN out \cup {p} /\ \A x \in DOMAIN out \ {p} : out'[x] = out[x]
  BY <1>2 DEF C!Put, p
<1>5. NoneLost'
  BY <1>1, SamePlaces DEF PlacesInv, NoneLost
<1>6. AllPlaced'
  BY <1>1, <1>3, <1>4, SamePlaces DEF PlacesInv, AllPlaced
<1> QED BY <1>1, <1>5, <1>6, FilesStay DEF PlacesInv

(* All documents are still to be read.                                      *)
LEMMA AssetsPlace == ASSUME PlacesInv, C!AssetsCopied PROVE PlacesInv'
<1>1. site' = site /\ building = "copy" /\ building' = "load" /\ docFiles' = docFiles /\ queue' = queue /\ docs' = docs /\ out' = out
  BY DEF C!AssetsCopied
<1>2. pending' = {i \in DOMAIN docFiles : ~docFiles[i].asset}
  BY DEF C!AssetsCopied
<1>3. queue = <<>>
  BY <1>1 DEF PlacesInv, NoneLost
<1>4. \A i \in DOMAIN docFiles : C!Kept(docFiles[i])' => i \in pending'
  BY <1>1, <1>2 DEF C!Kept
<1>5. NoneLost'
  BY <1>1, <1>2, <1>3, <1>4, SamePlaces DEF PlacesInv, NoneLost
<1>6. AllPlaced'
  BY <1>1, SamePlaces DEF PlacesInv, AllPlaced
<1> QED BY <1>1, <1>5, <1>6, FilesStay DEF PlacesInv

(* A longer queue has all that the shorter had.                             *)
LEMMA AppendedHas ==
  ASSUME NEW q, IsSeq(q), NEW x, NEW s, Appends(q, x, s)
  PROVE  (\E i \in DOMAIN s : s[i] = x) /\ \A j \in DOMAIN q : \E i \in DOMAIN s : s[i] = q[j]
<1> DEFINE A == {q[i] : i \in DOMAIN q} \cup {x}
<1>1. q \in Seq(A) /\ x \in A
  BY DEF IsSeq
<1> HIDE DEF A
<1>2. s \in Seq(A) /\ Len(s) = Len(q) + 1 /\ \A i \in 1..Len(s) : s[i] = IF i <= Len(q) THEN q[i] ELSE x
  BY <1>1 DEF Appends
<1>3. Len(q) \in Nat /\ DOMAIN q = 1..Len(q) /\ DOMAIN s = 1..Len(s)
  BY <1>1, <1>2
<1>4. Len(q) + 1 \in DOMAIN s /\ s[Len(q) + 1] = x
  BY <1>2, <1>3
<1>5. \A j \in DOMAIN q : j \in DOMAIN s /\ s[j] = q[j]
  BY <1>2, <1>3
<1> QED BY <1>4, <1>5

LEMMA JoinedHas ==
  ASSUME NEW q, IsSeq(q), NEW r, IsSeq(r), NEW s, Joins(q, r, s)
  PROVE  (\A j \in DOMAIN q : \E i \in DOMAIN s : s[i] = q[j]) /\ \A j \in DOMAIN r : \E i \in DOMAIN s : s[i] = r[j]
<1> DEFINE A == {q[i] : i \in DOMAIN q}
           B == {r[i] : i \in DOMAIN r}
           W == A \cup B
<1>1. q \in Seq(W) /\ r \in Seq(W)
  BY DEF IsSeq
<1> HIDE DEF W
<1>2. s \in Seq(W) /\ Len(s) = Len(q) + Len(r) /\ \A i \in 1..Len(s) : s[i] = IF i <= Len(q) THEN q[i] ELSE r[i - Len(q)]
  BY <1>1 DEF Joins
<1>3. Len(q) \in Nat /\ DOMAIN q = 1..Len(q) /\ DOMAIN s = 1..Len(s) /\ Len(r) \in Nat /\ DOMAIN r = 1..Len(r)
  BY <1>1, <1>2
<1>4. \A j \in DOMAIN q : j \in DOMAIN s /\ s[j] = q[j]
  BY <1>2, <1>3
<1>5. ASSUME NEW j \in DOMAIN r PROVE \E i \in DOMAIN s : s[i] = r[j]
  <2>1. Len(q) + j \in DOMAIN s /\ ~(Len(q) + j <= Len(q)) /\ Len(q) + j - Len(q) = j
    BY <1>2, <1>3
  <2>2. s[Len(q) + j] = r[Len(q) + j - Len(q)]
    BY <1>2, <1>3, <2>1
  <2> QED BY <2>1, <2>2
<1> QED BY <1>4, <1>5

LEMMA DroppedHas ==
  ASSUME NEW q, IsSeq(q), NEW s, Drops(q, s)
  PROVE  \A j \in DOMAIN q : q[j] = Head(q) \/ \E i \in DOMAIN s : s[i] = q[j]
<1> DEFINE A == {q[i] : i \in DOMAIN q}
<1>1. q \in Seq(A)
  BY DEF IsSeq
<1> HIDE DEF A
<1>2. s \in Seq(A) /\ Len(s) = Len(q) - 1 /\ (\A i \in 1..Len(s) : s[i] = q[i + 1]) /\ Head(q) = q[1]
  BY <1>1 DEF Drops
<1>3. Len(q) \in Nat /\ DOMAIN q = 1..Len(q) /\ DOMAIN s = 1..Len(s)
  BY <1>1, <1>2
<1>4. ASSUME NEW j \in DOMAIN q, j # 1 PROVE \E i \in DOMAIN s : s[i] = q[j]
  <2>1. j - 1 \in DOMAIN s /\ j - 1 + 1 = j
    BY <1>2, <1>3, <1>4
  <2>2. s[j - 1] = q[j]
    BY <1>2, <1>3, <2>1
  <2> QED BY <2>1, <2>2
<1> QED BY <1>2, <1>4

(* A document that is read is in the queue.                                 *)
LEMMA LoadPlaces == ASSUME SiteInv, PlacesInv, C!LoadContent PROVE PlacesInv'
<1>1. site' = site /\ building' = building /\ building = "load" /\ docFiles' = docFiles /\ docs' = docs /\ out' = out
  BY DEF C!LoadContent
<1>2. PICK i \in pending :
        /\ pending' = pending \ {i}
        /\ queue' = IF site.publicOnly /\ ~C!IsPublicMarkdown(docFiles[i]) THEN queue
                    ELSE Append(queue, C!NewDocumentFromDocFile(docFiles[i]))
  BY DEF C!LoadContent
<1>0. i \in DOMAIN docFiles /\ ~docFiles[i].asset
  BY <1>1 DEF SiteInv, PendingInv, PlacesInv, NoneLost
<1> DEFINE f == docFiles[i]
           d == C!NewDocumentFromDocFile(f)
<1>3. C!Kept(f) <=> ~(site.publicOnly /\ ~C!IsPublicMarkdown(f))
  BY <1>0 DEF C!Kept
<1>4. /\ (\A j \in DOMAIN queue' : (\E k \in DOMAIN queue : queue'[j] = queue[k]) \/ (C!Kept(f) /\ queue'[j] = d))
      /\ (\A k \in DOMAIN queue : \E j \in DOMAIN queue' : queue'[j] = queue[k])
      /\ C!Kept(f) => \E j \in DOMAIN queue' : queue'[j] = d
  <2>1. CASE ~C!Kept(f)
    BY <1>2, <1>3, <2>1
  <2>2. CASE C!Kept(f)
    <3>1. Appends(queue, d, queue')
      BY <1>2, <1>3, <2>2 DEF Appends
    <3>2. IsSeq(queue)
      BY DEF SiteInv, QueueInv
    <3> HIDE DEF d
    <3>3. \A j \in DOMAIN queue' : queue'[j] = d \/ \E k \in DOMAIN queue : queue'[j] = queue[k]
      BY <3>1, <3>2, Appended
    <3>4. (\E j \in DOMAIN queue' : queue'[j] = d) /\ \A k \in DOMAIN queue : \E j \in DOMAIN queue' : queue'[j] = queue[k]
      BY <3>1, <3>2, AppendedHas
    <3> QED BY <2>2, <3>3, <3>4
  <2> QED BY <2>1, <2>2
<1>5. C!Kept(f) => f \in C!Files
  BY <1>0 DEF C!Files, C!ToSet
<1>6. /\ \A j \in DOMAIN queue : \E g \in C!Files : queue[j] = C!NewDocumentFromDocFile(g)
      /\ \A k \in DOMAIN docFiles : C!Kept(docFiles[k]) => k \in pending \/ \E j \in DOMAIN queue : queue[j] = C!NewDocumentFromDocFile(docFiles[k])
      /\ \A k \in pending : ~docFiles[k].asset
      /\ ~C!DetectPathCollisions
  BY <1>1 DEF PlacesInv, NoneLost
<1>7. \A j \in DOMAIN queue' : \E g \in C!Files : queue'[j] = C!NewDocumentFromDocFile(g)
  BY <1>4, <1>5, <1>6
<1>8. ASSUME NEW k \in DOMAIN docFiles, C!Kept(docFiles[k]) PROVE k \in pending' \/ \E j \in DOMAIN queue' : queue'[j] = C!NewDocumentFromDocFile(docFiles[k])
  <2>1. CASE k = i
    BY <1>4, <1>8, <2>1
  <2>2. CASE k # i
    <3> HIDE DEF d, f
    <3> QED BY <1>2, <1>4, <1>6, <1>8, <2>2
  <2> QED BY <2>1, <2>2
<1>9. \A k \in pending' : ~docFiles[k].asset
  BY <1>2, <1>6
<1> HIDE DEF d, f
<1>10. NoneLost'
  BY <1>1, <1>6, <1>7, <1>8, <1>9, SamePlaces, SamePaths DEF NoneLost
<1>11. AllPlaced'
  <2>1. \A j \in DOMAIN queue' : DocPlaced(queue'[j])
    BY <1>7 DEF DocPlaced
  <2> QED BY <1>1, <2>1, SamePlaces DEF PlacesInv, AllPlaced
<1> QED BY <1>1, <1>10, <1>11, FilesStay DEF PlacesInv

-----------------------------------------------------------------------------
(* Generated indexes.                                                       *)

(* The queue when all files have been read.                                 *)
Loaded ==
  /\ \A j \in DOMAIN queue : \E f \in C!Files : queue[j] = C!NewDocumentFromDocFile(f)
  /\ \A f \in C!Files : \E j \in DOMAIN queue : queue[j] = C!NewDocumentFromDocFile(f)

(* A document as it is read.                                                *)
LEMMA LoadedFrom ==
  ASSUME NEW f
  PROVE  LET d == C!NewDocumentFromDocFile(f) IN
         d.repo = f.repo /\ d.dir = f.dir /\ d.path = C!GetHugoPath(f) /\ (d.isIndex <=> C!IsIndexFileName(f.name))
BY DEF C!NewDocumentFromDocFile

(* A generated document keeps its path.                                     *)
LEMMA GeneratedIs ==
  ASSUME NEW repo, NEW dir, NEW path
  PROVE  LET d == C!Generated(repo, dir, path) IN
         d.gen /\ d.path = C!IndexPath(path) /\ C!NormalizeIndexFiles(d).path = C!IndexPath(path)
<1> DEFINE d == C!Generated(repo, dir, path)
<1>1. d.gen /\ d.path = C!IndexPath(path)
  BY DEF C!Generated
<1> HIDE DEF d
<1>2. C!NormalizeIndexFiles(d) = d
  BY <1>1 DEF C!NormalizeIndexFiles
<1> QED BY <1>1, <1>2 DEF d

(* The main index is generated when no file has its path, a README not yet being one.*)
LEMMA MainPlaced ==
  ASSUME Loaded, NEW m, m = C!GenerateMainIndex(queue)
  PROVE  \A i \in DOMAIN m : m[i].gen /\ GeneratedAt(m[i].path)
<1> DEFINE d == C!Generated(None, <<>>, <<>>)
           there == \E i \in DOMAIN queue : queue[i].path = C!IndexPath(<<>>)
<1>1. m = <<>> \/ (m = <<d>> /\ ~there)
  BY DEF C!GenerateMainIndex
<1>2. d.gen /\ d.path = C!IndexPath(<<>>)
  BY GeneratedIs
<1> HIDE DEF d
<1>3. ASSUME ~there PROVE GeneratedAt(d.path)
  <2>1. ASSUME NEW f \in C!Files PROVE C!GetHugoPath(f) # C!IndexPath(<<>>)
    <3>1. PICK j \in DOMAIN queue : queue[j] = C!NewDocumentFromDocFile(f)
      BY DEF Loaded
    <3>2. queue[j].path = C!GetHugoPath(f)
      BY <3>1, LoadedFrom
    <3> QED BY <1>3, <3>2
  <2> QED BY <1>2, <2>1 DEF GeneratedAt
<1> HIDE DEF there
<1>4. CASE m = <<>>
  BY <1>4
<1>5. CASE m = <<d>> /\ ~there
  <2>1. \A i \in DOMAIN m : m[i] = d
    BY <1>5
  <2> QED BY <1>2, <1>3, <1>5, <2>1
<1> QED BY <1>1, <1>4, <1>5

LEMMA EmptyAfter == ASSUME NEW a, NEW g, Located(g) PROVE <<a>> \o <<>> = <<a>> /\ SubSeq(g.dir, 1, 0) = <<>>
<1>1. <<a>> \o <<>> = <<a>>
  OBVIOUS
<1>2. g.dir \in Seq(Names)
  BY DEF Located
<1>3. SubSeq(g.dir, 1, 0) = <<>>
  BY <1>2
<1> QED BY <1>1, <1>3

(* The index of a repository is generated when it has none.                 *)
LEMMA RepositoryPlaced ==
  ASSUME FilesPlaced, Loaded, NEW D, D = C!GenerateRepositoryIndex(queue), NEW d \in D
  PROVE  d.gen /\ GeneratedAt(d.path)
<1> DEFINE named == {queue[i].repo : i \in DOMAIN queue}
           has(r) == \E i \in DOMAIN queue : queue[i].repo = r /\ queue[i].isIndex /\ queue[i].dir = <<>>
           without == {r \in named : ~has(r)}
<1>1. D = IF C!IsSingleRepo THEN {} ELSE {C!Generated(r, <<>>, <<r>>) : r \in without}
  BY DEF C!GenerateRepositoryIndex
<1>2. ~C!IsSingleRepo
  BY <1>1
<1>3. PICK r \in without : d = C!Generated(r, <<>>, <<r>>)
  BY <1>1, <1>2
<1>4. r \in named /\ ~has(r)
  OBVIOUS
<1>5. PICK i \in DOMAIN queue : queue[i].repo = r
  BY <1>4
<1>6. PICK g \in C!Files : queue[i] = C!NewDocumentFromDocFile(g)
  BY DEF Loaded
<1>7. g.repo = r
  BY <1>5, <1>6, LoadedFrom
<1>8. Located(g)
  BY <1>6 DEF FilesPlaced, C!Files, C!ToSet
<1>9. d.gen /\ d.path = C!IndexPath(<<r>>)
  BY <1>3, GeneratedIs
<1>10. SubSeq(g.dir, 1, 0) = <<>> /\ Below(g, 0) = <<r>> /\ 0 \in 0..Len(g.dir)
  <2>1. g.dir \in Seq(Names)
    BY <1>8 DEF Located
  <2>2. 0 \in 0..Len(g.dir)
    BY <2>1
  <2> QED BY <1>2, <1>7, <1>8, <2>2, EmptyAfter DEF Below
<1>11. ASSUME NEW f \in C!Files, C!IsIndexFileName(f.name) PROVE <<f.repo, f.dir>> # <<g.repo, SubSeq(g.dir, 1, 0)>>
  <2>1. PICK j \in DOMAIN queue : queue[j] = C!NewDocumentFromDocFile(f)
    BY DEF Loaded
  <2>2. queue[j].repo = f.repo /\ queue[j].dir = f.dir /\ queue[j].isIndex
    BY <1>11, <2>1, LoadedFrom
  <2>3. ~(f.repo = r /\ f.dir = <<>>)
    BY <1>4, <2>2
  <2> QED BY <1>7, <1>10, <2>3
<1> QED BY <1>9, <1>10, <1>11 DEF GeneratedAt

(* The index of a section is generated when it has none.                    *)
LEMMA SectionPlaced ==
  ASSUME FilesPlaced, Loaded, NEW D, D = C!GenerateSectionIndex(queue), NEW d \in D
  PROVE  d.gen /\ GeneratedAt(d.path)
<1> DEFINE of(i) == {<<queue[i].repo, SubSeq(queue[i].dir, 1, n)>> : n \in 1..Len(queue[i].dir)}
           all == UNION {of(i) : i \in DOMAIN queue}
           existing == {<<queue[i].repo, queue[i].dir>> : i \in {j \in DOMAIN queue : queue[j].isIndex}}
           gen(s) == C!Generated(s[1], s[2], (IF C!IsSingleRepo THEN <<>> ELSE <<s[1]>>) \o s[2])
<1>1. D = {gen(s) : s \in all \ existing}
  BY DEF C!GenerateSectionIndex
<1>2. PICK s \in all \ existing : d = gen(s)
  BY <1>1
<1>3. PICK i \in DOMAIN queue : s \in of(i)
  BY <1>2
<1>4. PICK g \in C!Files : queue[i] = C!NewDocumentFromDocFile(g)
  BY DEF Loaded
<1>5. queue[i].repo = g.repo /\ queue[i].dir = g.dir
  BY <1>4, LoadedFrom
<1>6. PICK n \in 1..Len(g.dir) : s = <<g.repo, SubSeq(g.dir, 1, n)>>
  BY <1>3, <1>5
<1>7. Located(g)
  BY <1>4 DEF FilesPlaced, C!Files, C!ToSet
<1>8. n \in 0..Len(g.dir)
  <2>1. g.dir \in Seq(Names)
    BY <1>7 DEF Located
  <2>2. Len(g.dir) \in Nat
    BY <2>1
  <2> QED BY <2>2
<1>9. s[1] = g.repo /\ s[2] = SubSeq(g.dir, 1, n)
  BY <1>6
<1>10. d.gen /\ d.path = C!IndexPath(Below(g, n))
  <2>1. d = C!Generated(s[1], s[2], (IF C!IsSingleRepo THEN <<>> ELSE <<s[1]>>) \o s[2])
    BY <1>2
  <2>2. Below(g, n) = (IF C!IsSingleRepo THEN <<>> ELSE <<s[1]>>) \o s[2]
    BY <1>9 DEF Below
  <2> QED BY <2>1, <2>2, GeneratedIs
<1>11. s \notin existing
  BY <1>2
<1>12. ASSUME NEW f \in C!Files, C!IsIndexFileName(f.name) PROVE <<f.repo, f.dir>> # <<g.repo, SubSeq(g.dir, 1, n)>>
  <2>1. PICK j \in DOMAIN queue : queue[j] = C!NewDocumentFromDocFile(f)
    BY DEF Loaded
  <2>2. queue[j].repo = f.repo /\ queue[j].dir = f.dir /\ queue[j].isIndex
    BY <1>12, <2>1, LoadedFrom
  <2>3. <<f.repo, f.dir>> \in existing
    BY <2>2
  <2> QED BY <1>6, <1>11, <2>3
<1> QED BY <1>8, <1>10, <1>12 DEF GeneratedAt

(* Where an index is not found it is generated.                             *)
LEMMA MainThere ==
  ASSUME NEW f \in C!Files, Loaded, NEW m, m = C!GenerateMainIndex(queue)
  PROVE  \/ \E g \in C!Files : C!GetHugoPath(g) = C!IndexPath(<<>>)
         \/ \E i \in DOMAIN m : C!NormalizeIndexFiles(m[i]).path = C!IndexPath(<<>>)
<1> DEFINE d == C!Generated(None, <<>>, <<>>)
           there == \E i \in DOMAIN queue : queue[i].path = C!IndexPath(<<>>)
<1>1. PICK j \in DOMAIN queue : queue[j] = C!NewDocumentFromDocFile(f)
  BY DEF Loaded
<1>2. queue # <<>>
  BY <1>1
<1>3. there \/ m = <<d>>
  BY <1>2 DEF C!GenerateMainIndex
<1>4. CASE there
  <2>1. PICK i \in DOMAIN queue : queue[i].path = C!IndexPath(<<>>)
    BY <1>4
  <2>2. PICK g \in C!Files : queue[i] = C!NewDocumentFromDocFile(g)
    BY DEF Loaded
  <2> QED BY <2>1, <2>2, LoadedFrom
<1>5. CASE m = <<d>>
  <2>1. C!NormalizeIndexFiles(d).path = C!IndexPath(<<>>)
    BY GeneratedIs
  <2> HIDE DEF d
  <2>2. 1 \in DOMAIN m /\ m[1] = d
    BY <1>5
  <2> QED BY <2>1, <2>2
<1> QED BY <1>3, <1>4, <1>5

LEMMA RepositoryThere ==
  ASSUME NEW f \in C!Files, Loaded, ~C!IsSingleRepo, NEW D, D = C!GenerateRepositoryIndex(queue)
  PROVE  \/ \E g \in C!Files : g.repo = f.repo /\ g.dir = <<>> /\ C!IsIndexFileName(g.name)
         \/ \E d \in D : C!NormalizeIndexFiles(d).path = C!IndexPath(<<f.repo>>)
<1> DEFINE named == {queue[i].repo : i \in DOMAIN queue}
           has(r) == \E i \in DOMAIN queue : queue[i].repo = r /\ queue[i].isIndex /\ queue[i].dir = <<>>
           without == {r \in named : ~has(r)}
<1>1. D = {C!Generated(r, <<>>, <<r>>) : r \in without}
  BY DEF C!GenerateRepositoryIndex
<1>2. PICK j \in DOMAIN queue : queue[j] = C!NewDocumentFromDocFile(f)
  BY DEF Loaded
<1>3. f.repo \in named
  BY <1>2, LoadedFrom
<1>4. CASE has(f.repo)
  <2>1. PICK i \in DOMAIN queue : queue[i].repo = f.repo /\ queue[i].isIndex /\ queue[i].dir = <<>>
    BY <1>4
  <2>2. PICK g \in C!Files : queue[i] = C!NewDocumentFromDocFile(g)
    BY DEF Loaded
  <2> QED BY <2>1, <2>2, LoadedFrom
<1>5. CASE ~has(f.repo)
  <2> DEFINE d == C!Generated(f.repo, <<>>, <<f.repo>>)
  <2>1. f.repo \in without
    BY <1>3, <1>5
  <2> HIDE DEF without
  <2>2. d \in D
    BY <1>1, <2>1
  <2>3. C!NormalizeIndexFiles(d).path = C!IndexPath(<<f.repo>>)
    BY GeneratedIs
  <2> QED BY <2>2, <2>3
<1> QED BY <1>4, <1>5

LEMMA SectionThere ==
  ASSUME NEW f \in C!Files, Loaded, NEW n \in 1..Len(f.dir), NEW D, D = C!GenerateSectionIndex(queue)
  PROVE  \/ \E g \in C!Files : g.repo = f.repo /\ g.dir = SubSeq(f.dir, 1, n) /\ C!IsIndexFileName(g.name)
         \/ \E d \in D : C!NormalizeIndexFiles(d).path = C!IndexPath(Below(f, n))
<1> DEFINE of(i) == {<<queue[i].repo, SubSeq(queue[i].dir, 1, k)>> : k \in 1..Len(queue[i].dir)}
           all == UNION {of(i) : i \in DOMAIN queue}
           existing == {<<queue[i].repo, queue[i].dir>> : i \in {j \in DOMAIN queue : queue[j].isIndex}}
           gen(s) == C!Generated(s[1], s[2], (IF C!IsSingleRepo THEN <<>> ELSE <<s[1]>>) \o s[2])
           s == <<f.repo, SubSeq(f.dir, 1, n)>>
<1>1. D = {gen(x) : x \in all \ existing}
  BY DEF C!GenerateSectionIndex
<1>2. PICK j \in DOMAIN queue : queue[j] = C!NewDocumentFromDocFile(f)
  BY DEF Loaded
<1>3. queue[j].repo = f.repo /\ queue[j].dir = f.dir
  BY <1>2, LoadedFrom
<1>4. s \in of(j)
  BY <1>3
<1>5. s \in all
  <2> HIDE DEF s, of
  <2> QED BY <1>4
<1>6. CASE s \in existing
  <2>1. PICK i \in DOMAIN queue : queue[i].isIndex /\ <<queue[i].repo, queue[i].dir>> = <<f.repo, SubSeq(f.dir, 1, n)>>
    BY <1>6
  <2>2. queue[i].repo = f.repo /\ queue[i].dir = SubSeq(f.dir, 1, n)
    BY <2>1
  <2>3. PICK g \in C!Files : queue[i] = C!NewDocumentFromDocFile(g)
    BY DEF Loaded
  <2> QED BY <2>1, <2>2, <2>3, LoadedFrom
<1>7. CASE s \notin existing
  <2>1. gen(s) \in D
    <3> HIDE DEF all, existing, s
    <3> QED BY <1>1, <1>5, <1>7
  <2>2. s[1] = f.repo /\ s[2] = SubSeq(f.dir, 1, n)
    OBVIOUS
  <2>3. gen(s) = C!Generated(f.repo, SubSeq(f.dir, 1, n), Below(f, n))
    BY <2>2 DEF Below
  <2>4. C!NormalizeIndexFiles(C!Generated(f.repo, SubSeq(f.dir, 1, n), Below(f, n))).path = C!IndexPath(Below(f, n))
    BY GeneratedIs
  <2> QED BY <2>1, <2>3, <2>4
<1> QED BY <1>6, <1>7

LEMMA RenamedPath ==
  ASSUME NEW a, NEW b, NEW c, NEW x, NEW p, p = [dir |-> a, name |-> b, asset |-> c]
  PROVE  [p EXCEPT !.name = x] = [dir |-> a, name |-> x, asset |-> c]
OBVIOUS

(* A file with the name of an index is the index of its directory.          *)
LEMMA IndexAt ==
  ASSUME NEW g, Located(g), ~g.asset, C!IsIndexFileName(g.name)
  PROVE  C!PathOf(g) = C!IndexPath(C!GetHugoPath(g).dir)
<1> DEFINE path == C!GetHugoPath(g)
           d == C!NewDocumentFromDocFile(g)
<1>0. g.asset = FALSE /\ g.name \in Names
  BY DEF Located
<1>1. path = [dir |-> path.dir, name |-> IF g.name.word = "index" THEN C!IndexName ELSE C!Lower(g.name), asset |-> FALSE]
  BY <1>0 DEF C!GetHugoPath
<1>2. IsDocument(d) /\ ~d.gen /\ d.name = g.name /\ d.path = path
  BY DEF C!NewDocumentFromDocFile, IsDocument, Parts
<1> HIDE DEF path, d
<1>3. C!PathOf(g) = IF g.name.word = "readme" THEN [path EXCEPT !.name = C!IndexName] ELSE path
  <2> DEFINE e == C!NormalizeIndexFiles(d)
  <2>1. e.path = IF ~d.gen /\ d.name.word = "readme" THEN [d.path EXCEPT !.name = C!IndexName] ELSE d.path
    BY <1>2, NormalizedPath
  <2>2. C!PathOf(g) = e.path
    BY DEF C!PathOf, d
  <2> HIDE DEF e
  <2> QED BY <1>2, <2>1, <2>2
<1>4. g.name.word = "_index" => C!Lower(g.name) = C!IndexName
  <2> DEFINE k == C!Lower(g.name)
             n == C!IndexName
  <2>1. k \in Names /\ k.word = g.name.word /\ k.up = FALSE
    BY <1>0, LowerIs
  <2>2. n = [word |-> "_index", up |-> FALSE]
    BY DEF C!IndexName
  <2> HIDE DEF k, n
  <2>3. k = [word |-> k.word, up |-> k.up]
    BY <2>1 DEF Names
  <2>4. g.name.word = "_index" => k = n
    BY <2>1, <2>2, <2>3
  <2> QED BY <2>4 DEF k, n
<1>5. g.name.word \in {"readme", "index", "_index"}
  BY DEF C!IsIndexFileName
<1> DEFINE n == C!IndexName
<1>6. C!IndexPath(path.dir) = [dir |-> path.dir, name |-> n, asset |-> FALSE]
  BY DEF C!IndexPath
<1>7. CASE g.name.word = "readme"
  <2> DEFINE dir == path.dir
             k == IF g.name.word = "index" THEN C!IndexName ELSE C!Lower(g.name)
             c == g.asset
  <2>1. path = [dir |-> dir, name |-> k, asset |-> c]
    BY <1>0, <1>1
  <2>2. C!IndexPath(dir) = [dir |-> dir, name |-> n, asset |-> c]
    BY <1>0, <1>6
  <2> HIDE DEF dir, k, n, c
  <2>3. [path EXCEPT !.name = n] = [dir |-> dir, name |-> n, asset |-> c]
    BY <2>1, RenamedPath
  <2>4. C!PathOf(g) = [path EXCEPT !.name = n]
    BY <1>3, <1>7 DEF n
  <2> QED BY <2>2, <2>3, <2>4 DEF path, dir
<1>8. CASE g.name.word \in {"index", "_index"}
  <2>1. C!PathOf(g) = path /\ path = [dir |-> path.dir, name |-> n, asset |-> FALSE]
    BY <1>1, <1>3, <1>4, <1>8
  <2> QED BY <1>6, <2>1 DEF path
<1> QED BY <1>5, <1>7, <1>8

(* The directories above a directory.                                       *)
LEMMA PrefixOf ==
  ASSUME NEW a \in Seq(Names), NEW m \in 0..Len(a)
  PROVE  /\ SubSeq(a, 1, m) \in Seq(Names) /\ Len(SubSeq(a, 1, m)) = m /\ \A i \in 1..m : SubSeq(a, 1, m)[i] = a[i]
         /\ C!IsLower(a) => C!IsLower(SubSeq(a, 1, m))
         /\ SubSeq(a, 1, Len(a)) = a
<1>1. SubSeq(a, 1, m) \in Seq(Names) /\ Len(SubSeq(a, 1, m)) = m /\ \A i \in 1..m : SubSeq(a, 1, m)[i] = a[i]
  OBVIOUS
<1>2. SubSeq(a, 1, Len(a)) = a
  BY SubSeqFull
<1> DEFINE b == SubSeq(a, 1, m)
<1>3. b \in Seq(Names) /\ Len(b) = m /\ \A i \in 1..m : b[i] = a[i]
  BY <1>1
<1> HIDE DEF b
<1>4. DOMAIN a = 1..Len(a) /\ DOMAIN b = 1..m /\ 1..m \subseteq 1..Len(a)
  BY <1>3
<1>5. C!IsLower(a) => C!IsLower(b)
  BY <1>3, <1>4 DEF C!IsLower
<1> QED BY <1>1, <1>2, <1>5 DEF b

(* Where nothing is in upper case, a path is as it is written.              *)
LEMMA LowerPath ==
  ASSUME NEW f, Located(f), f.forge = None, C!IsLower(<<f.repo>> \o f.dir)
  PROVE  /\ C!PathOf(f).dir = Below(f, Len(f.dir)) /\ C!GetHugoPath(f).dir = Below(f, Len(f.dir))
         /\ C!IsLower(<<f.repo>>) /\ C!IsLower(f.dir)
<1> DEFINE r == <<f.repo>>
           a == f.dir
           x == Root(f)
<1>1. r \in Seq(Names) /\ a \in Seq(Names)
  BY LowerOne DEF Located
<1>2. C!IsLower(r) /\ C!IsLower(a)
  <2> HIDE DEF r, a
  <2> QED BY <1>1, NamesJoined DEF r, a
<1>3. x = IF C!IsSingleRepo THEN <<>> ELSE r
  <2> HIDE DEF r
  <2>1. <<>> \o r = r /\ <<>> \o <<>> = <<>>
    BY <1>1, NamesJoined
  <2> QED BY <2>1 DEF Root, UnderForge, r
<1>4. SubSeq(a, 1, Len(a)) = a
  <2> HIDE DEF a
  <2> QED BY <1>1, SubSeqFull
<1>5. Below(f, Len(f.dir)) = x \o a
  BY <1>3, <1>4 DEF Below
<1>6. C!GetHugoPath(f).dir = C!LowerAll(x \o a) /\ x \o a \in Seq(Names)
  BY PathDir
<1>7. x \in Seq(Names) /\ C!IsLower(x)
  <2>1. C!IsLower(<<>>) /\ <<>> \in Seq(Names)
    BY DEF C!IsLower
  <2> HIDE DEF x, r
  <2> QED BY <1>1, <1>2, <1>3, <2>1
<1>8. C!LowerAll(x \o a) = x \o a
  <2> HIDE DEF x, a
  <2>1. C!IsLower(x \o a)
    BY <1>1, <1>2, <1>7, LowerBoth
  <2> DEFINE w == x \o a
  <2>2. w \in Seq(Names) /\ C!IsLower(w)
    BY <1>6, <2>1
  <2> HIDE DEF w
  <2>3. C!LowerAll(w) = w
    BY <2>2, LowerAgain
  <2> QED BY <2>3 DEF w
<1>9. C!PathOf(f).dir = C!GetHugoPath(f).dir
  BY DEF C!PathOf, C!NormalizeIndexFiles, C!NewDocumentFromDocFile, C!GetHugoPath
<1> QED BY <1>2, <1>5, <1>6, <1>8, <1>9

(* The index of a directory above a file.                                   *)
LEMMA IndexOf ==
  ASSUME NEW f, Located(f), f.forge = None, C!IsLower(<<f.repo>> \o f.dir), NEW m \in 0..Len(f.dir),
         NEW g, Located(g), ~g.asset, C!IsIndexFileName(g.name), g.repo = f.repo, g.dir = SubSeq(f.dir, 1, m)
  PROVE  C!PathOf(g) = C!IndexPath(Below(f, m))
<1>1. f.dir \in Seq(Names) /\ <<f.repo>> \in Seq(Names) /\ C!IsLower(<<f.repo>>) /\ C!IsLower(f.dir)
  BY LowerPath, LowerOne DEF Located
<1>2. g.dir \in Seq(Names) /\ C!IsLower(g.dir)
  BY <1>1, PrefixOf
<1>3. g.forge = None
  BY DEF Located
<1>4. C!IsLower(<<g.repo>> \o g.dir)
  <2> DEFINE r == <<f.repo>>
             b == g.dir
  <2>1. r \in Seq(Names) /\ b \in Seq(Names) /\ C!IsLower(r) /\ C!IsLower(b)
    BY <1>1, <1>2
  <2> HIDE DEF r, b
  <2>2. C!IsLower(r \o b)
    BY <2>1, LowerBoth
  <2> QED BY <2>2 DEF r, b
<1>5. C!GetHugoPath(g).dir = Below(g, Len(g.dir))
  BY <1>3, <1>4, LowerPath
<1>6. SubSeq(g.dir, 1, Len(g.dir)) = g.dir
  BY <1>2, SubSeqFull
<1>7. Below(g, Len(g.dir)) = Below(f, m)
  BY <1>6 DEF Below
<1> QED BY <1>5, <1>7, IndexAt

(* A directory above a page is the site's root or one of its repository.    *)
LEMMA PrefixBelow ==
  ASSUME NEW f, Located(f), NEW n \in 0..Len(Below(f, Len(f.dir)))
  PROVE  \/ SubSeq(Below(f, Len(f.dir)), 1, n) = <<>>
         \/ \E m \in 0..Len(f.dir) : SubSeq(Below(f, Len(f.dir)), 1, n) = Below(f, m) /\ (C!IsSingleRepo => m > 0)
<1> DEFINE a == f.dir
           x == Below(f, Len(a))
           r == <<f.repo>>
<1>1. a \in Seq(Names) /\ r \in Seq(Names) /\ Len(r) = 1
  BY LowerOne DEF Located
<1>2. SubSeq(a, 1, Len(a)) = a
  <2> HIDE DEF a
  <2> QED BY <1>1, SubSeqFull
<1>3. CASE C!IsSingleRepo
  <2>1. x = <<>> \o a /\ \A m : Below(f, m) = <<>> \o SubSeq(a, 1, m)
    BY <1>2, <1>3 DEF Below
  <2> HIDE DEF a
  <2>2. <<>> \o a = a
    BY <1>1, NamesJoined
  <2>3. n \in 0..Len(a) /\ x = a
    BY <2>1, <2>2 DEF a
  <2>4. SubSeq(a, 1, n) \in Seq(Names)
    BY <1>1, <2>3, PrefixOf
  <2> DEFINE b == SubSeq(a, 1, n)
  <2>5. b \in Seq(Names)
    BY <2>4
  <2>6. <<>> \o b = b
    <3> HIDE DEF b
    <3> QED BY <2>5, NamesJoined
  <2>7. Below(f, n) = SubSeq(x, 1, n)
    BY <2>1, <2>3, <2>6
  <2>8. n = 0 => SubSeq(a, 1, n) = <<>>
    BY <1>1
  <2>9. n = 0 => SubSeq(x, 1, n) = <<>>
    BY <2>3, <2>8
  <2>10. n \in 0..Len(f.dir) /\ (n = 0 \/ n > 0)
    BY <2>3 DEF a
  <2> HIDE DEF x, b
  <2> QED BY <2>7, <2>9, <2>10 DEF x, a
<1>4. CASE ~C!IsSingleRepo
  <2>1. x = r \o a /\ \A m : Below(f, m) = r \o SubSeq(a, 1, m)
    BY <1>2, <1>4 DEF Below
  <2> HIDE DEF a
  <2>2. Len(a) \in Nat
    BY <1>1
  <2> HIDE DEF r
  <2>3. r \o a \in Seq(Names) /\ Len(r \o a) = 1 + Len(a) /\ \A i \in 1..(1 + Len(a)) : (r \o a)[i] = IF i <= 1 THEN r[i] ELSE a[i - 1]
    <3>1. r \o a \in Seq(Names) /\ Len(r \o a) = Len(r) + Len(a) /\ \A i \in 1..(Len(r) + Len(a)) : (r \o a)[i] = IF i <= Len(r) THEN r[i] ELSE a[i - Len(r)]
      BY <1>1, ConcatProperties
    <3> QED BY <1>1, <3>1
  <2>4. CASE n = 0
    <3>1. SubSeq(r \o a, 1, 0) = <<>>
      <4> DEFINE w == r \o a
      <4>1. w \in Seq(Names)
        BY <2>3
      <4> HIDE DEF w
      <4>2. SubSeq(w, 1, 0) = <<>>
        BY <4>1
      <4> QED BY <4>2 DEF w
    <3> QED BY <2>1, <2>4, <3>1 DEF a
  <2>5. CASE n > 0
    <3> DEFINE m == n - 1
               b == SubSeq(a, 1, m)
               w == r \o a
               u == SubSeq(w, 1, n)
               v == r \o b
    <3>1. n \in 1..(1 + Len(a)) /\ m \in 0..Len(a)
      BY <2>1, <2>2, <2>3, <2>5 DEF a
    <3>2. b \in Seq(Names) /\ Len(b) = m /\ \A i \in 1..m : b[i] = a[i]
      <4> HIDE DEF m
      <4> QED BY <1>1, <3>1, PrefixOf
    <3>3. w \in Seq(Names) /\ Len(w) = 1 + Len(a) /\ \A i \in 1..(1 + Len(a)) : w[i] = IF i <= 1 THEN r[i] ELSE a[i - 1]
      BY <2>3
    <3> HIDE DEF b, w
    <3>4. u \in Seq(Names) /\ Len(u) = n /\ \A i \in 1..n : u[i] = w[i]
      <4>1. n \in 0..Len(w)
        BY <2>2, <3>1, <3>3
      <4> QED BY <3>3, <4>1, PrefixOf
    <3>5. v \in Seq(Names) /\ Len(v) = 1 + m /\ \A i \in 1..(1 + m) : v[i] = IF i <= 1 THEN r[i] ELSE b[i - 1]
      <4>1. b \in Seq(Names)
        BY <3>2
      <4>2. v \in Seq(Names) /\ Len(v) = Len(r) + Len(b) /\ \A i \in 1..(Len(r) + Len(b)) : v[i] = IF i <= Len(r) THEN r[i] ELSE b[i - Len(r)]
        BY <1>1, <4>1, ConcatProperties
      <4> HIDE DEF v, m
      <4> QED BY <1>1, <3>2, <4>2
    <3> HIDE DEF u, v
    <3>6. ASSUME NEW i \in 1..n PROVE u[i] = v[i]
      <4>1. i \in 1..(1 + Len(a)) /\ i \in 1..(1 + m)
        BY <2>2, <3>1
      <4>2. CASE i <= 1
        BY <3>3, <3>4, <3>5, <4>1, <4>2
      <4>3. CASE ~(i <= 1)
        <5>1. i - 1 \in 1..m
          BY <3>1, <4>1, <4>3
        <5> QED BY <3>2, <3>3, <3>4, <3>5, <4>1, <4>3, <5>1
      <4> QED BY <4>2, <4>3
    <3>7. u = v
      <4>1. Len(u) = Len(v) /\ \A i \in 1..Len(u) : u[i] = v[i]
        BY <2>2, <3>1, <3>4, <3>5, <3>6
      <4>2. u \in Seq(Names) /\ v \in Seq(Names)
        BY <3>4, <3>5
      <4> QED BY <4>1, <4>2, SameNames
    <3>8. SubSeq(x, 1, n) = Below(f, m)
      BY <2>1, <3>7 DEF u, v, w, b
    <3>9. m \in 0..Len(f.dir)
      BY <3>1 DEF a
    <3> HIDE DEF x, m
    <3> QED BY <1>4, <3>8, <3>9 DEF x, a
  <2> QED BY <2>4, <2>5
<1> QED BY <1>3, <1>4

-----------------------------------------------------------------------------
(* The documents that are processed.                                        *)

(* Whatever the order, all are there.                                       *)
LEMMA OrdersAreAll ==
  ASSUME NEW S, IsFiniteSet(S), NEW q \in C!SetToSeqs(S)
  PROVE  \A x \in S : \E i \in DOMAIN q : q[i] = x
<1> DEFINE n == Cardinality(S)
<1>1. n \in Nat /\ C!Cardinality(S) = n
  <2>1. C!Cardinality(S) = Cardinality(S)
    BY Zenon DEF C!Cardinality, Cardinality
  <2> QED BY <2>1, FS_CardinalityType
<1> HIDE DEF n
<1>2. q \in [1..n -> S] /\ \A i, j \in 1..n : i # j => q[i] # q[j]
  BY <1>1 DEF C!SetToSeqs
<1>3. q \in Injection(1..n, S)
  <2>1. \A i, j \in 1..n : q[i] = q[j] => i = j
    BY <1>2
  <2>2. q \in [1..n -> S]
    BY <1>2
  <2> QED BY <2>1, <2>2 DEF Injection, IsInjective
<1>4. Cardinality(1..n) = n /\ IsFiniteSet(1..n)
  BY <1>1, FS_Interval
<1>5. q \in Surjection(1..n, S)
  BY <1>3, <1>4, FS_Injection DEF n
<1>6. \A x \in S : \E i \in 1..n : q[i] = x
  BY <1>5 DEF Surjection
<1> QED BY <1>2, <1>6

JoinsFour(q, m, r, s, w) == w = q \o m \o r \o s
(* Four sequences in a row have what each has and no more.                  *)
LEMMA FourJoined ==
  ASSUME NEW q, IsSeq(q), NEW m, IsSeq(m), NEW r, IsSeq(r), NEW s, IsSeq(s), NEW w, JoinsFour(q, m, r, s, w)
  PROVE  /\ \A i \in DOMAIN w :
              (\E j \in DOMAIN q : w[i] = q[j])
              \/ (\E j \in DOMAIN m : w[i] = m[j])
              \/ (\E j \in DOMAIN r : w[i] = r[j])
              \/ (\E j \in DOMAIN s : w[i] = s[j])
         /\ \A j \in DOMAIN q : \E i \in DOMAIN w : w[i] = q[j]
         /\ \A j \in DOMAIN m : \E i \in DOMAIN w : w[i] = m[j]
         /\ \A j \in DOMAIN r : \E i \in DOMAIN w : w[i] = r[j]
         /\ \A j \in DOMAIN s : \E i \in DOMAIN w : w[i] = s[j]
<1> DEFINE a == q \o m
           b == a \o r
<1>1. /\ IsSeq(a) /\ \A i \in DOMAIN a : (\E j \in DOMAIN q : a[i] = q[j]) \/ (\E j \in DOMAIN m : a[i] = m[j])
      /\ (\A j \in DOMAIN q : \E i \in DOMAIN a : a[i] = q[j]) /\ \A j \in DOMAIN m : \E i \in DOMAIN a : a[i] = m[j]
  <2>1. Joins(q, m, a)
    BY DEF Joins
  <2> HIDE DEF a
  <2>2. IsSeq(a) /\ \A i \in DOMAIN a : (\E j \in DOMAIN q : a[i] = q[j]) \/ (\E j \in DOMAIN m : a[i] = m[j])
    BY <2>1, Joined
  <2>3. (\A j \in DOMAIN q : \E i \in DOMAIN a : a[i] = q[j]) /\ \A j \in DOMAIN m : \E i \in DOMAIN a : a[i] = m[j]
    BY <2>1, JoinedHas
  <2> QED BY <2>2, <2>3
<1>2. Joins(b, s, w)
  BY DEF Joins, JoinsFour
<1> HIDE DEF a
<1>3. /\ IsSeq(b) /\ \A i \in DOMAIN b : (\E j \in DOMAIN a : b[i] = a[j]) \/ (\E j \in DOMAIN r : b[i] = r[j])
      /\ (\A j \in DOMAIN a : \E i \in DOMAIN b : b[i] = a[j]) /\ \A j \in DOMAIN r : \E i \in DOMAIN b : b[i] = r[j]
  <2>1. Joins(a, r, b)
    BY DEF Joins
  <2>2. IsSeq(a)
    BY <1>1
  <2> HIDE DEF b
  <2>3. IsSeq(b) /\ \A i \in DOMAIN b : (\E j \in DOMAIN a : b[i] = a[j]) \/ (\E j \in DOMAIN r : b[i] = r[j])
    BY <2>1, <2>2, Joined
  <2>4. (\A j \in DOMAIN a : \E i \in DOMAIN b : b[i] = a[j]) /\ \A j \in DOMAIN r : \E i \in DOMAIN b : b[i] = r[j]
    BY <2>1, <2>2, JoinedHas
  <2> QED BY <2>3, <2>4
<1> HIDE DEF b
<1>4. /\ \A i \in DOMAIN w : (\E j \in DOMAIN b : w[i] = b[j]) \/ (\E j \in DOMAIN s : w[i] = s[j])
      /\ (\A j \in DOMAIN b : \E i \in DOMAIN w : w[i] = b[j]) /\ \A j \in DOMAIN s : \E i \in DOMAIN w : w[i] = s[j]
  <2>1. Joins(b, s, w)
    BY <1>2
  <2>2. IsSeq(b)
    BY <1>3
  <2>3. \A i \in DOMAIN w : (\E j \in DOMAIN b : w[i] = b[j]) \/ (\E j \in DOMAIN s : w[i] = s[j])
    BY <2>1, <2>2, Joined
  <2>4. (\A j \in DOMAIN b : \E i \in DOMAIN w : w[i] = b[j]) /\ \A j \in DOMAIN s : \E i \in DOMAIN w : w[i] = s[j]
    BY <2>1, <2>2, JoinedHas
  <2> QED BY <2>3, <2>4
<1>5. \A j \in DOMAIN a : \E i \in DOMAIN w : w[i] = a[j]
  BY <1>3, <1>4
<1>6. (\A j \in DOMAIN q : \E i \in DOMAIN w : w[i] = q[j]) /\ \A j \in DOMAIN m : \E i \in DOMAIN w : w[i] = m[j]
  BY <1>1, <1>5
<1>7. \A j \in DOMAIN r : \E i \in DOMAIN w : w[i] = r[j]
  BY <1>3, <1>4
<1>8. \A i \in DOMAIN w :
             \/ \E j \in DOMAIN q : w[i] = q[j]
             \/ \E j \in DOMAIN m : w[i] = m[j]
             \/ \E j \in DOMAIN r : w[i] = r[j]
             \/ \E j \in DOMAIN s : w[i] = s[j]
  <2> TAKE i \in DOMAIN w
  <2>1. CASE \E j \in DOMAIN s : w[i] = s[j]
    BY <2>1
  <2>2. CASE \E j \in DOMAIN b : w[i] = b[j]
    <3>1. PICK j \in DOMAIN b : w[i] = b[j]
      BY <2>2
    <3>2. CASE \E k \in DOMAIN r : b[j] = r[k]
      BY <3>1, <3>2
    <3>3. CASE \E k \in DOMAIN a : b[j] = a[k]
      BY <1>1, <3>1, <3>3
    <3> QED BY <1>3, <3>2, <3>3
  <2> QED BY <1>4, <2>1, <2>2
<1>9. \A j \in DOMAIN s : \E i \in DOMAIN w : w[i] = s[j]
  BY <1>4
<1> QED BY <1>6, <1>7, <1>8, <1>9

(* The queue of what was read and of what is generated.                     *)
LEMMA ProcessedQueue ==
  ASSUME SiteInv, C!ProcessContent, NEW m, m = C!GenerateMainIndex(queue), NEW R, R = C!GenerateRepositoryIndex(queue),
         NEW S, S = C!GenerateSectionIndex(queue)
  PROVE  /\ \A i \in DOMAIN queue' : (\E j \in DOMAIN queue : queue'[i] = queue[j]) \/ (\E j \in DOMAIN m : queue'[i] = m[j]) \/ queue'[i] \in R \cup S
         /\ \A j \in DOMAIN queue : \E i \in DOMAIN queue' : queue'[i] = queue[j]
         /\ \A j \in DOMAIN m : \E i \in DOMAIN queue' : queue'[i] = m[j]
         /\ \A d \in R \cup S : \E i \in DOMAIN queue' : queue'[i] = d
<1>1. building = "load"
  BY DEF C!ProcessContent
<1>2. PICK r \in C!SetToSeqs(R), s \in C!SetToSeqs(S) : queue' = queue \o m \o r \o s
  BY DEF C!ProcessContent
<1>3. IsSeq(queue) /\ \A i \in DOMAIN queue : Fresh(queue[i]) /\ FromFile(queue[i])
  BY <1>1 DEF SiteInv, QueueInv
<1>4. IsSeq(m)
  BY MainIndexes
<1>5. IsFiniteSet(R)
  BY <1>3, RepositoryIndexes
<1>6. IsFiniteSet(S)
  <2>1. \A i \in DOMAIN queue : Len(queue[i].dir) \in Nat
    BY <1>3 DEF FromFile, IsDocFile
  <2> QED BY <1>3, <2>1, SectionIndexes
<1>7. IsSeq(r) /\ (\A i \in DOMAIN r : r[i] \in R) /\ \A x \in R : \E i \in DOMAIN r : r[i] = x
  BY <1>5, OrdersAreSeqs, OrdersAreAll
<1>8. IsSeq(s) /\ (\A i \in DOMAIN s : s[i] \in S) /\ \A x \in S : \E i \in DOMAIN s : s[i] = x
  BY <1>6, OrdersAreSeqs, OrdersAreAll
<1>9. IsSeq(queue) /\ IsSeq(r) /\ IsSeq(s)
  BY <1>3, <1>7, <1>8
<1> DEFINE w == queue'
<1>10. JoinsFour(queue, m, r, s, w)
  BY <1>2 DEF JoinsFour
<1> HIDE DEF w
<1>11. /\ \A i \in DOMAIN w :
              (\E j \in DOMAIN queue : w[i] = queue[j])
              \/ (\E j \in DOMAIN m : w[i] = m[j])
              \/ (\E j \in DOMAIN r : w[i] = r[j])
              \/ (\E j \in DOMAIN s : w[i] = s[j])
       /\ \A j \in DOMAIN queue : \E i \in DOMAIN w : w[i] = queue[j]
       /\ \A j \in DOMAIN m : \E i \in DOMAIN w : w[i] = m[j]
       /\ \A j \in DOMAIN r : \E i \in DOMAIN w : w[i] = r[j]
       /\ \A j \in DOMAIN s : \E i \in DOMAIN w : w[i] = s[j]
  BY <1>4, <1>9, <1>10, FourJoined
<1>12. \A i \in DOMAIN w : (\E j \in DOMAIN queue : w[i] = queue[j]) \/ (\E j \in DOMAIN m : w[i] = m[j]) \/ w[i] \in R \cup S
  BY <1>7, <1>8, <1>11
<1>13. ASSUME NEW d \in R \cup S PROVE \E i \in DOMAIN w : w[i] = d
  <2>1. CASE d \in R
    BY <1>7, <1>11, <2>1
  <2>2. CASE d \in S
    BY <1>8, <1>11, <2>2
  <2> QED BY <2>1, <2>2
<1> QED BY <1>11, <1>12, <1>13 DEF w

(* A file that is kept.                                                     *)
LEMMA FileIs == ASSUME FilesPlaced, NEW f \in C!Files PROVE Located(f) /\ Comes(f) /\ ~f.asset
BY DEF FilesPlaced, C!Files, C!ToSet, C!Kept

(* A page that is already an index stays where it is.                       *)
LEMMA IndexStays ==
  ASSUME NEW g, Located(g), ~g.asset, NEW dir, C!GetHugoPath(g) = C!IndexPath(dir)
  PROVE  C!PathOf(g) = C!IndexPath(dir)
<1> DEFINE d == C!NewDocumentFromDocFile(g)
<1>1. d.path = C!GetHugoPath(g) /\ d.name = g.name /\ ~d.gen
  BY DEF C!NewDocumentFromDocFile
<1>2. g.name.word # "readme"
  <2>1. SUFFICES ASSUME g.name.word = "readme" PROVE FALSE
    OBVIOUS
  <2>2. C!GetHugoPath(g).name = C!Lower(g.name)
    BY <2>1 DEF C!GetHugoPath
  <2>3. C!Lower(g.name).word = "readme"
    BY <2>1, LowerIs DEF Located
  <2>4. C!IndexPath(dir).name.word = "_index"
    BY DEF C!IndexPath, C!IndexName
  <2> QED BY <2>2, <2>3, <2>4
<1> HIDE DEF d
<1>3. C!NormalizeIndexFiles(d) = d
  BY <1>1, <1>2 DEF C!NormalizeIndexFiles
<1> QED BY <1>1, <1>3 DEF C!PathOf, d

(* Each directory above a page has an index that was found or is generated. *)
LEMMA IndexesAbove ==
  ASSUME FilesPlaced, Loaded, NEW f \in C!Files, f.forge = None, C!IsLower(<<f.repo>> \o f.dir),
         NEW main, main = C!GenerateMainIndex(queue), NEW R, R = C!GenerateRepositoryIndex(queue),
         NEW S, S = C!GenerateSectionIndex(queue),
         NEW n \in 0..Len(C!PathOf(f).dir), NEW p, p = C!IndexPath(SubSeq(C!PathOf(f).dir, 1, n))
  PROVE  \/ \E g \in C!Files : C!PathOf(g) = p
         \/ \E i \in DOMAIN main : C!NormalizeIndexFiles(main[i]).path = p
         \/ \E d \in R \cup S : C!NormalizeIndexFiles(d).path = p
<1> DEFINE x == Below(f, Len(f.dir))
<1>1. Located(f)
  BY FileIs
<1>2. C!PathOf(f).dir = x
  BY <1>1, LowerPath
<1>3. n \in 0..Len(x) /\ p = C!IndexPath(SubSeq(x, 1, n))
  BY <1>2
<1>4. \/ SubSeq(x, 1, n) = <<>>
      \/ \E m \in 0..Len(f.dir) : SubSeq(x, 1, n) = Below(f, m) /\ (C!IsSingleRepo => m > 0)
  BY <1>1, <1>3, PrefixBelow
<1> HIDE DEF x
<1>5. CASE SubSeq(x, 1, n) = <<>>
  <2>1. p = C!IndexPath(<<>>)
    BY <1>3, <1>5
  <2>2. CASE \E g \in C!Files : C!GetHugoPath(g) = C!IndexPath(<<>>)
    <3>1. PICK g \in C!Files : C!GetHugoPath(g) = C!IndexPath(<<>>)
      BY <2>2
    <3>2. C!PathOf(g) = C!IndexPath(<<>>)
      BY <3>1, FileIs, IndexStays
    <3> QED BY <2>1, <3>2
  <2>3. CASE \E i \in DOMAIN main : C!NormalizeIndexFiles(main[i]).path = C!IndexPath(<<>>)
    BY <2>1, <2>3
  <2> QED BY <2>2, <2>3, MainThere
<1>6. CASE \E m \in 0..Len(f.dir) : SubSeq(x, 1, n) = Below(f, m) /\ (C!IsSingleRepo => m > 0)
  <2>1. PICK m \in 0..Len(f.dir) : SubSeq(x, 1, n) = Below(f, m) /\ (C!IsSingleRepo => m > 0)
    BY <1>6
  <2>2. p = C!IndexPath(Below(f, m))
    BY <1>3, <2>1
  <2>3. ASSUME NEW g \in C!Files, g.repo = f.repo, g.dir = SubSeq(f.dir, 1, m), C!IsIndexFileName(g.name)
        PROVE  C!PathOf(g) = p
    <3>1. Located(g) /\ ~g.asset
      BY FileIs
    <3> QED BY <1>1, <2>2, <2>3, <3>1, IndexOf
  <2>4. CASE m = 0
    <3>1. ~C!IsSingleRepo
      BY <2>1, <2>4
    <3>2. SubSeq(f.dir, 1, m) = <<>> /\ Below(f, m) = <<f.repo>>
      BY <1>1, <2>4, <3>1, EmptyAfter DEF Below
    <3> QED BY <2>2, <2>3, <3>1, <3>2, RepositoryThere
  <2>5. CASE m # 0
    <3>1. m \in 1..Len(f.dir)
      BY <2>5
    <3> QED BY <2>2, <2>3, <3>1, SectionThere
  <2> QED BY <2>4, <2>5
<1> QED BY <1>4, <1>5, <1>6

(* Every file and every index above it is in the queue.                     *)
LEMMA ProcessPlaces == ASSUME SiteInv, PlacesInv, C!ProcessContent PROVE PlacesInv'
<1>1. /\ site' = site /\ building = "load" /\ pending = {} /\ building' = "process" /\ docFiles' = docFiles /\ docs' = docs
      /\ out' = out
  BY DEF C!ProcessContent
<1>2. FilesPlaced /\ AllPlaced /\ ~C!DetectPathCollisions
  BY <1>1 DEF PlacesInv, NoneLost
<1>3. Loaded
  <2>1. \A j \in DOMAIN queue : \E f \in C!Files : queue[j] = C!NewDocumentFromDocFile(f)
    BY <1>1 DEF PlacesInv, NoneLost
  <2>2. ASSUME NEW f \in C!Files PROVE \E j \in DOMAIN queue : queue[j] = C!NewDocumentFromDocFile(f)
    <3>1. PICK i \in DOMAIN docFiles : f = docFiles[i] /\ C!Kept(docFiles[i])
      BY DEF C!Files, C!ToSet
    <3> QED BY <1>1, <3>1 DEF PlacesInv, NoneLost
  <2> QED BY <2>1, <2>2 DEF Loaded
<1> DEFINE main == C!GenerateMainIndex(queue)
           R == C!GenerateRepositoryIndex(queue)
           S == C!GenerateSectionIndex(queue)
           T1 == {C!NormalizeIndexFiles(queue'[i]).path : i \in DOMAIN queue'}
<1>4. /\ \A i \in DOMAIN queue' : (\E j \in DOMAIN queue : queue'[i] = queue[j]) \/ (\E j \in DOMAIN main : queue'[i] = main[j]) \/ queue'[i] \in R \cup S
      /\ \A j \in DOMAIN queue : \E i \in DOMAIN queue' : queue'[i] = queue[j]
      /\ \A j \in DOMAIN main : \E i \in DOMAIN queue' : queue'[i] = main[j]
      /\ \A d \in R \cup S : \E i \in DOMAIN queue' : queue'[i] = d
  BY ProcessedQueue
<1>5. /\ \A i \in DOMAIN main : main[i].gen /\ GeneratedAt(main[i].path)
      /\ \A d \in R \cup S : d.gen /\ GeneratedAt(d.path)
  BY <1>2, <1>3, MainPlaced, RepositoryPlaced, SectionPlaced
<1>6. ASSUME NEW f \in C!Files, f.forge = None, C!IsLower(<<f.repo>> \o f.dir), NEW n \in 0..Len(C!PathOf(f).dir)
      PROVE  LET p == C!IndexPath(SubSeq(C!PathOf(f).dir, 1, n)) IN
             \/ \E g \in C!Files : C!PathOf(g) = p
             \/ \E i \in DOMAIN main : C!NormalizeIndexFiles(main[i]).path = p
             \/ \E d \in R \cup S : C!NormalizeIndexFiles(d).path = p
  BY <1>2, <1>3, <1>6, IndexesAbove
<1> HIDE DEF main, R, S
<1>7. ASSUME NEW f \in C!Files PROVE C!PathOf(f) \in T1
  <2>1. PICK j \in DOMAIN queue : queue[j] = C!NewDocumentFromDocFile(f)
    BY <1>3 DEF Loaded
  <2>2. PICK i \in DOMAIN queue' : queue'[i] = queue[j]
    BY <1>4
  <2>3. C!PathOf(f) = C!NormalizeIndexFiles(queue'[i]).path
    BY <2>1, <2>2 DEF C!PathOf
  <2> QED BY <2>3
<1>8. (\A i \in DOMAIN main : C!NormalizeIndexFiles(main[i]).path \in T1) /\ \A d \in R \cup S : C!NormalizeIndexFiles(d).path \in T1
  BY <1>4
<1>9. \A x \in T1 : x \in Reach'
  BY DEF Reach
<1> HIDE DEF T1
<1>10. ASSUME NEW f \in C!Files PROVE OnItsWay(f)'
  <2>1. C!PathOf(f)' = C!PathOf(f)
    BY <1>1, SamePaths
  <2>2. C!PathOf(f) \in Reach'
    BY <1>7, <1>9
  <2>3. ASSUME f.forge = None, C!IsLower(<<f.repo>> \o f.dir), NEW n \in 0..Len(C!PathOf(f).dir)
        PROVE  C!IndexPath(SubSeq(C!PathOf(f).dir, 1, n)) \in T1
    BY <1>6, <1>7, <1>8, <2>3
  <2>4. f.forge = None /\ C!IsLower(<<f.repo>> \o f.dir) =>
          \A n \in 0..Len(C!PathOf(f).dir) : C!IndexPath(SubSeq(C!PathOf(f).dir, 1, n)) \in Reach'
    BY <1>9, <2>3
  <2> QED BY <2>1, <2>2, <2>4 DEF OnItsWay
<1>11. NoneLost'
  <2>1. C!Files' = C!Files /\ ~C!DetectPathCollisions'
    BY <1>1, <1>2, SamePlaces
  <2>2. \A f \in C!Files' : OnItsWay(f)'
    BY <1>10, <2>1
  <2> QED BY <1>1, <2>1, <2>2 DEF NoneLost
<1>12. AllPlaced'
  <2>1. \A i \in DOMAIN queue' : DocPlaced(queue'[i])
    BY <1>2, <1>4, <1>5 DEF AllPlaced, DocPlaced
  <2> QED BY <1>1, <1>2, <2>1, SamePlaces DEF AllPlaced
<1> QED BY <1>1, <1>2, <1>11, <1>12, FilesStay DEF PlacesInv

(* What is on its way stays so when no path is dropped.                     *)
LEMMA WayStays ==
  ASSUME site' = site, docFiles' = docFiles, \A x \in Reach : x \in Reach', \A f \in C!Files : OnItsWay(f)
  PROVE  \A f \in C!Files' : OnItsWay(f)'
<1>1. C!Files' = C!Files
  BY SamePlaces
<1>2. ASSUME NEW f \in C!Files PROVE OnItsWay(f)'
  <2>1. C!PathOf(f)' = C!PathOf(f)
    BY SamePaths
  <2>2. OnItsWay(f)
    OBVIOUS
  <2> QED BY <2>1, <2>2 DEF OnItsWay
<1> QED BY <1>1, <1>2

(* A transformed document goes on to the pages.                             *)
LEMMA TransformsPlace == ASSUME SiteInv, PlacesInv, C!ProcessTransforms PROVE PlacesInv'
<1>1. site' = site /\ building = "process" /\ docFiles' = docFiles /\ out' = out
  BY DEF C!ProcessTransforms
<1>2. FilesPlaced /\ AllPlaced /\ ~C!DetectPathCollisions /\ \A f \in C!Files : OnItsWay(f)
  BY <1>1 DEF PlacesInv, NoneLost
<1>3. CASE queue = <<>>
  <2>1. queue' = queue /\ docs' = docs /\ building' = "write"
    BY <1>3 DEF C!ProcessTransforms
  <2>2. \A f \in C!Files' : OnItsWay(f)'
    <3>1. \A x \in Reach : x \in Reach'
      BY <1>1, <2>1 DEF Reach
    <3> QED BY <1>1, <1>2, <3>1, WayStays
  <2>3. NoneLost'
    BY <1>1, <1>2, <1>3, <2>1, <2>2, SamePlaces DEF NoneLost
  <2>4. AllPlaced'
    BY <1>1, <1>2, <2>1, SamePlaces DEF AllPlaced
  <2> QED BY <1>1, <1>2, <2>3, <2>4, FilesStay DEF PlacesInv
<1>4. CASE queue # <<>>
  <2> DEFINE h == Head(queue)
             e == C!Transform(h)
  <2>1. queue' = Tail(queue) /\ docs' = Append(docs, e) /\ building' = "process"
    BY <1>1, <1>4 DEF C!ProcessTransforms
  <2>2. IsSeq(queue) /\ IsSeq(docs) /\ \A i \in DOMAIN queue : Fresh(queue[i])
    BY DEF SiteInv, QueueInv, DocsInv
  <2>3. Drops(queue, queue')
    BY <1>4, <2>1 DEF Drops
  <2>4. /\ \A i \in DOMAIN queue' : \E j \in DOMAIN queue : queue'[i] = queue[j]
        /\ 1 \in DOMAIN queue /\ h = queue[1]
        /\ \A j \in DOMAIN queue : queue[j] = h \/ \E i \in DOMAIN queue' : queue'[i] = queue[j]
    <3>1. IsSeq(queue)
      BY <2>2
    <3> HIDE DEF e
    <3> QED BY <2>3, <3>1, Dropped, DroppedHas
  <2>5. Fresh(h) /\ DocPlaced(h)
    BY <1>2, <2>2, <2>4 DEF AllPlaced
  <2> HIDE DEF h
  <2>6. PagePlaced(e.path, e.raw.page) /\ e.path = C!NormalizeIndexFiles(h).path
    BY <1>2, <2>5, TransformPlaces
  <2>7. Appends(docs, e, docs')
    BY <2>1 DEF Appends
  <2> HIDE DEF e
  <2>8. /\ \A i \in DOMAIN docs' : docs'[i] = e \/ \E j \in DOMAIN docs : docs'[i] = docs[j]
        /\ \E i \in DOMAIN docs' : docs'[i] = e
        /\ \A j \in DOMAIN docs : \E i \in DOMAIN docs' : docs'[i] = docs[j]
    <3>1. IsSeq(docs)
      BY <2>2
    <3> QED BY <2>7, <3>1, Appended, AppendedHas
  <2>9. ASSUME NEW x \in Reach PROVE x \in Reach'
    <3>1. e.path \in Reach'
      BY <2>8 DEF Reach
    <3>2. CASE x \in DOMAIN out
      BY <1>1, <3>2 DEF Reach
    <3>3. CASE \E i \in DOMAIN docs : x = docs[i].path
      BY <2>8, <3>3 DEF Reach
    <3>4. CASE \E i \in DOMAIN queue : x = C!NormalizeIndexFiles(queue[i]).path
      <4>1. PICK i \in DOMAIN queue : x = C!NormalizeIndexFiles(queue[i]).path
        BY <3>4
      <4>2. CASE queue[i] = h
        BY <2>6, <3>1, <4>1, <4>2
      <4>3. CASE \E j \in DOMAIN queue' : queue'[j] = queue[i]
        BY <4>1, <4>3 DEF Reach
      <4> QED BY <2>4, <4>2, <4>3
    <3> QED BY <3>2, <3>3, <3>4 DEF Reach
  <2>10. \A f \in C!Files' : OnItsWay(f)'
    BY <1>1, <1>2, <2>9, WayStays
  <2>11. NoneLost'
    BY <1>1, <1>2, <2>1, <2>10, SamePlaces DEF NoneLost
  <2>12. AllPlaced'
    <3>1. \A i \in DOMAIN queue' : DocPlaced(queue'[i])
      BY <1>2, <2>4 DEF AllPlaced
    <3>2. \A i \in DOMAIN docs' : PagePlaced(docs'[i].path, docs'[i].raw.page)
      BY <1>2, <2>6, <2>8 DEF AllPlaced
    <3> QED BY <1>1, <1>2, <3>1, <3>2, SamePlaces DEF AllPlaced
  <2> QED BY <1>1, <1>2, <2>11, <2>12, FilesStay DEF PlacesInv
<1> QED BY <1>3, <1>4

(* A page that is written takes only its own path.                          *)
LEMMA WritePlaces == ASSUME SiteInv, PlacesInv, C!WriteDocument PROVE PlacesInv'
<1>1. site' = site /\ building = "write" /\ building' = building /\ docFiles' = docFiles /\ queue' = queue
  BY DEF C!WriteDocument
<1>2. FilesPlaced /\ AllPlaced /\ ~C!DetectPathCollisions /\ queue = <<>> /\ \A f \in C!Files : OnItsWay(f)
  BY <1>1 DEF PlacesInv, NoneLost
<1> DEFINE d == Head(docs)
<1>3. docs # <<>> /\ docs' = Tail(docs) /\ out' = C!Put(d.path, d.raw)
  BY DEF C!WriteDocument
<1>4. IsSeq(docs) /\ Drops(docs, docs')
  BY <1>3 DEF SiteInv, DocsInv, Drops
<1>5. /\ \A i \in DOMAIN docs' : \E j \in DOMAIN docs : docs'[i] = docs[j]
      /\ 1 \in DOMAIN docs /\ d = docs[1]
      /\ \A j \in DOMAIN docs : docs[j] = d \/ \E i \in DOMAIN docs' : docs'[i] = docs[j]
  <2>1. IsSeq(docs)
    BY <1>4
  <2>2. Drops(docs, docs')
    BY <1>4
  <2> QED BY <2>1, <2>2, Dropped, DroppedHas
<1>6. PagePlaced(d.path, d.raw.page)
  BY <1>2, <1>5 DEF AllPlaced
<1> HIDE DEF d
<1>7. DOMAIN out' = DOMAIN out \cup {d.path} /\ out'[d.path] = d.raw /\ \A x \in DOMAIN out \ {d.path} : out'[x] = out[x]
  BY <1>3 DEF C!Put
<1>8. ASSUME NEW x \in Reach PROVE x \in Reach'
  <2>1. CASE x \in DOMAIN out
    BY <1>7, <2>1 DEF Reach
  <2>2. CASE \E i \in DOMAIN queue : x = C!NormalizeIndexFiles(queue[i]).path
    BY <1>1, <2>2 DEF Reach
  <2>3. CASE \E i \in DOMAIN docs : x = docs[i].path
    <3>1. PICK i \in DOMAIN docs : x = docs[i].path
      BY <2>3
    <3>2. CASE docs[i] = d
      BY <1>7, <3>1, <3>2 DEF Reach
    <3>3. CASE \E j \in DOMAIN docs' : docs'[j] = docs[i]
      BY <3>1, <3>3 DEF Reach
    <3> QED BY <1>5, <3>2, <3>3
  <2> QED BY <2>1, <2>2, <2>3 DEF Reach
<1>9. \A f \in C!Files' : OnItsWay(f)'
  BY <1>1, <1>2, <1>8, WayStays
<1>10. NoneLost'
  BY <1>1, <1>2, <1>9, SamePlaces DEF NoneLost
<1>11. AllPlaced'
  <2>1. \A i \in DOMAIN docs' : PagePlaced(docs'[i].path, docs'[i].raw.page)
    BY <1>2, <1>5 DEF AllPlaced
  <2>2. ASSUME NEW p \in DOMAIN out', ~p.asset PROVE PagePlaced(p, out'[p].page)
    <3>1. CASE p = d.path
      BY <1>6, <1>7, <3>1
    <3>2. CASE p # d.path
      <4>1. p \in DOMAIN out /\ out'[p] = out[p]
        BY <1>7, <3>2
      <4> QED BY <1>2, <2>2, <4>1 DEF AllPlaced
    <3> QED BY <3>1, <3>2
  <2> QED BY <1>1, <1>2, <2>1, <2>2, SamePlaces DEF AllPlaced
<1> QED BY <1>1, <1>2, <1>10, <1>11, FilesStay DEF PlacesInv

LEMMA EndPlaces == ASSUME PlacesInv, C!Copied \/ C!CopyFails \/ UNCHANGED siteVars PROVE PlacesInv'
<1>1. /\ site' = site /\ docFiles' = docFiles /\ queue' = queue /\ docs' = docs /\ out' = out
      /\ \/ building' = building /\ pending' = pending
         \/ building = "write" /\ building' = "done" /\ docs = <<>>
         \/ building \in {"copy", "load", "write"} /\ building' \in {"failed", "cancelled"}
  BY DEF C!Copied, C!CopyFails, siteVars
<1>2. FilesPlaced /\ AllPlaced /\ NoneLost
  BY DEF PlacesInv
<1>3. building \in {"process", "write", "done"} => \A f \in C!Files' : OnItsWay(f)'
  <2>1. \A x \in Reach : x \in Reach'
    BY <1>1 DEF Reach
  <2>2. (\A f \in C!Files : OnItsWay(f)) => \A f \in C!Files' : OnItsWay(f)'
    BY <1>1, <2>1, WayStays
  <2> QED BY <1>2, <2>2 DEF NoneLost
<1>4. NoneLost'
  <2>1. CASE building' = building /\ pending' = pending
    BY <1>1, <1>2, <1>3, <2>1, SamePlaces, SamePaths DEF NoneLost
  <2>2. CASE building = "write" /\ building' = "done" /\ docs = <<>>
    BY <1>1, <1>2, <1>3, <2>2, SamePlaces DEF NoneLost
  <2>3. CASE building \in {"copy", "load", "write"} /\ building' \in {"failed", "cancelled"}
    BY <1>1, <1>2, <2>3, SamePlaces DEF NoneLost
  <2> QED BY <1>1, <2>1, <2>2, <2>3
<1>5. AllPlaced'
  BY <1>1, <1>2, SamePlaces DEF AllPlaced
<1> QED BY <1>1, <1>2, <1>4, <1>5, FilesStay DEF PlacesInv

LEMMA PlacesKept == ASSUME SiteInv, PlacesInv, C!Next \/ UNCHANGED siteVars PROVE PlacesInv'
BY DiscoverPlaces, DiscoveredPlaces, CopyPlaces, AssetsPlace, LoadPlaces, ProcessPlaces, TransformsPlace, WritePlaces, EndPlaces
   DEF C!Next

-----------------------------------------------------------------------------
(* What the places of pages show.                                           *)

(* The path of a document and that before README becomes an index.          *)
LEMMA PathIs ==
  ASSUME NEW f, Located(f), f.asset = FALSE
  PROVE  /\ C!PathOf(f).dir = C!GetHugoPath(f).dir /\ C!PathOf(f).asset = FALSE
         /\ f.name.word # "readme" => C!PathOf(f) = C!GetHugoPath(f)
         /\ C!IsIndexFileName(f.name) <=> C!PathOf(f).name.word = "_index"
<1> DEFINE p == C!GetHugoPath(f)
           q == C!PathOf(f)
           d == C!NewDocumentFromDocFile(f)
<1>1. q.dir = p.dir /\ q.asset = FALSE /\ q.name = IF f.name.word \in {"readme", "index"} THEN C!IndexName ELSE C!Lower(f.name)
  BY DEF C!PathOf, C!NormalizeIndexFiles, C!NewDocumentFromDocFile, C!GetHugoPath
<1>2. f.name.word # "readme" => q = p
  <2>1. d.path = p /\ d.name = f.name
    BY DEF C!NewDocumentFromDocFile
  <2>2. q = C!NormalizeIndexFiles(d).path
    BY DEF C!PathOf
  <2> HIDE DEF d, p, q
  <2> QED BY <2>1, <2>2 DEF C!NormalizeIndexFiles
<1>3. C!Lower(f.name).word = f.name.word
  BY LowerIs DEF Located
<1>4. C!IndexName.word = "_index"
  BY DEF C!IndexName
<1>5. C!IsIndexFileName(f.name) <=> q.name.word = "_index"
  <2> HIDE DEF q
  <2> QED BY <1>1, <1>3, <1>4 DEF C!IsIndexFileName
<1> QED BY <1>1, <1>2, <1>5

(* Two files of one path are a pair of indexes or have one place.           *)
LEMMA SamePage ==
  ASSUME SiteInv, FilesPlaced, ~C!DetectPathCollisions, NEW f \in C!Files, NEW g \in C!Files, C!PathOf(f) = C!PathOf(g), f # g
  PROVE  \/ C!IsIndexFileName(f.name) /\ C!IsIndexFileName(g.name)
         \/ g.repo = f.repo /\ g.dir = f.dir /\ g.name = f.name /\ g.base # f.base
<1>1. Located(f) /\ Located(g) /\ Comes(f) /\ Comes(g) /\ ~f.asset /\ ~g.asset
  BY FileIs
<1>2. f.asset = FALSE /\ g.asset = FALSE
  BY <1>1 DEF Located
<1>3. C!IsIndexFileName(f.name) <=> C!IsIndexFileName(g.name)
  BY <1>1, <1>2, PathIs
<1>4. CASE C!IsIndexFileName(f.name)
  BY <1>3, <1>4
<1>5. CASE ~C!IsIndexFileName(f.name)
  <2>1. f.name.word # "readme" /\ g.name.word # "readme"
    BY <1>3, <1>5 DEF C!IsIndexFileName
  <2>2. C!GetHugoPath(f) = C!GetHugoPath(g)
    BY <1>1, <1>2, <2>1, PathIs
  <2>3. PICK i \in DOMAIN docFiles : f = docFiles[i]
    BY DEF C!Files, C!ToSet
  <2>4. PICK j \in DOMAIN docFiles : g = docFiles[j]
    BY DEF C!Files, C!ToSet
  <2>5. <<f.repo, f.dir, f.name>> = <<g.repo, g.dir, g.name>>
    BY <2>2, <2>3, <2>4 DEF C!DetectPathCollisions
  <2>6. f.repo = g.repo /\ f.dir = g.dir /\ f.name = g.name
    BY <2>5, SMTT(40)
  <2>7. ASSUME g.base = f.base PROVE FALSE
    <3> DEFINE found == site.repos[f.repo].files
               of(x, k) == x = [repo |-> x.repo, forge |-> x.forge, base |-> found[k].base, dir |-> found[k].dir,
                                name |-> found[k].name, asset |-> found[k].kind = "asset", body |-> found[k].body]
    <3>1. PICK k \in DOMAIN found : of(f, k)
      BY <1>1, Zenon DEF Comes
    <3>2. PICK m \in DOMAIN found : of(g, m)
      BY <1>1, <2>6, Zenon DEF Comes
    <3>3. site \in Sites /\ f.repo \in DOMAIN site.repos
      BY <1>1, SMTT(40) DEF SiteInv, Located
    <3>4. \A a, b \in DOMAIN found :
            /\ found[a].base = found[b].base /\ found[a].dir = found[b].dir /\ found[a].name = found[b].name
            /\ (found[a].kind = "asset" <=> found[b].kind = "asset")
            => a = b
      BY <3>3, SitesAssumption
    <3> HIDE DEF found
    <3>5. f.base = found[k].base /\ f.dir = found[k].dir /\ f.name = found[k].name /\ f.asset = (found[k].kind = "asset")
      BY <3>1
    <3>6. g.base = found[m].base /\ g.dir = found[m].dir /\ g.name = found[m].name /\ g.asset = (found[m].kind = "asset")
      BY <3>2
    <3>7. k = m
      BY <1>2, <2>6, <2>7, <3>4, <3>5, <3>6
    <3>8. f.forge = g.forge
      BY <1>1, <2>6 DEF Located
    <3> QED BY <2>6, <3>1, <3>2, <3>7, <3>8, SMTT(40)
  <2> QED BY <2>6, <2>7
<1> QED BY <1>4, <1>5

(* The generated main index falls on the README of a single repository.     *)
LEMMA MainFallsOn ==
  ASSUME NEW f, Located(f), f.asset = FALSE, C!PathOf(f) = C!IndexPath(<<>>), C!GetHugoPath(f) # C!IndexPath(<<>>)
  PROVE  C!IsSingleRepo /\ f.dir = <<>> /\ f.name.word = "readme"
<1> DEFINE x == Root(f)
           a == f.dir
           w == x \o a
<1>1. f.name.word = "readme"
  BY PathIs
<1>2. C!IndexPath(<<>>).dir = <<>>
  BY DEF C!IndexPath
<1>3. C!LowerAll(w) = <<>> /\ w \in Seq(Names)
  BY <1>2, PathIs, PathDir
<1>4. Len(w) = 0
  <2> HIDE DEF w
  <2>1. Len(C!LowerAll(w)) = Len(w)
    BY <1>3, LoweredIs
  <2>2. Len(<<>>) = 0
    OBVIOUS
  <2> QED BY <1>3, <2>1, <2>2
<1>5. x \in Seq(Names) /\ a \in Seq(Names)
  BY RootIs DEF Located
<1>6. Len(x) = 0 /\ Len(a) = 0
  <2> HIDE DEF x, a
  <2>1. Len(w) = Len(x) + Len(a) /\ Len(x) \in Nat /\ Len(a) \in Nat
    BY <1>5
  <2> HIDE DEF w
  <2> QED BY <1>4, <2>1
<1>7. C!IsSingleRepo
  <2>1. SUFFICES ASSUME ~C!IsSingleRepo PROVE FALSE
    OBVIOUS
  <2> DEFINE u == UnderForge(f)
             r == <<f.repo>>
  <2>2. u \in Seq(Names) /\ x = u \o r
    BY <2>1, RootIs
  <2>3. r \in Seq(Names) /\ Len(r) = 1
    BY LowerOne DEF Located
  <2> HIDE DEF u, r, x
  <2>4. u \in Seq(Names) /\ r \in Seq(Names)
    BY <2>2, <2>3
  <2>5. Len(u \o r) = Len(u) + Len(r) /\ Len(u) \in Nat
    BY <2>4, ConcatProperties
  <2> QED BY <1>6, <2>2, <2>3, <2>5
<1>8. a = <<>>
  <2> HIDE DEF a
  <2> QED BY <1>5, <1>6
<1> QED BY <1>1, <1>7, <1>8

(* At the end every path that was on its way is written.                    *)
LEMMA DocumentsInPlace == ASSUME SiteInv, PlacesInv, building = "done" PROVE C!DocumentsKept /\ C!SectionsHaveIndex
<1>1. FilesPlaced /\ AllPlaced /\ ~C!DetectPathCollisions /\ queue = <<>> /\ docs = <<>> /\ \A f \in C!Files : OnItsWay(f)
  BY DEF PlacesInv, NoneLost
<1>2. Reach = DOMAIN out
  <2> DEFINE A == {C!NormalizeIndexFiles(queue[i]).path : i \in DOMAIN queue}
             B == {docs[i].path : i \in DOMAIN docs}
  <2>1. DOMAIN queue = {} /\ DOMAIN docs = {}
    BY <1>1
  <2>2. A = {} /\ B = {}
    BY <2>1
  <2> HIDE DEF A, B
  <2>3. Reach = A \cup B \cup DOMAIN out
    BY DEF Reach, A, B
  <2> QED BY <2>2, <2>3
<1>3. ASSUME NEW f \in C!Files
      PROVE  \/ out[C!PathOf(f)].page.src = f
             \/ \E g \in C!Files \ {f} : C!PathOf(g) = C!PathOf(f) /\ C!IsIndexFileName(f.name) /\ C!IsIndexFileName(g.name)
             \/ \E g \in C!Files : g.repo = f.repo /\ g.dir = f.dir /\ g.name = f.name /\ g.base # f.base
             \/ C!IsIndexFileName(f.name) /\ C!Mistaken(f)
             \/ C!IsSingleRepo /\ f.dir = <<>> /\ f.name.word = "readme"
  <2> DEFINE p == C!PathOf(f)
             page == out[p].page
  <2>1. Located(f) /\ f.asset = FALSE
    BY <1>1, FileIs DEF Located
  <2>2. p \in DOMAIN out
    BY <1>1, <1>2 DEF OnItsWay
  <2>3. p.asset = FALSE /\ p.dir = C!GetHugoPath(f).dir /\ (C!IsIndexFileName(f.name) <=> p.name.word = "_index")
    BY <2>1, PathIs
  <2>4. PagePlaced(p, page)
    BY <1>1, <2>2, <2>3 DEF AllPlaced
  <2>5. CASE page.src \in C!Files /\ PageOf(page.src, p, page)
    <3> DEFINE g == page.src
    <3>1. g \in C!Files /\ C!PathOf(g) = C!PathOf(f)
      BY <2>5 DEF PageOf
    <3>2. CASE g = f
      BY <3>2
    <3>3. CASE g # f
      <4> HIDE DEF g
      <4>1. \/ C!IsIndexFileName(f.name) /\ C!IsIndexFileName(g.name)
            \/ g.repo = f.repo /\ g.dir = f.dir /\ g.name = f.name /\ g.base # f.base
        BY <1>1, <3>1, <3>3, SamePage
      <4> QED BY <3>1, <3>3, <4>1
    <3> QED BY <3>2, <3>3
  <2>6. CASE p = C!IndexPath(<<>>) /\ \A g \in C!Files : C!GetHugoPath(g) # p
    <3>1. C!PathOf(f) = C!IndexPath(<<>>) /\ C!GetHugoPath(f) # C!IndexPath(<<>>)
      BY <2>6
    <3> QED BY <2>1, <3>1, MainFallsOn
  <2>7. CASE \E g \in C!Files : \E n \in 0..Len(g.dir) :
               /\ p = C!IndexPath(Below(g, n))
               /\ \A h \in C!Files : C!IsIndexFileName(h.name) => <<h.repo, h.dir>> # <<g.repo, SubSeq(g.dir, 1, n)>>
    <3>0. PICK g \in C!Files : \E n \in 0..Len(g.dir) :
               /\ p = C!IndexPath(Below(g, n))
               /\ \A h \in C!Files : C!IsIndexFileName(h.name) => <<h.repo, h.dir>> # <<g.repo, SubSeq(g.dir, 1, n)>>
      BY <2>7
    <3>1. PICK n \in 0..Len(g.dir) :
               /\ p = C!IndexPath(Below(g, n))
               /\ \A h \in C!Files : C!IsIndexFileName(h.name) => <<h.repo, h.dir>> # <<g.repo, SubSeq(g.dir, 1, n)>>
      BY <3>0
    <3>2. p.dir = Below(g, n) /\ p.name.word = "_index"
      BY <3>1 DEF C!IndexPath, C!IndexName
    <3>3. C!IsIndexFileName(f.name)
      BY <2>3, <3>2
    <3>4. <<g.repo, SubSeq(g.dir, 1, n)>> # <<f.repo, f.dir>>
      BY <3>1, <3>3
    <3>5. (IF C!IsSingleRepo THEN <<>> ELSE <<g.repo>>) \o SubSeq(g.dir, 1, n) = C!GetHugoPath(f).dir
      BY <2>3, <3>2 DEF Below
    <3>6. C!Mistaken(f)
      BY <3>4, <3>5 DEF C!Mistaken
    <3> QED BY <3>3, <3>6
  <2> QED BY <2>4, <2>5, <2>6, <2>7 DEF PagePlaced, GeneratedAt
<1>4. C!DocumentsKept
  BY <1>3 DEF C!DocumentsKept
<1>5. ASSUME NEW p \in C!Pages, out[p].page.src # None, NEW f, f = out[p].page.src, f.forge = None, C!IsLower(<<f.repo>> \o f.dir),
             NEW n \in 0..Len(p.dir)
      PROVE  C!IndexPath(SubSeq(p.dir, 1, n)) \in C!Pages
  <2>1. PagePlaced(p, out[p].page)
    BY <1>1, SMTT(40) DEF AllPlaced, C!Pages
  <2>2. f \in C!Files /\ p = C!PathOf(f)
    BY <1>5, <2>1, Zenon DEF PagePlaced, PageOf
  <2>3. C!IndexPath(SubSeq(p.dir, 1, n)) \in DOMAIN out
    BY <1>1, <1>2, <1>5, <2>2 DEF OnItsWay
  <2>4. C!IndexPath(SubSeq(p.dir, 1, n)).asset = FALSE
    BY DEF C!IndexPath
  <2> QED BY <2>3, <2>4 DEF C!Pages
<1>6. C!SectionsHaveIndex
  BY <1>5 DEF C!SectionsHaveIndex
<1> QED BY <1>4, <1>6

(* An edit link has the file's path in its repository and a form that its   *)
(* forge or its URL gives.                                                  *)
LEMMA EditIsRight ==
  ASSUME site \in Sites, NEW f, Located(f), NEW edit, EditFor(f.repo, f.forge, f, edit)
  PROVE  LET url == site.repos[f.repo].url
             rest == f.dir \o <<f.name>>
         IN /\ edit.form = "vscode" => edit.path = rest
            /\ edit.form # "vscode" /\ ~(f.dir # <<>> /\ f.dir[1] = f.base) =>
                 edit.path = IF f.base.word = "." THEN rest ELSE <<f.base>> \o rest
            /\ edit.form # "vscode" /\ site.editURLBase = None /\ url # "selfhosted" =>
                 edit.form = url \/ (f.forge # None /\ edit.form = f.forge.word)
<1> DEFINE url == site.repos[f.repo].url
           rest == f.dir \o <<f.name>>
<1>1. CASE edit = [form |-> "vscode", path |-> f.dir \o <<f.name>>]
  <2>1. edit.form = "vscode" /\ edit.path = rest
    BY <1>1
  <2> QED BY <2>1
<1>2. CASE UrlFor(f.repo) # "local" /\ edit = [form |-> C!DetectForgeType([forge |-> f.forge], UrlFor(f.repo)), path |-> C!EditPath(f)]
  <2> DEFINE form == C!DetectForgeType([forge |-> f.forge], UrlFor(f.repo))
  <2>1. edit.form = form /\ edit.path = C!EditPath(f)
    BY <1>2
  <2>2. \/ f.forge # None /\ form = f.forge.word /\ form \in {"github", "gitlab", "forgejo"}
        \/ form = UrlFor(f.repo) /\ form \in {"github", "gitlab"}
        \/ form = "forgejo" /\ UrlFor(f.repo) \notin {"github", "gitlab"}
    BY DEF C!DetectForgeType
  <2> HIDE DEF form
  <2>3. form # "vscode"
    BY <2>2, SMTT(30)
  <2>4. url \in {"github", "gitlab", "forgejo", "selfhosted", "local"}
    BY SitesAssumption DEF Located
  <2>5. site.editURLBase = None => UrlFor(f.repo) = url
    BY DEF UrlFor
  <2> HIDE DEF url
  <2>6. site.editURLBase = None /\ url # "selfhosted" => form = url \/ (f.forge # None /\ form = f.forge.word)
    BY <1>2, <2>2, <2>4, <2>5
  <2>7. ASSUME ~(f.dir # <<>> /\ f.dir[1] = f.base) PROVE C!EditPath(f) = IF f.base.word = "." THEN rest ELSE <<f.base>> \o rest
    <3> DEFINE a == f.dir
               n == <<f.name>>
               b == <<f.base>>
    <3>1. a \in Seq(Names) /\ n \in Seq(Names) /\ b \in Seq(Names)
      BY LowerOne DEF Located
    <3>2. C!EditPath(f) = (IF f.base.word = "." THEN <<>> ELSE b) \o a \o n
      BY <2>7 DEF C!EditPath
    <3> HIDE DEF a, n, b
    <3>3. <<>> \o a = a /\ (b \o a) \o n = b \o (a \o n)
      BY <3>1, NamesJoined, NamesAssociate, SMTT(40)
    <3>4. f.base.word = "." => C!EditPath(f) = a \o n
      BY <3>2, <3>3
    <3>5. f.base.word # "." => C!EditPath(f) = b \o (a \o n)
      BY <3>2, <3>3
    <3> QED BY <3>4, <3>5 DEF a, n, b
  <2> QED BY <2>1, <2>3, <2>6, <2>7 DEF url
<1> QED BY <1>1, <1>2 DEF EditFor

(* A page that is written has the links of its file.                        *)
LEMMA LinksInPlace == ASSUME SiteInv, PlacesInv PROVE C!LinksLead /\ C!ImagesLead /\ C!EditLinksRight
<1>1. site \in Sites /\ FilesPlaced /\ AllPlaced
  BY DEF SiteInv, PlacesInv
<1>2. ASSUME NEW p \in C!Pages PROVE PagePlaced(p, out[p].page)
  BY <1>1 DEF AllPlaced, C!Pages
<1>3. ASSUME NEW f \in C!Files, NEW l, NEW asset, NEW g \in C!Targets(f, l, asset)
      PROVE  IsTarget(f, l, g) /\ g.asset = asset
  BY <1>1 DEF C!Targets, C!ToSet, IsTarget, FilesPlaced
<1>4. ASSUME NEW p \in C!Pages, out[p].page.src # None
      PROVE  LET page == out[p].page
                 f == page.src
             IN f \in C!Files /\ Located(f) /\ PageOf(f, p, page)
  BY <1>1, <1>2, <1>4, FileIs DEF PagePlaced
<1>5. ASSUME NEW p \in C!Pages, out[p].page.src # None, NEW f, f = out[p].page.src, NEW i \in DOMAIN f.body.links,
             NEW g \in C!Targets(f, f.body.links[i], FALSE), ~Exempt(f, f.body.links[i])
      PROVE  out[p].page.links[i] = C!Url(C!PathOf(g))
  <2> DEFINE l == f.body.links[i]
             page == out[p].page
  <2>1. f \in C!Files /\ Located(f) /\ PageOf(f, p, page)
    BY <1>4, <1>5
  <2>2. IsTarget(f, l, g) /\ g.asset = FALSE
    BY <1>3, <2>1
  <2>3. IsLink(l)
    BY <2>1 DEF Located
  <2>4. PICK s : Stands(s, f) /\ page.links = [k \in DOMAIN f.body.links |-> C!RewriteLinkPath(s, f.body.links[k])]
    BY <2>1 DEF PageOf
  <2>5. page.links[i] = C!RewriteLinkPath(s, l)
    BY <2>4
  <2>6. ~Exempt(f, l)
    BY <1>5
  <2> HIDE DEF l
  <2>7. C!RewriteLinkPath(s, l) = C!Url(C!PathOf(g))
    BY <2>1, <2>2, <2>3, <2>4, <2>6, LinkLeads
  <2> QED BY <2>5, <2>7
<1>6. C!LinksLead
  <2> SUFFICES ASSUME NEW p \in C!Pages, out[p].page.src # None, NEW i \in DOMAIN out[p].page.src.body.links,
                      NEW g \in C!Targets(out[p].page.src, out[p].page.src.body.links[i], FALSE)
               PROVE  \/ Exempt(out[p].page.src, out[p].page.src.body.links[i])
                      \/ out[p].page.links[i] = C!Url(C!PathOf(g))
    BY DEF C!LinksLead, Exempt
  <2> QED BY <1>5
<1>7. ASSUME NEW p \in C!Pages, out[p].page.src # None, NEW f, f = out[p].page.src, NEW i \in DOMAIN f.body.images,
             NEW g \in C!Targets(f, f.body.images[i], TRUE), C!IsSingleRepo = f.body.images[i].abs,
             C!IsSingleRepo => f.forge = None, g.name.word # "index"
      PROVE  out[p].page.images[i] = C!Url(C!GetHugoPath(g))
  <2> DEFINE l == f.body.images[i]
             page == out[p].page
  <2>1. f \in C!Files /\ Located(f) /\ PageOf(f, p, page)
    BY <1>4, <1>7
  <2>2. IsTarget(f, l, g) /\ g.asset
    BY <1>3, <2>1, ZenonT(60)
  <2>3. IsLink(l)
    BY <2>1 DEF Located
  <2>4. PICK s : Stands(s, f) /\ page.images = [k \in DOMAIN f.body.images |-> C!RewriteImagePath(s, f.body.images[k])]
    BY <2>1 DEF PageOf
  <2>5. page.images[i] = C!RewriteImagePath(s, l)
    BY <2>4
  <2>6. C!IsSingleRepo = l.abs
    BY <1>7
  <2> HIDE DEF l
  <2>7. C!RewriteImagePath(s, l) = C!Url(C!GetHugoPath(g))
    BY <1>7, <2>1, <2>2, <2>3, <2>4, <2>6, ImageLeads
  <2> QED BY <2>5, <2>7
<1>8. C!ImagesLead
  BY <1>7 DEF C!ImagesLead
<1>9. ASSUME NEW p \in C!Pages, out[p].page.edit # None
      PROVE  LET f == out[p].page.src
                 edit == out[p].page.edit
                 url == site.repos[f.repo].url
                 rest == f.dir \o <<f.name>>
             IN /\ edit.form = "vscode" => edit.path = rest
                /\ edit.form # "vscode" /\ ~(f.dir # <<>> /\ f.dir[1] = f.base) =>
                     edit.path = IF f.base.word = "." THEN rest ELSE <<f.base>> \o rest
                /\ edit.form # "vscode" /\ site.editURLBase = None /\ url # "selfhosted" =>
                     edit.form = url \/ (f.forge # None /\ edit.form = f.forge.word)
  <2> DEFINE f == out[p].page.src
             edit == out[p].page.edit
  <2>1. f \in C!Files /\ PageOf(f, p, out[p].page)
    BY <1>2, <1>9, SMTT(30) DEF PagePlaced
  <2>2. Located(f) /\ EditFor(f.repo, f.forge, f, edit)
    <3>1. Located(f)
      BY <1>1, <2>1, FileIs
    <3>2. EditFor(f.repo, f.forge, f, edit)
      BY <1>9, <2>1, Zenon DEF PageOf
    <3> QED BY <3>1, <3>2
  <2> HIDE DEF f, edit
  <2> QED BY <1>1, <2>2, EditIsRight DEF f, edit
<1>10. C!EditLinksRight
  BY <1>9 DEF C!EditLinksRight
<1> QED BY <1>6, <1>8, <1>10

(* The invariant of the pipeline.                                           *)
SitePlaced == part = "site" => SiteInv /\ PlacesInv

(* It holds at the start and every step keeps it.                           *)
LEMMA SitePlacedHolds ==
  ASSUME NoneIsNoFile
  PROVE  (Init => SitePlaced) /\ (SitePlaced /\ [Next]_vars => SitePlaced')
<1>1. Init => SitePlaced
  BY SiteStarts, PlacesStart DEF Init, SitePlaced
<1>2. ASSUME SitePlaced, [Next]_vars, part' = "site" PROVE SiteInv' /\ PlacesInv'
  <2>1. part = "site" /\ (C!Next \/ UNCHANGED siteVars)
    BY <1>2 DEF Next, vars
  <2>2. SiteInv /\ PlacesInv
    BY <1>2, <2>1 DEF SitePlaced
  <2> QED BY <2>1, <2>2, SiteKept, PlacesKept
<1> QED BY <1>1, <1>2 DEF SitePlaced

(* Whatever files the repositories have and in whatever order they are walked: *)
(* once a build is done, every document that was found is on the page of its  *)
(* own path, unless one of the known rivals of it has taken that, and every   *)
(* directory above a page has an index page.                                  *)
THEOREM DocumentsAreKept ==
  ASSUME NoneIsNoFile
  PROVE  Spec => []DocumentsKept
<1>1. SitePlaced => DocumentsKept
  BY DocumentsInPlace DEF SitePlaced, DocumentsKept, C!DocumentsKept, C!SectionsHaveIndex
<1>2. Init => SitePlaced
  BY SitePlacedHolds
<1>3. SitePlaced /\ [Next]_vars => SitePlaced'
  BY SitePlacedHolds
<1> QED BY <1>1, <1>2, <1>3, PTL DEF Spec

(* Whatever documents link to whatever others: on a page that is written, a   *)
(* link leads to the page of the document that it names, an image to the      *)
(* asset, and the edit link to the file in the form of its forge, but for the *)
(* exceptions that the properties name.                                       *)
THEOREM LinksLeadThere ==
  ASSUME NoneIsNoFile
  PROVE  Spec => []LinksLead
<1>1. SitePlaced => LinksLead
  BY LinksInPlace DEF SitePlaced, LinksLead
<1>2. Init => SitePlaced
  BY SitePlacedHolds
<1>3. SitePlaced /\ [Next]_vars => SitePlaced'
  BY SitePlacedHolds, SMTT(30)
<1> QED BY <1>1, <1>2, <1>3, PTL DEF Spec

-----------------------------------------------------------------------------
(* Versions.                                                               *)

(* A reference as a remote lists it.                                        *)
IsRef(ref) ==
  /\ ref = [name |-> [word |-> ref.name.word, sep |-> ref.name.sep], type |-> ref.type]
  /\ ref.type \in {"branch", "tag"} /\ ref # None
IsListing(refs) ==
  /\ Len(refs) \in Nat /\ DOMAIN refs = 1..Len(refs)
  /\ \A i \in DOMAIN refs : IsRef(refs[i]) /\ \A j \in DOMAIN refs : refs[i] = refs[j] => i = j
RefsOf(i) == setup.repos[i].refs

LEMMA ListingsAre ==
  ASSUME setup \in Setups
  PROVE  /\ Len(setup.repos) \in Nat /\ DOMAIN setup.repos = 1..Len(setup.repos) /\ setup.max \in Int
         /\ \A i \in DOMAIN setup.repos : IsListing(RefsOf(i))
<1>1. \A i \in DOMAIN setup.repos : IsListing(RefsOf(i))
  BY VersionsAssumption DEF IsListing, IsRef, RefsOf
<1> DEFINE A == {setup.repos[i] : i \in DOMAIN setup.repos}
<1>2. setup.repos \in Seq(A) /\ setup.max \in Int
  BY VersionsAssumption
<1> HIDE DEF A
<1>3. Len(setup.repos) \in Nat /\ DOMAIN setup.repos = 1..Len(setup.repos)
  BY <1>2
<1> QED BY <1>1, <1>2, <1>3, SMTT(30)

LEMMA SameCardinality ==
  ASSUME NEW S
  PROVE  V!Cardinality(S) = Cardinality(S)
BY Zenon DEF V!Cardinality, Cardinality

(* Newest first is an order of all of them.                                 *)
LEMMA NewestAreAll ==
  ASSUME NEW S \in SUBSET Nat, IsFiniteSet(S), NEW at, at = V!NewestFirst(S)
  PROVE  /\ Cardinality(S) \in Nat /\ at \in [1..Cardinality(S) -> S]
         /\ \A i, j \in 1..Cardinality(S) : at[i] = at[j] => i = j
         /\ \A x \in S : \E i \in 1..Cardinality(S) : at[i] = x
<1> DEFINE n == Cardinality(S)
<1>1. n \in Nat
  BY HasOrder
<1>2. PICK up : Rising(S, up)
  BY HasOrder
<1>3. V!Cardinality(S) = n
  BY SameCardinality
<1>4. up \in [1..n -> S] /\ \A i, j \in 1..n : i < j => up[i] < up[j]
  BY <1>2 DEF Rising
<1> HIDE DEF n
<1> DEFINE down == [i \in 1..n |-> up[n + 1 - i]]
<1>5. down \in [1..n -> S] /\ \A i, j \in DOMAIN down : i < j => down[i] > down[j]
  <2>1. \A i \in 1..n : n + 1 - i \in 1..n
    BY <1>1
  <2>2. down \in [1..n -> S]
    BY <1>4, <2>1
  <2>3. ASSUME NEW i \in 1..n, NEW j \in 1..n, i < j PROVE down[i] > down[j]
    <3>1. n + 1 - j < n + 1 - i
      BY <1>1, <2>3
    <3>2. up[n + 1 - j] < up[n + 1 - i]
      BY <1>4, <2>1, <3>1
    <3>3. up[n + 1 - j] \in Nat /\ up[n + 1 - i] \in Nat
      BY <1>4, <2>1
    <3> QED BY <3>2, <3>3
  <2> QED BY <2>2, <2>3
<1> HIDE DEF down
<1>6. at \in [1..n -> S] /\ \A i, j \in DOMAIN at : i < j => at[i] > at[j]
  BY <1>3, <1>5 DEF V!NewestFirst
<1>7. ASSUME NEW i \in 1..n, NEW j \in 1..n, at[i] = at[j] PROVE i = j
  <2>1. at[i] \in Nat /\ at[j] \in Nat
    BY <1>6
  <2>2. ~(i < j) /\ ~(j < i)
    BY <1>6, <1>7, <2>1
  <2> QED BY <1>1, <2>2
<1>8. at \in Injection(1..n, S)
  <2>1. \A i, j \in 1..n : at[i] = at[j] => i = j
    BY <1>7
  <2>2. at \in [1..n -> S]
    BY <1>6
  <2> QED BY <2>1, <2>2 DEF Injection, IsInjective
<1>9. Cardinality(1..n) = n
  <2>1. 1 \in Int /\ n \in Int
    BY <1>1
  <2>2. Cardinality(1..n) = IF 1 > n THEN 0 ELSE n - 1 + 1
    BY <2>1, FS_Interval
  <2> QED BY <1>1, <2>2
<1>10. at \in Surjection(1..n, S)
  BY <1>8, <1>9, FS_Injection DEF n
<1> QED BY <1>1, <1>6, <1>7, <1>10 DEF Surjection, n

(* The references that are to be built of those that are selected.          *)
RightVersions(B, refs) ==
  LET all == V!Selected(refs) IN
  /\ B \subseteq all
  /\ setup.max = 0 \/ Cardinality(all) <= setup.max => B = all
  /\ setup.max > 0 /\ Cardinality(all) > setup.max => Cardinality(B) = setup.max

(* An injective function has as many values as arguments.                   *)
LEMMA ValuesCounted ==
  ASSUME NEW n \in Nat, NEW f, DOMAIN f = 1..n, \A i, j \in 1..n : f[i] = f[j] => i = j, NEW B, B = {f[i] : i \in 1..n}
  PROVE  Cardinality(B) = n
<1> DEFINE g == [i \in 1..n |-> f[i]]
<1>1. g \in Injection(1..n, B) /\ g \in Surjection(1..n, B)
  BY DEF Injection, IsInjective, Surjection
<1> HIDE DEF g
<1>2. IsFiniteSet(1..n) /\ Cardinality(1..n) = n
  <2>1. 1 \in Int /\ n \in Int
    OBVIOUS
  <2>2. IsFiniteSet(1..n) /\ Cardinality(1..n) = IF 1 > n THEN 0 ELSE n - 1 + 1
    BY <2>1, FS_Interval
  <2> QED BY <2>2
<1>3. Cardinality(B) = Cardinality(1..n)
  BY <1>1, <1>2, FS_Surjection
<1> QED BY <1>2, <1>3

(* What is discovered is what is selected, each once.                       *)
LEMMA FoundAreRight ==
  ASSUME setup \in Setups, NEW i \in DOMAIN setup.repos, NEW v, v = V!DiscoverVersions(RefsOf(i), setup)
  PROVE  /\ IsSeq(v)
         /\ \A k \in DOMAIN v : v[k] \in {RefsOf(i)[j] : j \in DOMAIN RefsOf(i)}
         /\ \A j, k \in DOMAIN v : v[j] = v[k] => j = k
         /\ v # <<>> => RightVersions({v[k] : k \in DOMAIN v}, RefsOf(i))
<1> DEFINE refs == RefsOf(i)
           S == {j \in DOMAIN refs : V!Includes(refs[j], setup)}
           at == V!NewestFirst(S)
           m == Cardinality(S)
           n == IF setup.max > 0 /\ Len(at) > setup.max THEN setup.max ELSE Len(at)
           B == {v[k] : k \in DOMAIN v}
           all == V!Selected(refs)
<1>1. IsListing(refs) /\ setup.max \in Int
  BY ListingsAre
<1>2. v = [k \in 1..n |-> refs[at[k]]]
  BY DEF V!DiscoverVersions
<1> HIDE DEF refs
<1>3. S \in SUBSET Nat /\ IsFiniteSet(S) /\ \A j \in S : j \in DOMAIN refs /\ V!Includes(refs[j], setup)
  <2>1. DOMAIN refs = 1..Len(refs) /\ Len(refs) \in Nat
    BY <1>1 DEF IsListing
  <2>2. S \in SUBSET (1..Len(refs))
    BY <2>1
  <2>3. IsFiniteSet(1..Len(refs))
    <3> DEFINE l == Len(refs)
    <3>1. 1 \in Int /\ l \in Int
      BY <2>1
    <3> HIDE DEF l
    <3>2. IsFiniteSet(1..l)
      BY <3>1, FS_Interval
    <3> QED BY <3>2 DEF l
  <2>4. IsFiniteSet(S)
    <3> HIDE DEF S
    <3> QED BY <2>2, <2>3, FS_Subset
  <2> QED BY <2>1, <2>2, <2>4
<1>4. \A j \in DOMAIN refs : V!Includes(refs[j], setup) => j \in S
  OBVIOUS
<1> HIDE DEF S
<1>5. /\ m \in Nat /\ at \in [1..m -> S]
      /\ \A j, k \in 1..m : at[j] = at[k] => j = k
      /\ \A x \in S : \E k \in 1..m : at[k] = x
  <2>1. S \in SUBSET Nat
    BY <1>3
  <2>2. IsFiniteSet(S)
    BY <1>3
  <2> QED BY <2>1, <2>2, NewestAreAll
<1> HIDE DEF m, at
<1>6. Len(at) = m
  BY <1>5
<1>7. n \in 0..m /\ (n = m \/ (setup.max > 0 /\ m > setup.max /\ n = setup.max)) /\ (setup.max = 0 \/ m <= setup.max => n = m)
      /\ (setup.max > 0 /\ m > setup.max => n = setup.max)
  BY <1>1, <1>5, <1>6
<1> HIDE DEF n
<1>8. n \in Nat /\ DOMAIN v = 1..n /\ \A k \in 1..n : k \in 1..m /\ v[k] = refs[at[k]] /\ at[k] \in S
  BY <1>2, <1>5, <1>7
<1>9. IsSeq(v)
  <2>1. v \in [1..n -> B]
    BY <1>2, <1>8
  <2> HIDE DEF B
  <2>2. v \in Seq(B)
    BY <1>8, <2>1
  <2> QED BY <2>2, InSeq
<1>10. \A k \in DOMAIN v : v[k] \in {refs[j] : j \in DOMAIN refs}
  BY <1>3, <1>8
<1>11. \A j, k \in DOMAIN v : v[j] = v[k] => j = k
  <2>1. \A a, b \in DOMAIN refs : refs[a] = refs[b] => a = b
    BY <1>1 DEF IsListing
  <2>2. SUFFICES ASSUME NEW j \in 1..n, NEW k \in 1..n, v[j] = v[k] PROVE j = k
    BY <1>8
  <2>3. j \in 1..m /\ k \in 1..m /\ at[j] \in DOMAIN refs /\ at[k] \in DOMAIN refs
    BY <1>3, <1>8
  <2>4. refs[at[j]] = refs[at[k]]
    BY <1>8, <2>2
  <2>5. at[j] = at[k]
    BY <2>1, <2>3, <2>4
  <2> QED BY <1>5, <2>3, <2>5
<1>12. ASSUME v # <<>> PROVE RightVersions(B, refs)
  <2>1. n > 0
    BY <1>2, <1>8, <1>12
  <2>2. setup.strategy = "branches_and_tags"
    <3>1. V!Includes(refs[at[1]], setup)
      <4>1. 1 \in 1..n
        BY <1>8, <2>1
      <4>2. at[1] \in S
        BY <1>8, <4>1
      <4> QED BY <1>3, <4>2
    <3> QED BY <3>1 DEF V!Includes
  <2>3. \A j \in DOMAIN refs : V!Includes(refs[j], setup) <=> refs[j] \in all
    <3>1. \A j \in DOMAIN refs : refs[j].type \in {"branch", "tag"}
      BY <1>1 DEF IsListing, IsRef
    <3> QED BY <2>2, <3>1 DEF V!Includes, V!Selected
  <2>4. all \subseteq {refs[j] : j \in DOMAIN refs}
    BY DEF V!Selected
  <2> HIDE DEF all
  <2>5. B \subseteq all
    <3>1. SUFFICES ASSUME NEW k \in 1..n PROVE v[k] \in all
      BY <1>8
    <3>2. at[k] \in S /\ v[k] = refs[at[k]]
      BY <1>8
    <3>3. at[k] \in DOMAIN refs /\ V!Includes(refs[at[k]], setup)
      BY <1>3, <3>2
    <3> QED BY <2>3, <3>2, <3>3
  <2> DEFINE f == [k \in 1..m |-> refs[at[k]]]
  <2>6. DOMAIN f = 1..m /\ \A k \in 1..m : f[k] = refs[at[k]]
    OBVIOUS
  <2> HIDE DEF f
  <2>7. all = {f[k] : k \in 1..m}
    <3>1. ASSUME NEW x \in all PROVE \E k \in 1..m : f[k] = x
      <4>1. PICK j \in DOMAIN refs : x = refs[j]
        BY <2>4
      <4>2. j \in S
        BY <1>4, <2>3, <4>1
      <4> QED BY <1>5, <2>6, <4>1, <4>2
    <3>2. ASSUME NEW k \in 1..m PROVE f[k] \in all
      BY <1>3, <1>5, <2>3, <2>6
    <3> QED BY <3>1, <3>2
  <2>8. \A j, k \in 1..m : f[j] = f[k] => j = k
    <3>1. \A a, b \in DOMAIN refs : refs[a] = refs[b] => a = b
      BY <1>1 DEF IsListing
    <3>2. SUFFICES ASSUME NEW j \in 1..m, NEW k \in 1..m, f[j] = f[k] PROVE j = k
      OBVIOUS
    <3>3. at[j] \in DOMAIN refs /\ at[k] \in DOMAIN refs
      BY <1>3, <1>5
    <3>4. refs[at[j]] = refs[at[k]]
      BY <2>6, <3>2
    <3>5. at[j] = at[k]
      BY <3>1, <3>3, <3>4
    <3> QED BY <1>5, <3>5
  <2>9. Cardinality(all) = m
    BY <1>5, <2>6, <2>7, <2>8, ValuesCounted
  <2>10. Cardinality(B) = n
    <3>1. \A j, k \in 1..n : v[j] = v[k] => j = k
      BY <1>8, <1>11
    <3>2. DOMAIN v = 1..n /\ B = {v[k] : k \in 1..n}
      BY <1>8
    <3> HIDE DEF B
    <3> QED BY <1>8, <3>1, <3>2, ValuesCounted
  <2>11. n = m => B = all
    BY <1>8, <2>6, <2>7
  <2> HIDE DEF B
  <2> QED BY <1>7, <2>5, <2>9, <2>10, <2>11 DEF RightVersions, all
<1> QED BY <1>9, <1>10, <1>11, <1>12 DEF refs

(* An entry has the name and the tags of its version.                       *)
EntryOf(e) ==
  /\ e.base \in DOMAIN setup.repos
  /\ e.ref # None => e.version = V!DisplayName(e.ref) /\ e.ref \in {RefsOf(e.base)[j] : j \in DOMAIN RefsOf(e.base)}
  /\ ~setup.repos[e.base].tagged => ~e.shares /\ e.own = e.version

(* Entries of one repository are of different references, and one without a *)
(* reference is the only one.                                               *)
Apart(es) == \A j, k \in DOMAIN es : j # k /\ es[j].base = es[k].base => es[j].ref # None /\ es[k].ref # None /\ es[j].ref # es[k].ref

(* The repositories before vnext are expanded, those from there on are not.  *)
VersionsInv ==
  /\ setup \in Setups /\ vnext \in 0..Len(setup.repos) /\ vbuilds \in Nat
  /\ vnext > 0 => vbuilds > 0
  /\ IsSeq(expanded) /\ Apart(expanded)
  /\ \A k \in DOMAIN expanded : EntryOf(expanded[k]) /\ (vnext > 0 => expanded[k].base < vnext)
  /\ \A i \in DOMAIN setup.repos : i < vnext \/ V!Complete =>
       (\E k \in DOMAIN expanded : expanded[k].base = i) /\ (V!Built(i) = {} \/ RightVersions(V!Built(i), RefsOf(i)))
  /\ DOMAIN vtags = DOMAIN setup.repos
  /\ \A i \in DOMAIN setup.repos : ~setup.repos[i].tagged => vtags[i] = None

LEMMA VersionsStart == ASSUME V!Init PROVE VersionsInv
<1>1. IsSeq(<<>>)
  BY DEF IsSeq
<1>2. Len(setup.repos) \in Nat /\ DOMAIN setup.repos = 1..Len(setup.repos)
  BY ListingsAre DEF V!Init
<1> QED BY <1>1, <1>2 DEF V!Init, VersionsInv, Apart, V!Complete

(* What is added for a repository.                                          *)
Adds(es, i) ==
  /\ IsSeq(es) /\ es # <<>> /\ Apart(es)
  /\ \A k \in DOMAIN es : EntryOf(es[k]) /\ es[k].base = i
  /\ LET built == {es[k].ref : k \in DOMAIN es} \ {None} IN built = {} \/ RightVersions(built, RefsOf(i))

(* Where the parts of two joined sequences are.                             *)
LEMMA JoinedAt ==
  ASSUME NEW q, IsSeq(q), NEW r, IsSeq(r), NEW s, Joins(q, r, s)
  PROVE  /\ IsSeq(s) /\ Len(q) \in Nat /\ Len(r) \in Nat /\ DOMAIN q = 1..Len(q) /\ DOMAIN r = 1..Len(r)
         /\ DOMAIN s = 1..(Len(q) + Len(r))
         /\ \A i \in DOMAIN s : s[i] = IF i <= Len(q) THEN q[i] ELSE r[i - Len(q)]
<1> DEFINE A == {q[i] : i \in DOMAIN q} \cup {r[i] : i \in DOMAIN r}
<1>1. q \in Seq(A) /\ r \in Seq(A)
  BY DEF IsSeq
<1> HIDE DEF A
<1>2. s \in Seq(A) /\ Len(s) = Len(q) + Len(r) /\ \A i \in 1..Len(s) : s[i] = IF i <= Len(q) THEN q[i] ELSE r[i - Len(q)]
  BY <1>1 DEF Joins
<1>3. IsSeq(s)
  BY <1>2, InSeq
<1> QED BY <1>1, <1>2, <1>3

(* The configuration is the same throughout.                                *)
LEMMA SameSetup ==
  ASSUME setup' = setup
  PROVE  /\ \A e : EntryOf(e)' <=> EntryOf(e)
         /\ \A B, refs : RightVersions(B, refs)' <=> RightVersions(B, refs)
         /\ \A i : RefsOf(i)' = RefsOf(i)
BY DEF EntryOf, RightVersions, RefsOf, V!Selected

(* The entries of one more repository are added.                            *)
LEMMA Grows ==
  ASSUME VersionsInv, vnext > 0, setup' = setup, vbuilds' = vbuilds, V!Advance, NEW es, Adds(es, vnext), Joins(expanded, es, expanded'),
         DOMAIN vtags' = DOMAIN vtags, \A i \in DOMAIN vtags : vtags'[i] = vtags[i] \/ vtags[i] # None
  PROVE  VersionsInv'
<1> DEFINE n == Len(expanded)
           m == Len(es)
<1>1. Len(setup.repos) \in Nat /\ DOMAIN setup.repos = 1..Len(setup.repos) /\ vnext \in DOMAIN setup.repos /\ vnext \in Nat
  BY ListingsAre DEF VersionsInv
<1>2. vnext' \in 0..Len(setup.repos) /\ ((vnext' = 0 /\ vnext = Len(setup.repos)) \/ vnext' = vnext + 1)
  BY <1>1 DEF V!Advance
<1>3. /\ IsSeq(expanded') /\ n \in Nat /\ m \in Nat /\ DOMAIN expanded = 1..n /\ DOMAIN es = 1..m
      /\ DOMAIN expanded' = 1..(n + m)
      /\ \A i \in DOMAIN expanded' : expanded'[i] = IF i <= n THEN expanded[i] ELSE es[i - n]
  <2>1. IsSeq(expanded)
    BY DEF VersionsInv
  <2>2. IsSeq(es)
    BY DEF Adds
  <2> QED BY <2>1, <2>2, JoinedAt
<1>4. m > 0
  <2>1. es # <<>> /\ IsSeq(es)
    BY DEF Adds
  <2> QED BY <1>3, <2>1 DEF IsSeq
<1> HIDE DEF n, m
<1>5. \A k \in 1..n : k \in DOMAIN expanded' /\ expanded'[k] = expanded[k]
  BY <1>3
<1>6. \A k \in 1..m : n + k \in DOMAIN expanded' /\ expanded'[n + k] = es[k]
  BY <1>3
<1>7. \A k \in DOMAIN expanded' : (k \in 1..n /\ expanded'[k] = expanded[k]) \/ (\E l \in 1..m : k = n + l /\ expanded'[k] = es[l])
  <2>1. SUFFICES ASSUME NEW k \in DOMAIN expanded', k \notin 1..n PROVE \E l \in 1..m : k = n + l /\ expanded'[k] = es[l]
    BY <1>5
  <2>2. k - n \in 1..m /\ k = n + (k - n) /\ expanded'[k] = es[k - n]
    BY <1>3, <2>1
  <2> QED BY <2>2
<1>8. \A k \in 1..n : EntryOf(expanded[k]) /\ expanded[k].base < vnext /\ expanded[k].base \in DOMAIN setup.repos
  BY <1>3 DEF VersionsInv, EntryOf
<1>9. \A k \in 1..m : EntryOf(es[k]) /\ es[k].base = vnext
  BY <1>3 DEF Adds
<1>10. Apart(expanded')
  <2>1. SUFFICES ASSUME NEW j \in DOMAIN expanded', NEW k \in DOMAIN expanded', j # k, expanded'[j].base = expanded'[k].base
                 PROVE  expanded'[j].ref # None /\ expanded'[k].ref # None /\ expanded'[j].ref # expanded'[k].ref
    BY DEF Apart
  <2>2. CASE j \in 1..n /\ k \in 1..n
    BY <1>3, <1>5, <2>1, <2>2 DEF VersionsInv, Apart
  <2>0. \A a \in 1..n, b \in 1..m : expanded[a].base # es[b].base
    <3>1. \A a \in 1..n : expanded[a].base \in Nat
      BY <1>1, <1>8, SMTT(30)
    <3> QED BY <1>1, <1>8, <1>9, <3>1
  <2>3. CASE j \in 1..n /\ k \notin 1..n
    <3>1. PICK b \in 1..m : expanded'[k] = es[b]
      BY <1>7, <2>3
    <3> QED BY <1>5, <2>1, <2>3, <2>0, <3>1, SMTT(30)
  <2>4. CASE j \notin 1..n /\ k \in 1..n
    <3>1. PICK b \in 1..m : expanded'[j] = es[b]
      BY <1>7, <2>4
    <3> QED BY <1>5, <2>1, <2>4, <2>0, <3>1
  <2>5. CASE j \notin 1..n /\ k \notin 1..n
    <3>1. PICK a \in 1..m : j = n + a /\ expanded'[j] = es[a]
      BY <1>7, <2>5
    <3>2. PICK b \in 1..m : k = n + b /\ expanded'[k] = es[b]
      BY <1>7, <2>5
    <3>3. a # b
      BY <2>1, <3>1, <3>2
    <3> QED BY <1>3, <2>1, <3>1, <3>2, <3>3, ZenonT(60) DEF Adds, Apart
  <2> QED BY <2>2, <2>3, <2>4, <2>5
<1>11. \A k \in DOMAIN expanded' : EntryOf(expanded'[k]) /\ (vnext' > 0 => expanded'[k].base < vnext')
  <2>1. \A k \in 1..n : expanded[k].base \in Nat
    BY <1>1, <1>8
  <2> QED BY <1>1, <1>2, <1>7, <1>8, <1>9, <2>1
<1>12. ASSUME NEW i \in DOMAIN setup.repos, i < vnext' \/ V!Complete'
       PROVE  (\E k \in DOMAIN expanded' : expanded'[k].base = i) /\ (V!Built(i)' = {} \/ RightVersions(V!Built(i)', RefsOf(i)))
  <2>1. V!Built(i)' = {expanded'[k].ref : k \in {j \in DOMAIN expanded' : expanded'[j].base = i}} \ {None}
    BY DEF V!Built
  <2>2. i < vnext \/ i = vnext
    BY <1>1, <1>2, <1>12 DEF V!Complete
  <2>3. CASE i < vnext
    <3>1. V!Built(i)' = V!Built(i)
      <4>1. \A k \in DOMAIN expanded' : expanded'[k].base = i => k \in 1..n
        BY <1>1, <1>7, <1>9, <2>3
      <4> QED BY <1>3, <1>5, <2>1, <4>1 DEF V!Built
    <3>2. (\E k \in DOMAIN expanded : expanded[k].base = i) /\ (V!Built(i) = {} \/ RightVersions(V!Built(i), RefsOf(i)))
      BY <2>3 DEF VersionsInv
    <3> QED BY <1>3, <1>5, <3>1, <3>2
  <2>4. CASE i = vnext
    <3> DEFINE built == {es[k].ref : k \in DOMAIN es} \ {None}
    <3>1. V!Built(i)' = built
      <4>1. \A k \in DOMAIN expanded' : expanded'[k].base = i => \E l \in 1..m : expanded'[k] = es[l]
        BY <1>1, <1>7, <1>8, <2>4
      <4>2. \A l \in 1..m : \E k \in DOMAIN expanded' : expanded'[k].base = i /\ expanded'[k] = es[l]
        BY <1>6, <1>9, <2>4
      <4> QED BY <1>3, <2>1, <4>1, <4>2, SMTT(30)
    <3>2. built = {} \/ RightVersions(built, RefsOf(i))
      BY <2>4 DEF Adds
    <3>3. \E k \in DOMAIN expanded' : expanded'[k].base = i
      <4>1. 1 \in 1..m
        BY <1>3, <1>4
      <4> QED BY <1>6, <1>9, <2>4, <4>1
    <3> QED BY <3>1, <3>2, <3>3
  <2> QED BY <2>2, <2>3, <2>4
<1>13. vbuilds' \in Nat /\ vbuilds' > 0 /\ setup' \in Setups
  BY DEF VersionsInv
<1>14. /\ DOMAIN vtags' = DOMAIN setup.repos
       /\ \A i \in DOMAIN setup.repos : ~setup.repos[i].tagged => vtags'[i] = None
  BY DEF VersionsInv
<1>15. (\A k \in DOMAIN expanded : EntryOf(expanded[k]) /\ (vnext > 0 => expanded[k].base < vnext))'
  BY <1>11, SameSetup
<1>16. (\A i \in DOMAIN setup.repos : i < vnext \/ V!Complete =>
          (\E k \in DOMAIN expanded : expanded[k].base = i) /\ (V!Built(i) = {} \/ RightVersions(V!Built(i), RefsOf(i))))'
  BY <1>12, SameSetup
<1> QED BY <1>2, <1>3, <1>10, <1>13, <1>14, <1>15, <1>16 DEF VersionsInv

(* The repository as it is configured.                                      *)
LEMMA FallbackAdds ==
  ASSUME VersionsInv, vnext > 0, V!Fallback = expanded'
  PROVE  \E es : Adds(es, vnext) /\ Joins(expanded, es, expanded')
<1> DEFINE e == V!AsConfigured(vnext)
           es == <<e>>
<1>1. vnext \in DOMAIN setup.repos
  BY ListingsAre DEF VersionsInv
<1>2. e.base = vnext /\ e.version = None /\ e.shares = (vtags[vnext] # None) /\ e.own = None /\ e.ref = None
  BY DEF V!AsConfigured
<1>3. expanded' = Append(expanded, e)
  BY DEF V!Fallback
<1> HIDE DEF e
<1>4. EntryOf(e)
  BY <1>1, <1>2 DEF EntryOf, VersionsInv
<1>5. DOMAIN es = {1} /\ es[1] = e /\ es # <<>>
  OBVIOUS
<1>6. IsSeq(es)
  <2>1. es \in Seq({e})
    OBVIOUS
  <2> QED BY <2>1, InSeq
<1>7. Joins(expanded, es, expanded')
  <2> DEFINE A == {expanded[i] : i \in DOMAIN expanded} \cup {e}
  <2>1. expanded \in Seq(A) /\ e \in A
    BY DEF VersionsInv, IsSeq
  <2> HIDE DEF A
  <2> QED BY <1>3, <2>1 DEF Joins
<1> HIDE DEF es
<1>8. Adds(es, vnext)
  <2>1. Apart(es)
    BY <1>5 DEF Apart
  <2>2. \A k \in DOMAIN es : EntryOf(es[k]) /\ es[k].base = vnext
    BY <1>2, <1>4, <1>5
  <2>3. {es[k].ref : k \in DOMAIN es} \ {None} = {}
    BY <1>2, <1>5
  <2> QED BY <1>5, <1>6, <2>1, <2>2, <2>3 DEF Adds
<1> QED BY <1>7, <1>8

(* One entry per version.                                                   *)
LEMMA VersionedAdds ==
  ASSUME VersionsInv, vnext > 0, NEW v, v = V!DiscoverVersions(RefsOf(vnext), setup), v # <<>>,
         NEW es, es = [k \in DOMAIN v |-> V!Versioned(vnext, v[k])]
  PROVE  Adds(es, vnext)
<1>1. vnext \in DOMAIN setup.repos /\ setup \in Setups
  BY ListingsAre DEF VersionsInv
<1>2. /\ IsSeq(v)
      /\ \A k \in DOMAIN v : v[k] \in {RefsOf(vnext)[j] : j \in DOMAIN RefsOf(vnext)}
      /\ \A j, k \in DOMAIN v : v[j] = v[k] => j = k
      /\ RightVersions({v[k] : k \in DOMAIN v}, RefsOf(vnext))
  <2>1. setup \in Setups
    BY <1>1
  <2>2. vnext \in DOMAIN setup.repos
    BY <1>1
  <2> DEFINE Found(i, w) ==
               /\ IsSeq(w)
               /\ \A k \in DOMAIN w : w[k] \in {RefsOf(i)[j] : j \in DOMAIN RefsOf(i)}
               /\ \A j, k \in DOMAIN w : w[j] = w[k] => j = k
               /\ w # <<>> => RightVersions({w[k] : k \in DOMAIN w}, RefsOf(i))
  <2>3. \A i \in DOMAIN setup.repos : \A w : w = V!DiscoverVersions(RefsOf(i), setup) => Found(i, w)
    BY <2>1, FoundAreRight
  <2>4. Found(vnext, v)
    <3> HIDE DEF Found
    <3> QED BY <2>2, <2>3
  <2> QED BY <2>4
<1>3. DOMAIN es = DOMAIN v /\ \A k \in DOMAIN v : es[k] = V!Versioned(vnext, v[k])
  OBVIOUS
<1>4. ASSUME NEW k \in DOMAIN v
      PROVE  /\ es[k].base = vnext /\ es[k].version = V!DisplayName(v[k]) /\ es[k].ref = v[k] /\ es[k].shares = (vtags[vnext] # None)
             /\ es[k].own = IF vtags[vnext] # None THEN None ELSE V!DisplayName(v[k])
  BY <1>3 DEF V!Versioned
<1>5. \A k \in DOMAIN v : v[k] # None
  <2>1. IsListing(RefsOf(vnext))
    BY <1>1, ListingsAre
  <2> QED BY <1>2, <2>1 DEF IsListing, IsRef
<1>6. IsSeq(es) /\ es # <<>>
  <2>1. Len(v) \in Nat /\ DOMAIN v = 1..Len(v)
    BY <1>2, SeqIs
  <2> DEFINE A == {V!Versioned(vnext, v[k]) : k \in DOMAIN v}
  <2>2. es \in [1..Len(v) -> A]
    BY <2>1
  <2> HIDE DEF A
  <2>3. es \in Seq(A)
    BY <2>1, <2>2
  <2>4. IsSeq(es)
    BY <2>3, InSeq
  <2>5. Len(v) # 0
    BY <1>2 DEF IsSeq
  <2> QED BY <1>3, <2>1, <2>4, <2>5
<1>7. \A k \in DOMAIN es : EntryOf(es[k]) /\ es[k].base = vnext
  <2>1. SUFFICES ASSUME NEW k \in DOMAIN v PROVE EntryOf(es[k]) /\ es[k].base = vnext
    BY <1>3
  <2>2. ~setup.repos[vnext].tagged => vtags[vnext] = None
    BY <1>1 DEF VersionsInv
  <2>3. v[k] \in {RefsOf(vnext)[j] : j \in DOMAIN RefsOf(vnext)}
    BY <1>2
  <2> DEFINE e == es[k]
  <2>4. /\ e.base = vnext /\ e.version = V!DisplayName(v[k]) /\ e.ref = v[k] /\ e.shares = (vtags[vnext] # None)
        /\ e.own = IF vtags[vnext] # None THEN None ELSE V!DisplayName(v[k])
    BY <1>4
  <2> HIDE DEF e
  <2>5. EntryOf(e)
    BY <1>1, <2>2, <2>3, <2>4 DEF EntryOf
  <2> QED BY <2>4, <2>5 DEF e
<1>8. Apart(es)
  BY <1>2, <1>3, <1>4, <1>5 DEF Apart
<1>9. {es[k].ref : k \in DOMAIN es} \ {None} = {v[k] : k \in DOMAIN v}
  BY <1>3, <1>4, <1>5
<1> QED BY <1>2, <1>6, <1>7, <1>8, <1>9 DEF Adds

(* The actions.                                                             *)
LEMMA FailureKeepsVersions == ASSUME VersionsInv, V!DiscoveryFails PROVE VersionsInv'
<1>1. vnext > 0 /\ expanded' = V!Fallback /\ V!Advance /\ setup' = setup /\ vtags' = vtags /\ vbuilds' = vbuilds
  BY DEF V!DiscoveryFails
<1>2. PICK es : Adds(es, vnext) /\ Joins(expanded, es, expanded')
  BY <1>1, FallbackAdds
<1> QED BY <1>1, <1>2, Grows

LEMMA ExpandKeepsVersions == ASSUME VersionsInv, V!Expand PROVE VersionsInv'
<1> DEFINE v == V!DiscoverVersions(RefsOf(vnext), setup)
           es == [k \in DOMAIN v |-> V!Versioned(vnext, v[k])]
<1>1. vnext > 0 /\ V!Advance /\ setup' = setup /\ vbuilds' = vbuilds
  BY DEF V!Expand
<1>2. expanded' = IF v = <<>> THEN V!Fallback ELSE expanded \o es
  BY DEF V!Expand, RefsOf
<1>3. vtags' = IF v = <<>> \/ vtags[vnext] = None THEN vtags ELSE [vtags EXCEPT ![vnext] = V!DisplayName(v[Len(v)])]
  BY DEF V!Expand, RefsOf
<1>4. DOMAIN vtags' = DOMAIN vtags /\ \A i \in DOMAIN vtags : vtags'[i] = vtags[i] \/ vtags[i] # None
  <2> HIDE DEF v
  <2> QED BY <1>3
<1>5. \E a : Adds(a, vnext) /\ Joins(expanded, a, expanded')
  <2>1. CASE v = <<>>
    BY <1>1, <1>2, <2>1, FallbackAdds
  <2>2. CASE v # <<>>
    <3>1. Adds(es, vnext)
      BY <1>1, <2>2, VersionedAdds
    <3>2. Joins(expanded, es, expanded')
      BY <1>2, <2>2 DEF Joins
    <3> HIDE DEF es
    <3> QED BY <3>1, <3>2
  <2> QED BY <2>1, <2>2
<1> HIDE DEF v, es
<1>6. PICK a : Adds(a, vnext) /\ Joins(expanded, a, expanded')
  BY <1>5
<1> QED BY <1>1, <1>4, <1>6, Grows

LEMMA GenerateKeepsVersions == ASSUME VersionsInv, V!GenerateFullSite PROVE VersionsInv'
<1>1. setup' = setup /\ vtags' = vtags /\ vbuilds' = vbuilds + 1 /\ setup \in Setups /\ vbuilds \in Nat
  BY DEF V!GenerateFullSite, VersionsInv
<1>2. Len(setup.repos) \in Nat /\ DOMAIN setup.repos = 1..Len(setup.repos)
  BY <1>1, ListingsAre
<1>3. DOMAIN vtags = DOMAIN setup.repos /\ \A i \in DOMAIN setup.repos : ~setup.repos[i].tagged => vtags[i] = None
  BY DEF VersionsInv
<1>4. CASE setup.enabled /\ ~setup.defaultOnly /\ setup.repos # <<>>
  <2>1. vnext' = 1 /\ expanded' = <<>>
    BY <1>4 DEF V!GenerateFullSite
  <2>2. IsSeq(<<>>)
    BY DEF IsSeq
  <2>3. Len(setup.repos) > 0
    <3> DEFINE A == {setup.repos[i] : i \in DOMAIN setup.repos}
    <3>1. setup.repos \in Seq(A)
      BY <1>1, VersionsAssumption
    <3> HIDE DEF A
    <3> QED BY <1>4, <3>1
  <2>4. \A i \in DOMAIN setup.repos : ~(i < 1)
    BY <1>2
  <2> QED BY <1>1, <1>2, <1>3, <2>1, <2>2, <2>3, <2>4 DEF VersionsInv, Apart, V!Complete
<1>5. CASE ~(setup.enabled /\ ~setup.defaultOnly /\ setup.repos # <<>>)
  <2>1. vnext' = 0 /\ expanded' = [i \in DOMAIN setup.repos |-> V!AsConfigured(i)]
    BY <1>5 DEF V!GenerateFullSite
  <2>2. DOMAIN expanded' = DOMAIN setup.repos
    BY <2>1
  <2>3. ASSUME NEW i \in DOMAIN setup.repos
        PROVE  expanded'[i].base = i /\ expanded'[i].ref = None /\ EntryOf(expanded'[i])
    <3> DEFINE e == expanded'[i]
    <3>1. e = V!AsConfigured(i)
      BY <2>1
    <3>2. e.base = i /\ e.version = None /\ e.shares = (vtags[i] # None) /\ e.own = None /\ e.ref = None
      BY <3>1 DEF V!AsConfigured
    <3> HIDE DEF e
    <3>3. EntryOf(e)
      BY <1>3, <3>2 DEF EntryOf
    <3> QED BY <3>2, <3>3 DEF e
  <2>4. IsSeq(expanded')
    <3> DEFINE A == {V!AsConfigured(i) : i \in DOMAIN setup.repos}
    <3>1. expanded' \in [1..Len(setup.repos) -> A]
      BY <1>2, <2>1
    <3> HIDE DEF A
    <3>2. expanded' \in Seq(A)
      BY <1>2, <3>1
    <3> QED BY <3>2, InSeq
  <2>5. Apart(expanded')
    BY <2>2, <2>3 DEF Apart
  <2>6. ASSUME NEW i \in DOMAIN setup.repos PROVE (\E k \in DOMAIN expanded' : expanded'[k].base = i) /\ V!Built(i)' = {}
    <3>1. V!Built(i)' = {expanded'[k].ref : k \in {j \in DOMAIN expanded' : expanded'[j].base = i}} \ {None}
      BY DEF V!Built
    <3> QED BY <2>2, <2>3, <3>1
  <2>7. \A k \in DOMAIN expanded' : EntryOf(expanded'[k]) /\ (vnext' > 0 => expanded'[k].base < vnext')
    BY <2>1, <2>2, <2>3
  <2>8. \A i \in DOMAIN setup.repos :
          (\E k \in DOMAIN expanded' : expanded'[k].base = i) /\ (V!Built(i)' = {} \/ RightVersions(V!Built(i)', RefsOf(i)))
    BY <2>6
  <2>9. vnext' \in 0..Len(setup.repos) /\ vbuilds' \in Nat
    BY <1>1, <1>2, <2>1
  <2>10. (\A k \in DOMAIN expanded : EntryOf(expanded[k]) /\ (vnext > 0 => expanded[k].base < vnext))'
    BY <2>7, <1>1, SameSetup
  <2>11. (\A i \in DOMAIN setup.repos : i < vnext \/ V!Complete =>
          (\E k \in DOMAIN expanded : expanded[k].base = i) /\ (V!Built(i) = {} \/ RightVersions(V!Built(i), RefsOf(i))))'
    BY <1>1, <2>8, SameSetup
  <2>12. (setup \in Setups /\ vnext \in 0..Len(setup.repos) /\ vbuilds \in Nat /\ (vnext > 0 => vbuilds > 0))'
    BY <1>1, <2>1, <2>9
  <2>13. (IsSeq(expanded) /\ Apart(expanded))'
    BY <2>4, <2>5
  <2>14. (DOMAIN vtags = DOMAIN setup.repos /\ \A i \in DOMAIN setup.repos : ~setup.repos[i].tagged => vtags[i] = None)'
    BY <1>1, <1>3
  <2> QED BY <2>10, <2>11, <2>12, <2>13, <2>14 DEF VersionsInv
<1> QED BY <1>4, <1>5

LEMMA VersionsKept == ASSUME VersionsInv, V!Next \/ UNCHANGED versionVars PROVE VersionsInv'
<1>1. CASE UNCHANGED versionVars
  <2>1. setup' = setup /\ vtags' = vtags /\ vnext' = vnext /\ expanded' = expanded /\ vbuilds' = vbuilds
    BY <1>1 DEF versionVars
  <2>2. ASSUME NEW i PROVE V!Built(i)' = V!Built(i)
    BY <2>1 DEF V!Built
  <2>3. ASSUME NEW i \in DOMAIN setup.repos, i < vnext' \/ V!Complete'
        PROVE  /\ \E k \in DOMAIN expanded : expanded[k].base = i
               /\ V!Built(i)' = {} \/ RightVersions(V!Built(i)', RefsOf(i))
    BY <2>1, <2>2, <2>3 DEF VersionsInv, V!Complete
  <2> QED BY <2>1, <2>3, SameSetup DEF VersionsInv, Apart
<1> QED BY <1>1, FailureKeepsVersions, ExpandKeepsVersions, GenerateKeepsVersions DEF V!Next

(* Names on display are the same only for branches, and then as the known    *)
(* exceptions say.                                                          *)
LEMMA DisplayedAlike ==
  ASSUME NEW a, IsRef(a), NEW b, IsRef(b), a # b, V!DisplayName(a) = V!DisplayName(b)
  PROVE  /\ a.type = "branch" /\ b.type = "branch"
         /\ \/ a.name.word = b.name.word
            \/ {a.name.word, b.name.word} \subseteq {"main", "master", "latest"}
            \/ {a.name.word, b.name.word} \subseteq {"develop", "development"}
<1>1. V!DisplayName(a).capital = (a.type # "tag") /\ V!DisplayName(b).capital = (b.type # "tag")
  BY DEF V!DisplayName
<1>2. a.type = b.type
  BY <1>1 DEF IsRef
<1>3. a.type # "tag"
  <2>1. SUFFICES ASSUME a.type = "tag" PROVE FALSE
    OBVIOUS
  <2>2. V!DisplayName(a).word = a.name.word /\ V!DisplayName(a).sep = a.name.sep /\ V!DisplayName(b).word = b.name.word /\ V!DisplayName(b).sep = b.name.sep
    BY <1>2, <2>1 DEF V!DisplayName
  <2> QED BY <1>2, <2>2 DEF IsRef
<1>4. ASSUME NEW c, c.type # "tag"
      PROVE  V!DisplayName(c).word = IF c.name.word \in {"main", "master"} THEN "latest"
                                     ELSE IF c.name.word \in {"develop", "development"} THEN "development" ELSE c.name.word
  BY <1>4 DEF V!DisplayName
<1> QED BY <1>2, <1>3, <1>4 DEF IsRef

(* What the invariant says of a complete list.                              *)
LEMMA VersionsAreRight ==
  ASSUME VersionsInv
  PROVE  V!EveryRepoIsBuilt /\ V!VersionsAreSelected /\ V!OwnClones /\ V!TagsNameVersion
<1>1. V!EveryRepoIsBuilt
  BY DEF V!EveryRepoIsBuilt, VersionsInv
<1>2. V!TagsNameVersion
  <2>1. SUFFICES ASSUME NEW k \in DOMAIN expanded, ~setup.repos[expanded[k].base].tagged PROVE V!TagsOf(expanded[k]) = expanded[k].version
    BY DEF V!TagsNameVersion
  <2>2. EntryOf(expanded[k])
    BY DEF VersionsInv
  <2> QED BY <2>1, <2>2 DEF EntryOf, V!TagsOf
<1>3. V!VersionsAreSelected
  <2>1. SUFFICES ASSUME V!Complete, NEW i \in DOMAIN setup.repos, V!Built(i) # {} 
                 PROVE  /\ V!Built(i) \subseteq V!Selected(RefsOf(i))
                        /\ setup.max = 0 \/ Cardinality(V!Selected(RefsOf(i))) <= setup.max => V!Built(i) = V!Selected(RefsOf(i))
                        /\ setup.max > 0 /\ Cardinality(V!Selected(RefsOf(i))) > setup.max => Cardinality(V!Built(i)) = setup.max
    BY SameCardinality DEF V!VersionsAreSelected, RefsOf
  <2>2. RightVersions(V!Built(i), RefsOf(i))
    BY <2>1 DEF VersionsInv
  <2> QED BY <2>2 DEF RightVersions
<1>4. V!OwnClones
  <2>1. SUFFICES ASSUME NEW j \in DOMAIN expanded, NEW k \in DOMAIN expanded, j # k, V!Name(expanded[j]) = V!Name(expanded[k])
                 PROVE  V!SameOnDisplay(expanded[j], expanded[k])
    BY DEF V!OwnClones
  <2> DEFINE a == expanded[j]
             b == expanded[k]
  <2>2. a.base = b.base /\ a.version = b.version
    BY <2>1 DEF V!Name
  <2>3. a.ref # None /\ b.ref # None /\ a.ref # b.ref
    BY <2>1, <2>2 DEF VersionsInv, Apart
  <2>4. EntryOf(a) /\ EntryOf(b)
    BY DEF VersionsInv
  <2> HIDE DEF a, b
  <2>5. IsRef(a.ref) /\ IsRef(b.ref)
    <3>1. IsListing(RefsOf(a.base)) /\ IsListing(RefsOf(b.base))
      BY <2>4, ListingsAre DEF EntryOf, VersionsInv
    <3> QED BY <2>3, <2>4, <3>1 DEF EntryOf, IsListing
  <2>6. V!DisplayName(a.ref) = V!DisplayName(b.ref)
    BY <2>2, <2>3, <2>4 DEF EntryOf
  <2>7. V!SameOnDisplay(a, b)
    <3>1. IsRef(a.ref)
      BY <2>5
    <3>2. IsRef(b.ref)
      BY <2>5
    <3>3. a.ref # b.ref
      BY <2>3
    <3> QED BY <2>3, <2>6, <3>1, <3>2, <3>3, DisplayedAlike DEF V!SameOnDisplay
  <2> QED BY <2>7 DEF a, b
<1> QED BY <1>1, <1>2, <1>3, <1>4

(* For any repositories, references, patterns and limits, in every build of a *)
(* process and whatever listings fail: every configured repository is built,  *)
(* in the versions that the patterns select and as many as the limit allows,  *)
(* each with a name of its own and tags of its own, but for the names and the *)
(* shared tags that the properties except.                                    *)
THEOREM VersionsAreAllBuilt == Spec => []VersionsAreBuilt
<1> DEFINE Inv == part = "versions" => VersionsInv
<1>1. Init => Inv
  BY VersionsStart DEF Init
<1>2. Inv /\ [Next]_vars => Inv'
  <2>1. ASSUME Inv, [Next]_vars, part' = "versions" PROVE VersionsInv'
    <3>1. part = "versions" /\ (V!Next \/ UNCHANGED versionVars)
      BY <2>1 DEF Next, vars
    <3>2. VersionsInv
      BY <2>1, <3>1
    <3> QED BY <3>1, <3>2, VersionsKept
  <2> QED BY <2>1
<1>3. Inv => VersionsAreBuilt
  BY VersionsAreRight DEF VersionsAreBuilt
<1> QED BY <1>1, <1>2, <1>3, PTL DEF Spec

=============================================================================
