----------------------------- MODULE Templates -----------------------------
(***************************************************************************)
(* `docbuilder template new': authors fetch a template from a documentation   *)
(* site, fill it in and write the document under docs/, often at the same     *)
(* time on a shared tree.  The number in a file's name is found by looking at *)
(* the files that are there, once for the path and again for the body; the    *)
(* file is created exclusively and handed to the lint fixer.                  *)
(*                                                                            *)
(* A page is [url, type, meta, blocks, schema, defaults, seq, uses], uses     *)
(* being the fields its body mentions (its path mentions "slug").  A field's  *)
(* value is what was typed: "blank", "commas", "wrong" (no option, no         *)
(* Boolean) or "right".  A path is [num, slug], a slug [word, up].            *)
(***************************************************************************)
EXTENDS Integers, Sequences, FiniteSets

CONSTANTS
  None, Invalid,
  Listings,          \* the lists of template links a site may show
  Flags,             \* values given with --set, a function of fields
  Authors, Slugs,
  FirstDocs,         \* the documents that are there at the start
  DigitsEnd,         \* the largest number the built-in pattern matches (999)
  MaxSequenceFiles,  \* files looked at for a number
  MaxDocs            \* documents that are written

VARIABLES
  tdocs,     \* the documents: [id, path, body, saw, crossed]
  trun,      \* per author, the run under way
  tcount     \* documents written so far, the ones at the start included

vars == <<tdocs, trun, tcount>>

Idle == [pc |-> "idle"]

-----------------------------------------------------------------------------
(* Finding the template. *)

\* dedupeTemplateLinksByURL: the first of the links to a page.
DedupeTemplateLinksByURL(links) ==
  [k \in 1..Cardinality({l.url : l \in {links[i] : i \in DOMAIN links}}) |->
     links[CHOOSE i \in DOMAIN links :
             /\ \A j \in 1..(i - 1) : links[j].url # links[i].url
             /\ Cardinality({links[j].url : j \in 1..(i - 1)}) = k - 1]]

\* selectTemplate: one is taken, several are a question, which --yes rules out.
SelectTemplate(links, yes) ==
  IF yes /\ Len(links) > 1 THEN {} ELSE {links[i] : i \in DOMAIN links}

\* ParseTemplatePage
ParseTemplatePage(page) == page.meta /\ page.blocks = 1

-----------------------------------------------------------------------------
(* Filling it in. *)

\* parseInputValue: None when nothing was typed, Invalid when the field does not
\* admit it.
ParseInputValue(field, v) ==
  IF v = "blank" THEN None
  ELSE IF field.type \notin {"string", "list", "enum", "bool"} THEN Invalid
  ELSE IF field.type = "list" /\ v = "commas" THEN None
  ELSE IF field.type \in {"enum", "bool"} /\ v # "right" THEN Invalid
  ELSE v

\* validateRequiredFields
ValidateRequiredFields(schema, values) == \A k \in DOMAIN schema : schema[k].required => values[k] # None

\* The check at the end of ResolveTemplateInputs, on both its ways.
RequiredHold(schema, values, useDefaults) == ValidateRequiredFields(schema, values)

\* ResolveTemplateInputs: the defaults as they are, over them what was set, and for
\* what is still missing the answers at the prompts.
ResolveTemplateInputs(page, flags, useDefaults, answers) ==
  LET set == [k \in DOMAIN page.schema |-> ParseInputValue(page.schema[k], flags[k])]
      given == [k \in DOMAIN set |-> IF set[k] # None THEN set[k] ELSE page.defaults[k]]
      asked == [k \in DOMAIN set |-> IF given[k] # None \/ useDefaults THEN given[k]
                                     ELSE ParseInputValue(page.schema[k], answers[k])]
  IN IF (\E k \in DOMAIN set : Invalid \in {set[k], asked[k]}) \/ ~RequiredHold(page.schema, asked, useDefaults)
     THEN Invalid ELSE asked

-----------------------------------------------------------------------------
(* Numbering. *)

\* buildSequenceResolver: the page's own sequence, or that of decision records.
Sequence(page) ==
  IF page.seq # None THEN page.seq
  ELSE IF page.type = "adr" THEN [start |-> 1, limit |-> DigitsEnd] ELSE None

Matched(def, found) == {d.path.num : d \in {e \in found : def.limit = None \/ e.path.num <= def.limit}}

\* Mutated form of ComputeNextInSequence: one more than there are files.
ComputeNextInSequence_Counts(def, found) == Cardinality(Matched(def, found)) + 1

\* One more than the largest number in a name the pattern matches.
ComputeNextInSequence(def, found) ==
  LET seen == Matched(def, found)
  IN IF seen # {} THEN 1 + CHOOSE n \in seen : \A m \in seen : m <= n
     ELSE IF def.start > 0 THEN def.start ELSE 1

CanNumber(def) == def \notin {None, Invalid} /\ Cardinality(tdocs) <= MaxSequenceFiles

-----------------------------------------------------------------------------
Init ==
  /\ tdocs \in FirstDocs
  /\ tcount = Cardinality(tdocs)
  /\ trun = [a \in Authors |-> Idle]

\* Whatever fails before the file is created leaves nothing but a message: a page
\* that cannot be fetched or parsed, an input, an answer that cannot be read, a
\* template that mentions a value that is missing, a refusal.
GiveUp(a) ==
  /\ trun[a].pc \in {"path", "body", "write"}
  /\ trun' = [trun EXCEPT ![a] = Idle]
  /\ UNCHANGED <<tdocs, tcount>>

\* TemplateNewCmd.Run up to the inputs.
Start(a) ==
  /\ trun[a].pc = "idle" /\ tcount < MaxDocs
  /\ \E listing \in Listings, yes, useDefaults \in BOOLEAN, flags, answers \in Flags, slug \in Slugs :
       \E page \in SelectTemplate(DedupeTemplateLinksByURL(listing), yes) :
         LET values == ResolveTemplateInputs(page, flags, useDefaults, answers)
         IN /\ ParseTemplatePage(page) /\ values # Invalid
            /\ values["slug"] # None
            /\ trun' = [trun EXCEPT ![a] =
                 [pc |-> "path", page |-> page, values |-> values, slug |-> slug,
                  saw |-> {d.id : d \in tdocs}]]
  /\ UNCHANGED <<tdocs, tcount>>

\* RenderOutputPath
RenderOutputPath(a) ==
  /\ trun[a].pc = "path" /\ CanNumber(Sequence(trun[a].page))
  /\ LET num == ComputeNextInSequence(Sequence(trun[a].page), tdocs)
     IN trun' = [trun EXCEPT ![a] =
          [pc |-> "body", path |-> [num |-> num, slug |-> @.slug], def |-> Sequence(@.page),
           renders |-> \A k \in @.page.uses : @.values[k] # None, saw |-> @.saw, crossed |-> FALSE]]
  /\ UNCHANGED <<tdocs, tcount>>

\* RenderTemplateBody: the number is looked for again.
RenderTemplateBody(a) ==
  /\ trun[a].pc = "body" /\ trun[a].renders /\ CanNumber(trun[a].def)
  /\ LET num == ComputeNextInSequence(trun[a].def, tdocs)
     IN trun' = [trun EXCEPT ![a] =
          [pc |-> "write", path |-> @.path, body |-> num, saw |-> @.saw, crossed |-> @.crossed]]
  /\ UNCHANGED <<tdocs, tcount>>

At(path) == {d \in tdocs : d.path = path}
Crossed(a) == [b \in Authors |-> IF b # a /\ trun[b].pc = "body" THEN [trun[b] EXCEPT !.crossed = TRUE] ELSE trun[b]]
Made(r, body) ==
  [id |-> tcount + 1, path |-> r.path, body |-> body, saw |-> r.saw, crossed |-> r.crossed]

\* O_CREATE|O_EXCL
Exclusive(path) == At(path) = {}

\* Confirmed, or with --yes: WriteGeneratedFile.  When the content cannot be written
\* the file stays, empty; when it is there the run is over.
WriteGeneratedFile(a, written) ==
  /\ trun[a].pc = "write"
  /\ IF Exclusive(trun[a].path)
     THEN /\ tdocs' = (tdocs \ At(trun[a].path)) \cup {Made(trun[a], IF written THEN trun[a].body ELSE None)}
          /\ tcount' = tcount + 1
          /\ trun' = [Crossed(a) EXCEPT ![a] = IF written THEN [pc |-> "lint", id |-> tcount + 1] ELSE Idle]
     ELSE trun' = [trun EXCEPT ![a] = Idle] /\ UNCHANGED <<tdocs, tcount>>

\* runLintFix: the fixer gives the file its name in small letters if that is free, or
\* fails; the file stays in either case.
Lower(path) == [path EXCEPT !.slug.up = FALSE]
RunLintFix(a, ok) ==
  /\ trun[a].pc = "lint"
  /\ LET mine == {d \in tdocs : d.id = trun[a].id}
         free == \A d \in mine : At(Lower(d.path)) = {}
     IN tdocs' = IF ok /\ free THEN (tdocs \ mine) \cup {[d EXCEPT !.path = Lower(@)] : d \in mine} ELSE tdocs
  /\ trun' = [trun EXCEPT ![a] = Idle]
  /\ UNCHANGED tcount

Next ==
  \E a \in Authors :
    \/ Start(a) \/ GiveUp(a) \/ RenderOutputPath(a) \/ RenderTemplateBody(a)
    \/ \E ok \in BOOLEAN : WriteGeneratedFile(a, ok) \/ RunLintFix(a, ok)

-----------------------------------------------------------------------------
(* Properties *)

\* No step puts a document in the place of another: neither a run that arrived at the
\* same path nor the fixer's rename.
NeverOverwrites ==
  \A d \in tdocs : d \notin tdocs' => \A e \in tdocs' : e.path = d.path => e.id = d.id

\* Two documents have the same number only if they were made at the same time: neither
\* was there when the run that made the other began.  Known exception: numbers with
\* more digits than the built-in pattern matches, which it takes again and again.
NumbersAreNew ==
  \A d, e \in tdocs :
    d # e /\ d.path.num = e.path.num /\ d.path.num <= DigitsEnd => d.id \notin e.saw /\ e.id \notin d.saw

\* A document has one number, in its name and in its text.  Known exception: another
\* document was written between the two times the run looked for it.
BodyMatchesPath ==
  \A d \in tdocs : d.body \in {None, d.path.num} \/ d.crossed

=============================================================================
