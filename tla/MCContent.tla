------------------------------ MODULE MCContent ------------------------------
(* A small instance of Content.                                             *)
EXTENDS Content, TLC

-----------------------------------------------------------------------------
(* The trees that are fixed. *)

Named(word, case, gap) == [word |-> word, case |-> case, gap |-> gap, mark |-> FALSE, edge |-> FALSE]
In(dir, name) == [dir |-> dir, name |-> name]
API == Named("api", "upper", "none")
Api == Named("api", "title", "none")
api == Named("api", "lower", "none")
MyDoc == Named("doc", "title", "space")
myDoc == Named("doc", "lower", "hyphen")
gone == Named("gone", "lower", "none")
idx == In(<<>>, Named("idx", "lower", "none"))
Sub == In(<<"sub">>, MyDoc)
MCPaths ==
  {In(<<>>, n) : n \in {API, Api, api, MyDoc, Named("doc", "lower", "space"), myDoc}} \cup {idx, Sub, In(<<"sub">>, myDoc)}

Text(rel, n, ext) == [link |-> FALSE, text |-> [rel |-> rel, name |-> n, ext |-> ext]]
Link(rel, n, ext) == [Text(rel, n, ext) EXCEPT !.link = TRUE]
Doc(d, body) == [doc |-> d, uid |-> "u", alias |-> TRUE, body |-> body, fp |-> body]

\* Two lines with a link each, and one line with two targets.
Bodies ==
  {<< <<a>>, <<b>> >> : a, b \in {Link(<<>>, n, e) : n \in {API, MyDoc, gone}, e \in BOOLEAN} \cup {Link(<<"sub">>, MyDoc, TRUE)}}
  \cup {<< <<a, b>> >> : a, b \in {Link(<<>>, API, TRUE), Text(<<>>, API, TRUE), Link(<<"sub">>, MyDoc, TRUE), Link(<<>>, MyDoc, TRUE)}}

\* idx with that body, documents at the paths of `at', and git as it is in a clone
\* where nothing was renamed.
Tree(body, at) ==
  [files |-> [p \in MCPaths |-> IF p = idx THEN Doc(p, body)
                              ELSE IF p = Sub /\ p \in at THEN Doc(p, << <<Link(<<"..">>, API, TRUE)>> >>)
                              ELSE IF p \in at THEN Doc(p, <<>>) ELSE None],
   history |-> {}, staged |-> {}, deleted |-> {}, untracked |-> {}, head |-> [p \in MCPaths |-> <<>>]]

\* gone was renamed by commits, in the index, in the working tree, or out of it; or
\* by a commit to a name that was renamed afterwards; or idx had another link.
Top(n) == In(<<>>, n)
Was(olds, n) == {[old |-> o, new |-> n] : o \in olds}
Gits(body) ==
  LET start == Tree(body, {Top(API), Top(MyDoc), Sub})
      lost(p) == [path |-> Top(gone), content |-> Doc(p, <<>>)]
  IN {[start EXCEPT !.history = Was(h, Top(MyDoc)), !.staged = Was(s, Top(API))] : h, s \in {{}, {Top(gone)}}}
     \cup {[start EXCEPT !.history = Was({Top(gone)}, Top(Named("mid", "lower", "none"))),
                        !.staged = Was({Top(Named("mid", "lower", "none"))}, Top(MyDoc))],
           [start EXCEPT !.staged = Was({Top(gone)}, In(<<"..">>, API))],
           [start EXCEPT !.head[idx] = <<[rel |-> <<>>, name |-> MyDoc, ext |-> TRUE]>>]}
     \cup {[start EXCEPT !.deleted = {lost(Top(API))}, !.untracked = u] : u \in {{Top(API)}, {Top(MyDoc)}, {Top(API), Top(MyDoc)}}}

\* Documents whose front matter lacks something.
Marked ==
  {[doc |-> MyDoc, uid |-> u, alias |-> a, body |-> <<>>, fp |-> f]
     : u \in {None, "u", "invalid"}, a \in BOOLEAN, f \in {<<>>, <<"old">>}}

MCTrees ==
  {Tree(body, {Top(n) : n \in s} \cup {Sub})
     : body \in Bodies, s \in {{API}, {API, Api}, {API, MyDoc}, {MyDoc, myDoc}, {API, api}}}
  \cup UNION {Gits(body) : body \in Bodies}
  \cup {[Tree(body, {Top(API), Top(MyDoc), Sub}) EXCEPT !.files[Top(MyDoc)] = Doc(Top(MyDoc), << <<Link(<<>>, API, TRUE)>> >>)]
          : body \in {b \in Bodies : Len(b) = 1}}
  \cup {[Tree(<<>>, {}) EXCEPT !.files[Top(n)] = d] : n \in {MyDoc, myDoc}, d \in Marked}

-----------------------------------------------------------------------------
(* The sites that are built. *)

Small(word) == [word |-> word, up |-> FALSE]
Upper(word) == [word |-> word, up |-> TRUE]
Body(own) == [links |-> <<>>, images |-> <<>>, own |-> own, valid |-> TRUE, public |-> "none", alias |-> TRUE, h1 |-> TRUE]
File(base, dir, name, kind, body) == [base |-> Small(base), dir |-> dir, name |-> name, kind |-> kind, body |-> body]
Page(base, dir, name) == File(base, dir, name, "md", Body({}))
Repo(found, forge) ==
  [files |-> found, forge |-> forge, cloned |-> TRUE, docignore |-> FALSE, url |-> IF forge = None THEN "local" ELSE forge.word]
Site(repos) == [repos |-> repos, namespacing |-> "auto", publicOnly |-> FALSE, vscode |-> FALSE, editURLBase |-> None]
Other == Upper("other") :> Repo(<<Page("docs", <<>>, Small("guide"))>>, Small("gitlab"))
With(repos, more) == IF more THEN repos @@ Other ELSE repos

\* Every way to write a link from a document of dir to one of `to': from the
\* root, up and down, straight down, and up one level.
Ways(dir, to, name) ==
  LET way(ups, d, abs) == [ups |-> ups, dir |-> d, name |-> name, abs |-> abs]
      n == Len(dir)
  IN <<way(0, to, TRUE), way(n, to, FALSE)>> \o
     (IF n > 0 /\ Len(to) >= n /\ SubSeq(to, 1, n) = dir THEN <<way(0, SubSeq(to, n + 1, Len(to)), FALSE)>> ELSE <<>>) \o
     (IF n = 2 /\ to # <<>> /\ to[1] = dir[1] THEN <<way(1, Tail(to), FALSE)>> ELSE <<>>)

\* A document that links to another one, and to an image, in all these ways.
Dirs == {<<>>, <<Small("api")>>, <<Small("api"), Small("v1")>>, <<Upper("api")>>}
Linking(from, source, to, target) ==
  (IF from = to /\ source = target THEN <<>> ELSE <<Page("docs", to, target)>>) \o
  <<File("docs", to, Small("img"), "asset", Body({})),
    File("docs", from, source, "md",
         [Body({}) EXCEPT !.links = Ways(from, to, target), !.images = Ways(from, to, Small("img"))])>>
LinkSites ==
  {[Site(With(name :> Repo(Linking(from, source, to, target), under[1]), more)) EXCEPT !.namespacing = under[2]]
     : name \in {Small("repo"), Upper("repo")}, from \in Dirs, to \in Dirs,
       target \in {Small("guide"), Upper("guide"), Upper("readme"), Small("index")},
       source \in {Small("page"), Upper("readme")}, more \in BOOLEAN,
       under \in {<<None, "auto">>, <<Small("github"), "auto">>, <<Small("github"), "always">>}}

\* Up to three files that may get in each other's way, in the order of the walk.
Rivals ==
  <<Page("docs", <<>>, Upper("guide")), Page("docs", <<>>, Upper("readme")), Page("docs", <<>>, Small("changelog")),
    Page("docs", <<Small("api")>>, Upper("readme")), Page("docs", <<Small("api")>>, Small("index")),
    Page("docs", <<>>, Small("guide")), Page("docs", <<>>, Small("index")), Page(".", <<>>, Small("guide")),
    Page(".", <<Small("api"), Small("v1")>>, Small("hidden")), Page(".", <<Small("api"), Small("v1")>>, Small("guide"))>>
RivalSites ==
  {[Site(With(Small("repo") :> Repo(<<Rivals[i]>> \o (IF j > i THEN <<Rivals[j]>> ELSE <<>>) \o
                                    (IF j > i /\ k > j THEN <<Rivals[k]>> ELSE <<>>), None), more))
     EXCEPT !.namespacing = "never"]
     : i, j, k \in DOMAIN Rivals, more \in BOOLEAN}
  \cup {Site(With(Small("repo") :> [Repo(<<Rivals[6]>>, Small("github")) EXCEPT !.docignore = c, !.cloned = c], TRUE))
          : c \in BOOLEAN}

\* What an author writes in the front matter, and where edit links go.
FieldSites ==
  {[Site(Small("repo") :> [Repo(<<File(base, dir, name, "md", [Body(own) EXCEPT !.valid = ok, !.public = pub, !.alias = al])>>,
                                Small("github")) EXCEPT !.url = url])
     EXCEPT !.publicOnly = po, !.editURLBase = eb]
     : base \in {"docs", "."}, dir \in {<<>>, <<Small("docs")>>}, name \in {Small("guide"), Small("index")},
       own \in {{}, {"title", "uid"}, {"tags", "editURL"}}, ok \in BOOLEAN, pub \in {"none", "true", "false"},
       al \in BOOLEAN, url \in {"github", "gitlab", "selfhosted", "local"}, po \in BOOLEAN, eb \in {None, "gitlab"}}
  \cup {[Site(Small("repo") :> Repo(<<Page("docs", <<Small("api")>>, name)>>, None)) EXCEPT !.vscode = TRUE]
          : name \in {Small("guide"), Small("index"), Upper("index"), Upper("guide")}}

\* Repositories that differ in case, one that is named as a forge, a section that is,
\* an image named index and a forge named as one of another kind.
TwinSites ==
  LET github == Small("github")
      linked == [Body({}) EXCEPT !.images = Ways(<<>>, <<>>, Small("index"))]
      always(repos) == [Site(repos) EXCEPT !.namespacing = "always"]
  IN {Site((Small("repo") :> Repo(<<Page("docs", <<>>, Small("guide"))>>, None))
             @@ (Upper("repo") :> Repo(<<Page("docs", <<>>, name)>>, None))) : name \in {Upper("readme"), Small("index")}}
     \cup {always((github :> Repo(<<Page("docs", <<Small("repo")>>, Small("guide"))>>, None))
                   @@ (Small("repo") :> Repo(<<Page("docs", <<>>, Small("index"))>>, github))),
            always(Small("repo") :> Repo(<<Page("docs", <<>>, Small("index")), Page("docs", <<github>>, Small("guide"))>>, github)),
            Site(With(Small("repo") :> Repo(<<File("docs", <<>>, Small("index"), "asset", Body({})),
                                              File("docs", <<>>, Small("guide"), "md", linked)>>, None), TRUE)),
            always(Small("repo") :> [Repo(<<Page("docs", <<>>, Small("guide"))>>, github) EXCEPT !.url = "gitlab"])}

MCSites == LinkSites \cup RivalSites \cup FieldSites \cup TwinSites

-----------------------------------------------------------------------------
(* The configuration files that are loaded. *)

Is(w) == [word |-> w, exact |-> TRUE]
Like(w) == [word |-> w, exact |-> FALSE]
Takes(t) == [text |-> "time", t |-> t, padded |-> FALSE]
Bad(text) == [text |-> text, t |-> 0, padded |-> FALSE]
Windows == {Takes(t) : t \in {-1, 0, 1, 3, 5, 7}} \cup {Bad(x) : x \in {"none", "blank", "bad"}} \cup {[Takes(3) EXCEPT !.padded = TRUE]}
Entries == {<<>>, <<1>>, <<2, 1>>, <<0>>, <<2, 0, 2>>}
Listed(s) == [i \in DOMAIN s |-> [name |-> s[i], padded |-> s[i] = 2]]
Lists == {Listed(s) : s \in Entries}

\* A file in which nothing is written but a repository, and one with a daemon.
Sparse ==
  [version |-> "2.0",
   build |-> [render |-> Is(""), namespace |-> Is(""), clone |-> Is(""), backoff |-> Is(""), concurrency |-> None, depth |-> None,
              retries |-> None, initial |-> Bad("none"), maxDelay |-> Bad("none"), deletions |-> None, hardReset |-> None,
              skip |-> None, workspace |-> None],
   output |-> [dir |-> None, base |-> None], daemon |-> None, filtering |-> None, versioning |-> None, monitoring |-> None,
   forges |-> <<>>, repositories |-> <<[auth |-> None, password |-> FALSE, paths |-> <<>>, branch |-> ""]>>]
Served ==
  [Sparse EXCEPT !.daemon =
     [schedule |-> "empty", queue |-> None, builds |-> None, onDiscovery |-> None, outputDir |-> None, quiet |-> Bad("none"),
      maxDelay |-> Bad("none"), immediate |-> None, verify |-> None]]
Verifying(e, c) == [enabled |-> e, skipEdit |-> e, follow |-> e, concurrent |-> c, redirects |-> c]
OnGitHub == [name |-> "a", type |-> Is("github"), auth |-> "token", scopes |-> TRUE, autoDiscover |-> FALSE]

MCConfigFiles ==
  {[f EXCEPT !.build.render = r, !.build.backoff = b, !.build.clone = c]
     : f \in {Sparse, Served}, r \in {Is(""), Like(""), Is("auto"), Like("never"), Is("other")},
       b \in {Is(""), Like(""), Is("linear"), Like("exponential"), Is("other")}, c \in {Is(""), Like("update"), Is("other")}}
  \cup {[Served EXCEPT !.build = [@ EXCEPT !.depth = d, !.retries = r, !.concurrency = c, !.deletions = b, !.hardReset = b, !.skip = b]]
     : d \in {None, -1, 0, 3}, r \in {None, -1, 0, 5}, c \in {None, -1, 2}, b \in {None, TRUE, FALSE}}
  \cup {[Served EXCEPT !.build = [@ EXCEPT !.initial = i, !.maxDelay = m, !.backoff = b, !.retries = 5]]
     : i \in Windows, m \in Windows, b \in {Is("linear"), Is("exponential")}}
  \cup {[Served EXCEPT !.daemon.quiet = q, !.daemon.maxDelay = m] : q \in Windows, m \in Windows}
  \cup {[Served EXCEPT !.daemon.schedule = s, !.daemon.onDiscovery = b, !.daemon.immediate = b, !.daemon.queue = q, !.daemon.builds = q,
                       !.daemon.verify = Verifying(b, q)]
     : s \in {"ok", "blank", "bad", "empty"}, b \in {None, TRUE, FALSE}, q \in {None, -1, 0, 1}}
  \cup {[f EXCEPT !.output.dir = d, !.output.base = b, !.daemon = IF f = Served THEN [@ EXCEPT !.outputDir = o] ELSE @]
     : f \in {Sparse, Served}, b \in {None, "base"},
       d \in {None, [clean |-> "site", exact |-> FALSE], [clean |-> "other", exact |-> FALSE]},
       o \in {None, [clean |-> "site", exact |-> TRUE], [clean |-> "other", exact |-> TRUE]}}
  \cup {[Sparse EXCEPT !.filtering = [required |-> r, ignore |-> i, include |-> i, exclude |-> r]]
     : r \in Lists \cup {None}, i \in Lists \cup {None}}
  \cup {[Sparse EXCEPT !.versioning = [enabled |-> e, strategy |-> s, keep |-> k, branches |-> b, tags |-> b]]
     : e \in {None, TRUE, FALSE}, s \in {Is(""), Like(""), Is("tags_only"), Like("branches_only"), Is("other")}, k \in {None, -1, 2},
       b \in {Listed(<<>>), Listed(<<2, 0, 2>>)}}
  \cup {[Sparse EXCEPT !.versioning = [enabled |-> TRUE, strategy |-> Is(""), keep |-> None, branches |-> b, tags |-> b],
                       !.monitoring = [level |-> l, format |-> l]]
     : b \in Lists, l \in {Is(""), Like("text"), Is("debug")}}
  \cup {[f EXCEPT !.forges = <<[OnGitHub EXCEPT !.type = t, !.auth = a, !.autoDiscover = d, !.scopes = ~d], [OnGitHub EXCEPT !.name = n]>>]
     : f \in {Sparse, Served}, t \in {Is("github"), Like("gitlab"), Is("local"), Is("other"), Is("")},
       a \in {None, "token", "ssh", "other"}, d \in BOOLEAN, n \in {"a", "b", ""}}
  \cup {[f EXCEPT !.version = v, !.repositories = r]
     : f \in {Sparse, Served}, v \in {"2.0", "1.0"},
       r \in {<<>>} \cup {<<[auth |-> a, password |-> p, paths |-> <<>>, branch |-> "x"]>> : a \in {"basic", "other", "token"}, p \in BOOLEAN}}

-----------------------------------------------------------------------------
(* The repositories whose versions are built. *)

Ref(word, sep, type) == [name |-> [word |-> word, sep |-> sep], type |-> type]
Listings ==
  {<<>>, <<Ref("v1", "", "tag")>>,
   <<Ref("main", "", "branch"), Ref("next", "", "branch"), Ref("v1", "", "tag"), Ref("v2", "", "tag")>>,
   <<Ref("main", "", "branch"), Ref("master", "", "branch"), Ref("latest", "", "branch"), Ref("rel", "-", "branch"), Ref("rel", "_", "branch")>>,
   <<Ref("develop", "", "branch"), Ref("v1", "", "branch"), Ref("v1", "", "tag")>>}
MCSetups ==
  {[enabled |-> e, defaultOnly |-> d, strategy |-> s, branches |-> b, tags |-> t, max |-> m,
    repos |-> <<[refs |-> l1, tagged |-> g], [refs |-> l2, tagged |-> FALSE]>>]
     : e \in BOOLEAN, d \in {FALSE}, s \in {"branches_and_tags", "tags_only"}, b \in {{}, {{"main"}, {"rel", "v1"}}}, t \in {{}, {{"v1"}}},
       m \in {0, 1, 3}, l1 \in Listings, l2 \in Listings, g \in BOOLEAN}
  \cup {[enabled |-> TRUE, defaultOnly |-> TRUE, strategy |-> "branches_and_tags", branches |-> {}, tags |-> {}, max |-> 3,
         repos |-> <<[refs |-> l, tagged |-> FALSE]>>] : l \in Listings}

-----------------------------------------------------------------------------
(* The templates that are filled in. *)

Field(type, required) == [type |-> type, required |-> required]
Template(url, kind, seq) ==
  [url |-> url, type |-> "adr", meta |-> TRUE, blocks |-> 1, seq |-> seq, uses |-> {"slug"},
   schema |-> [slug |-> Field("string", TRUE), kind |-> kind], defaults |-> [slug |-> None, kind |-> None]]
Record == Template("adr", Field("enum", TRUE), None)
Numbered == [start |-> 2, limit |-> None]
MCTemplateListings ==
  {<<Record>>, <<Record, Record, [Template("note", Field("list", FALSE), Numbered) EXCEPT !.uses = {"kind"}]>>,
   <<[Record EXCEPT !.blocks = 2], [Record EXCEPT !.url = "other", !.type = "guide", !.defaults.kind = "wrong"]>>}
MCSettings == {[slug |-> k, kind |-> k] : k \in {"blank", "right"}} \cup {[slug |-> "right", kind |-> "commas"]}
Found(n) ==
  [id |-> n, path |-> [num |-> n, slug |-> [word |-> "old", up |-> FALSE]], body |-> n, saw |-> {}, crossed |-> FALSE]
MCFirstDocs == {{}, {Found(1), [Found(3) EXCEPT !.id = 2]}}
MCDocSlugs == {[word |-> "x", up |-> u] : u \in BOOLEAN}

\* Authors differ in nothing but what they do.
Symmetry == Permutations(Authors)

=============================================================================
