----------------------------- MODULE StorageState -----------------------------
(***************************************************************************)
(* src/runtime/storage.rs: a session imports an authentication state, or   *)
(* deletes the cookies that match a filter.  Each is a series of commands  *)
(* of which any may fail, while pages navigate, the session is closed and  *)
(* the caller is aborted; the error has to tell how far it came.           *)
(*                                                                         *)
(* A page is prepared for its storage: its origin, then its storage key,   *)
(* each checked against the frame store, which learns of a navigation      *)
(* later than Chrome.                                                      *)
(*                                                                         *)
(* Abstracted: the fields of cookies and their validation, the values of   *)
(* entries.  export_auth_state and the single reads and writes of a        *)
(* StorageHandle are a preparation followed by one of these commands.      *)
(***************************************************************************)
EXTENDS FiniteSets, Sequences, SequencesExt, Integers

CONSTANTS
  Origins, Pages,
  Own,        \* the entry every origin's localStorage has before
  Entry,      \* the entry the state has for each of its origins
  Stored,     \* the cookies there are; all of them match the filter
  Filed,      \* the cookies of the state
  Nowhere

VARIABLES
  cookies, storage,   \* what Chrome has
  at,         \* the origin of each page
  moved,      \* has a page navigated: "no", "chrome", or "store" when noticed
  closing,    \* has the session's close begun?
  job,        \* the call
  temporary   \* the page made for delete_cookie: none, open, dropped, closed

authVars == <<cookies, storage, at, moved, closing, job, temporary>>
authChrome == <<cookies, storage, at, moved>>

Running == job.pc \notin {"idle", "done"}

\* The call ends with an error that tells how far it came, or without.
Ends(told) ==
  /\ job' = [job EXCEPT !.pc = "done", !.told = told]
  /\ temporary' = IF temporary = "open" THEN "dropped" ELSE temporary

\* partial_mutation_error
Partial(told) == IF job.applied = 0 THEN told ELSE "Unknown"

-----------------------------------------------------------------------------
(* import_auth_state *)

Import ==
  /\ job.pc = "idle"
  /\ \E replace \in BOOLEAN, listed \in SUBSET Origins, given \in SUBSET Pages :
       job' = [job EXCEPT !.op = IF replace THEN "replace" ELSE "merge", !.pc = "prepare",
                          !.listed = listed, !.given = given]
  /\ UNCHANGED <<authChrome, closing, temporary>>

\* prepare: each explicit page, one after the other
ReadOrigin(p) ==
  /\ job.pc = "prepare" /\ p \in job.given /\ job.origin[p] = Nowhere
  /\ \A q \in job.given : job.origin[q] # Nowhere => job.key[q] # Nowhere
  /\ \/ ~closing /\ job' = [job EXCEPT !.origin[p] = at[p]] /\ UNCHANGED temporary
     \/ Ends("NotStarted")
  /\ UNCHANGED <<authChrome, closing>>

ReadKey(p) ==
  /\ job.pc = "prepare" /\ job.origin[p] # Nowhere /\ job.key[p] = Nowhere
  /\ \/ /\ moved[p] # "store"
        /\ job' = [job EXCEPT !.key[p] = at[p]] /\ UNCHANGED temporary
     \/ Ends("NotStarted")
  /\ UNCHANGED <<authChrome, closing>>

Valid(p) == moved[p] # "store"
PageOf(o) == CHOOSE p \in job.given : job.origin[p] = o

Do(what, o) == [what |-> what, origin |-> o]
Each(what, order) == [i \in DOMAIN order |-> Do(what, order[i])]
Steps(order) ==
  (IF job.op = "replace" THEN <<Do("clear cookies", Nowhere)>> \o Each("clear", order) ELSE <<>>)
    \o <<Do("set cookies", Nowhere)>> \o Each("set", order)

\* No two pages of one origin, a page for every origin, all still valid.
Admit ==
  /\ job.pc = "prepare" /\ \A p \in job.given : job.key[p] # Nowhere
  /\ IF /\ ~closing
        /\ \A p, q \in job.given : p # q => job.origin[p] # job.origin[q]
        /\ job.listed \subseteq {job.origin[p] : p \in job.given}
        /\ \A p \in job.given : Valid(p)
     THEN /\ \E order \in SetToSeqs(job.listed) :
               job' = [job EXCEPT !.pc = "mutate", !.todo = Steps(order)]
          /\ UNCHANGED temporary
     ELSE Ends("NotStarted")
  /\ UNCHANGED <<authChrome, closing>>

\* Mutant: it is the one of the document the page shows now.
AreaShown(o) == at[PageOf(o)]

\* What a command does in Chrome.  The storage is named by its key.
Area(o) == job.key[PageOf(o)]

Does(s) ==
  LET area == Area(s.origin) IN
  CASE s.what = "clear cookies" -> cookies' = {} /\ UNCHANGED storage
    [] s.what = "set cookies" -> cookies' = cookies \cup Filed /\ UNCHANGED storage
    [] s.what = "clear" -> storage' = [storage EXCEPT ![area] = {}] /\ UNCHANGED cookies
    [] s.what = "set" -> storage' = [storage EXCEPT ![area] = @ \cup {Entry}] /\ UNCHANGED cookies

OfCookies(s) == s.what \in {"clear cookies", "set cookies"}

\* A command is refused before it is sent: the session admits no operation
\* any more, or the page has another document.
Refused(s) == IF OfCookies(s) THEN closing ELSE ~Valid(PageOf(s.origin))

\* Mutant: what is cleared first is not counted.
CountsSetsOnly(s) == IF s.what \in {"set", "set cookies"} THEN 1 ELSE 0

\* The steps that have been applied, as the error counts them.
Counted(s) == 1

Refuse ==
  /\ job.pc = "mutate" /\ job.todo # <<>>
  /\ Refused(Head(job.todo))
  /\ Ends(Partial("NotStarted"))
  /\ UNCHANGED <<authChrome, closing>>

Mutate ==
  /\ job.pc = "mutate" /\ job.todo # <<>>
  /\ LET s == Head(job.todo) IN
       /\ ~Refused(s)
       /\ \/ Does(s) /\ job' = [job EXCEPT !.todo = Tail(@), !.applied = @ + Counted(s), !.touched = TRUE]
          \* the answer is an error or never comes
          \/ /\ Does(s) \/ UNCHANGED <<cookies, storage>>
             /\ job' = [job EXCEPT !.pc = "done", !.told = Partial("Unknown"), !.touched = TRUE]
  /\ UNCHANGED <<at, moved, closing, temporary>>

Imported ==
  /\ job.pc = "mutate" /\ job.todo = <<>>
  /\ Ends("ok")
  /\ UNCHANGED <<authChrome, closing>>

-----------------------------------------------------------------------------
(* delete_cookie *)

Delete ==
  /\ job.pc = "idle"
  /\ \/ ~closing /\ job' = [job EXCEPT !.op = "delete", !.pc = "list"] /\ UNCHANGED temporary
     \/ Ends("NotStarted")
  /\ UNCHANGED <<authChrome, closing>>

\* The cookies that match now; a page of the session, or a temporary one.
List ==
  /\ job.pc = "list"
  /\ \/ /\ ~closing
        /\ job' = [job EXCEPT !.pc = "page", !.matching = cookies] /\ UNCHANGED temporary
     \/ Ends("NotStarted")
     \/ cookies = {} /\ Ends("ok")
  /\ UNCHANGED <<authChrome, closing>>

ChoosePage ==
  /\ job.pc = "page"
  /\ \/ /\ job' = [job EXCEPT !.pc = "delete"]
        /\ \/ UNCHANGED temporary
           \/ ~closing /\ temporary' = "open"
     \/ Ends("NotStarted")
  /\ UNCHANGED <<authChrome, closing>>

DeleteOne(k) ==
  /\ job.pc = "delete" /\ k \in job.matching
  /\ \/ /\ cookies' = cookies \ {k}
        /\ job' = [job EXCEPT !.matching = @ \ {k}, !.applied = @ + 1, !.touched = TRUE]
     \/ /\ cookies' \in {cookies, cookies \ {k}}
        /\ job' = [job EXCEPT !.pc = "close", !.told = Partial("Unknown"), !.touched = TRUE]
  /\ UNCHANGED <<storage, at, moved, closing, temporary>>

Deleted ==
  /\ job.pc = "delete" /\ job.matching = {}
  /\ job' = [job EXCEPT !.pc = "close", !.told = "ok"]
  /\ UNCHANGED <<authChrome, closing, temporary>>

\* The temporary page's close; its failure is added to the error, or is one.
CloseTemporary ==
  /\ job.pc = "close"
  /\ \/ temporary' = (IF temporary = "open" THEN "closed" ELSE temporary)
        /\ job' = [job EXCEPT !.pc = "done"]
     \/ /\ temporary = "open" /\ temporary' = "failed"
        /\ job' = [job EXCEPT !.pc = "done", !.told = IF @ = "ok" THEN "Completed" ELSE @]
  /\ UNCHANGED <<authChrome, closing>>

\* The caller is aborted; the guard of a temporary page is dropped.
Abort ==
  /\ Running /\ Ends("aborted")
  /\ UNCHANGED <<authChrome, closing>>

\* TemporaryPageGuard::drop has started a task.
DropCloses ==
  /\ temporary = "dropped" /\ temporary' \in {"closed", "failed"}
  /\ UNCHANGED <<authChrome, closing, job>>

-----------------------------------------------------------------------------
Navigate(p) ==
  /\ moved[p] = "no" /\ job.origin[p] # Nowhere
  /\ moved' = [moved EXCEPT ![p] = "chrome"]
  /\ \E o \in Origins : at' = [at EXCEPT ![p] = o]
  /\ UNCHANGED <<cookies, storage, closing, job, temporary>>

Notice(p) ==
  /\ moved[p] = "chrome"
  /\ moved' = [moved EXCEPT ![p] = "store"]
  /\ UNCHANGED <<cookies, storage, at, closing, job, temporary>>

BeginClose ==
  /\ ~closing /\ closing' = TRUE
  /\ UNCHANGED <<authChrome, job, temporary>>

AuthInit ==
  /\ cookies = Stored /\ storage = [o \in Origins |-> {Own}]
  /\ at \in [Pages -> Origins] /\ moved = [p \in Pages |-> "no"]
  /\ closing = FALSE /\ temporary = "none"
  /\ job = [op |-> "none", pc |-> "idle", listed |-> {}, given |-> {},
            origin |-> [p \in Pages |-> Nowhere], key |-> [p \in Pages |-> Nowhere],
            todo |-> <<>>, applied |-> 0, matching |-> {}, told |-> "none", touched |-> FALSE]

AuthNext ==
  \/ Import \/ Admit \/ Refuse \/ Mutate \/ Imported
  \/ Delete \/ List \/ ChoosePage \/ Deleted \/ CloseTemporary \/ Abort \/ DropCloses
  \/ BeginClose
  \/ \E k \in Stored : DeleteOne(k)
  \/ \E p \in Pages : ReadOrigin(p) \/ ReadKey(p) \/ Navigate(p) \/ Notice(p)

AuthSpec == AuthInit /\ [][AuthNext]_authVars

-----------------------------------------------------------------------------
(* Properties *)

(* A caller that is told nothing was started may repeat the call: no        *)
(* mutation has been sent; one that is told its cookies are deleted, but    *)
(* for a cleanup, has none of them left.                                    *)
TellsHowFar ==
  /\ job.told = "NotStarted" => ~job.touched
  /\ (job.op = "delete" /\ job.told \in {"ok", "Completed"}) => cookies = {}
  /\ (job.pc = "done" /\ temporary = "failed" /\ job.op = "delete") => job.told # "ok"

Kept(o) == IF job.op = "merge" THEN {Own} ELSE {}

(* An import that succeeds has had its whole effect and no other: "all      *)
(* cookies and the explicitly listed origins' localStorage"                 *)
(* (AuthImportMode), wherever its pages have gone after they were prepared. *)
ImportIsExact ==
  (job.op \in {"merge", "replace"} /\ job.told = "ok"
     /\ \A p \in job.given : job.key[p] = job.origin[p]) =>
    /\ cookies = Filed \cup (IF job.op = "merge" THEN Stored ELSE {})
    /\ \A o \in Origins :
         storage[o] = IF o \in job.listed THEN Kept(o) \cup {Entry} ELSE {Own}

(* An authentication state is imported exactly, or the error says how far   *)
(* it came.                                                                 *)
ImportIsTold == ImportIsExact /\ TellsHowFar

-----------------------------------------------------------------------------
(***************************************************************************)
(* What the runtime accepts, lists, selects and sends of cookies            *)
(* (runtime/storage.rs): the deletion of the cookies a filter selects, and  *)
(* the way of a cookie through an exported authentication state back into a *)
(* browser.  How the commands interleave with pages is the first part.     *)
(*                                                                          *)
(* Abstracted: a host is its labels, a path its segments; the code compares *)
(* their text, which is built here from short labels.                       *)
(***************************************************************************)
CONSTANTS
  Hosts,          \* hosts, as sequences of labels, a label being a sequence of characters
  Paths,          \* paths, as [segs, slash]: segments, and whether a slash follows them
  Sites,          \* top-level sites of partition keys
  MaxJar,         \* bound: cookies in the jar
  Bad,            \* a field that is refused: a URL or site that is not HTTP(S), a relative path
  Opaque,         \* the opaque partition key
  None

VARIABLES pc, filter, jar, sent, state, outcome, after

crVars == <<pc, filter, jar, sent, state, outcome, after>>

-----------------------------------------------------------------------------
(* Text *)

Join(parts, by) == FoldLeft(LAMBDA text, part : text \o <<by>> \o part, Head(parts), Tail(parts))
HostText(labels) == Join(labels, ".")
DomainText(d) == (IF d.only THEN <<>> ELSE <<".">>) \o HostText(d.labels)
PathText(p) ==
  FoldLeft(LAMBDA text, part : text \o <<"/">> \o part, <<>>, p.segs) \o (IF p.slash THEN <<"/">> ELSE <<>>)

-----------------------------------------------------------------------------
(* Cookies of a browser, and filters *)

Domains == [labels : Hosts, only : BOOLEAN]

\* A cookie as Chrome tells it: a session cookie has no expiry, told as -1.
Cookie(domain, path, site, expires) ==
  [domain |-> domain, path |-> path, site |-> site, expires |-> expires, session |-> expires = -1]

\* validate_origin: of a partition's site.
ValidSite(site) == site # Bad

\* Mutant: a filter by name alone is accepted.
ValidWithoutPlace(f) == f.domain # Bad /\ f.path # Bad /\ f.url # Bad /\ ValidSite(f.site)

\* validate_deletion
ValidDeletion(f) ==
  /\ f.url # None \/ f.domain # None
  /\ f.url # Bad /\ f.domain # Bad /\ f.path # Bad /\ ValidSite(f.site)

\* Mutant: any text with the cookie's path in front matches.
PathMatchesPrefix(cookie, request) == IsPrefix(cookie, request)

\* cookie_path_matches
PathMatches(cookie, request) ==
  \/ cookie = request
  \/ /\ IsPrefix(cookie, request)
     /\ Last(cookie) = "/" \/ request[Len(cookie) + 1] = "/"

\* Mutant: the dot in front of a domain is not compared.
DomainMatchesText(domain, host) ==
  IF Head(domain) = "." THEN IsSuffix(Tail(domain), host) ELSE host = domain

DomainMatches(domain, host) ==
  IF Head(domain) = "." THEN host = Tail(domain) \/ IsSuffix(domain, host) ELSE host = domain

\* deletion_matches
Matches(c, f) ==
  /\ f.domain # None => DomainText(c.domain) = DomainText(f.domain)
  /\ f.path # None => PathText(c.path) = PathText(f.path)
  /\ f.site # None => c.site = f.site
  /\ f.url # None =>
       /\ DomainMatches(DomainText(c.domain), HostText(f.url.host))
       /\ PathMatches(PathText(c.path), PathText(f.url.path))

RefuseCookies == outcome' = "InvalidInput" /\ pc' = "ended"

\* delete_cookie: an invalid filter is refused before anything is read.
BeginDelete ==
  /\ pc = "delete"
  /\ IF ValidDeletion(filter) THEN pc' = "list" /\ UNCHANGED outcome ELSE RefuseCookies
  /\ UNCHANGED <<filter, jar, sent, state, after>>

\* Mutant: a deletion names the cookie without its partition.
NamesOf(c) == [domain |-> c.domain, path |-> c.path, site |-> None]

\* What DeleteCookies is told of a cookie besides its name.
Named(c) == [domain |-> c.domain, path |-> c.path, site |-> c.site]

\* The cookies that match are listed and deleted one command each.
Select ==
  /\ pc = "list"
  /\ sent' = {Named(c) : c \in {d \in jar : Matches(d, filter)}}
  /\ pc' = "deleting"
  /\ UNCHANGED <<filter, jar, state, outcome, after>>

DeleteCookie ==
  /\ pc = "deleting"
  /\ after' = {c \in jar : [domain |-> c.domain, path |-> c.path, site |-> c.site] \notin sent}
  /\ outcome' = "deleted" /\ pc' = "ended"
  /\ UNCHANGED <<filter, jar, sent, state>>

-----------------------------------------------------------------------------
(* Export and import *)

\* cookie_from_cdp: the expiry of a session cookie stays -1.
FromCdp(c) == c

\* cookies() and export_auth_state, of a session without pages.
Export ==
  /\ pc = "export"
  /\ state' = {FromCdp(c) : c \in jar}
  /\ pc' = "import"
  /\ UNCHANGED <<filter, jar, sent, outcome, after>>

\* validate_cookies, of a cookie with name, domain and path; validate_state
\* refuses the whole state for one.
ValidCookie(c) == ValidSite(c.site) /\ c.site # Opaque

\* Mutant: the expiry is sent as it was told.
ParamOf(c) == [cookie |-> c, expires |-> c.expires]

\* cookie_param: a session cookie is sent without an expiry.
Param(c) == [cookie |-> c, expires |-> IF c.session THEN None ELSE c.expires]

\* Mutant: what cannot be imported is left out.
ImportValid ==
  /\ pc = "import"
  /\ sent' = {Param(c) : c \in {d \in state : ValidCookie(d)}}
  /\ pc' = "setting"
  /\ UNCHANGED <<filter, jar, state, outcome, after>>

ImportCookies ==
  /\ pc = "import"
  /\ IF \A c \in state : ValidCookie(c)
     THEN sent' = {Param(c) : c \in state} /\ pc' = "setting" /\ UNCHANGED outcome
     ELSE RefuseCookies /\ UNCHANGED sent
  /\ UNCHANGED <<filter, jar, state, after>>

\* SetCookies into an empty context: Chrome keeps no cookie that has expired.
Set ==
  /\ pc = "setting"
  /\ after' = {Cookie(p.cookie.domain, p.cookie.path, p.cookie.site, IF p.expires = None THEN -1 ELSE p.expires) :
                 p \in {q \in sent : q.expires = None \/ q.expires \in Nat}}
  /\ outcome' = "imported" /\ pc' = "ended"
  /\ UNCHANGED <<filter, jar, sent, state>>

-----------------------------------------------------------------------------
(* Specification *)

Root == [segs |-> <<>>, slash |-> TRUE]
Jars ==
  LET keep == {Cookie(d, p, s, 1) : d \in Domains, p \in Paths, s \in Sites \cup {None}}
      kept == {Cookie([labels |-> h, only |-> TRUE], Root, s, e) :
                 h \in Hosts, s \in Sites \cup {None, Opaque, Bad}, e \in {-1, 1}}
  IN {{c} : c \in keep} \cup {S \in SUBSET kept : Cardinality(S) <= MaxJar}

\* Filters by URL, and filters by domain and path.
Filters ==
  {f \in [url : [host : Hosts, path : Paths] \cup {None, Bad},
          domain : {None, Bad, [labels |-> CHOOSE h \in Hosts : TRUE, only |-> FALSE]},
          path : {None, Bad, Root}, site : Sites \cup {None, Bad}] :
     f.url \in {None, Bad} \/ (f.domain = None /\ f.path \in {None, Bad})}

CookieInit ==
  /\ \/ /\ pc = "delete" /\ jar \in {J \in Jars : Cardinality(J) = 1}
        /\ filter \in Filters
     \/ pc = "export" /\ jar \in Jars /\ filter = None
  /\ sent = {} /\ state = {} /\ outcome = None /\ after = jar

CookieNext == BeginDelete \/ Select \/ DeleteCookie \/ Export \/ ImportCookies \/ Set

CookieSpec == CookieInit /\ [][CookieNext]_crVars

-----------------------------------------------------------------------------
(* Properties *)

\* RFC 6265, 5.1.3 and 5.1.4, on labels and segments.
DomainCovers(d, host) == host = d.labels \/ (~d.only /\ IsSuffix(d.labels, host))
PathCovers(p, request) ==
  /\ IsPrefix(p.segs, request.segs)
  /\ p.slash => request.slash \/ Len(request.segs) > Len(p.segs)

Selected(c) ==
  /\ filter.domain \in {None, c.domain} /\ filter.path \in {None, c.path} /\ filter.site \in {None, c.site}
  /\ filter.url # None => DomainCovers(c.domain, filter.url.host) /\ PathCovers(c.path, filter.url.path)

\* A deletion removes exactly the cookies its filter selects, a URL those a
\* browser would send to it; a refused one nothing.
DeletesWhatIsSelected ==
  /\ outcome = "deleted" => after = {c \in jar : ~Selected(c)}
  /\ outcome = "InvalidInput" => after = jar /\ sent = {}
  /\ outcome = "deleted" => filter.url # None \/ filter.domain # None

\* What is exported is imported as it was, session cookies as such; a state
\* with a cookie that cannot be is refused as a whole.
RoundTrip == outcome = "imported" => after = jar

CookiesAreRight == DeletesWhatIsSelected /\ RoundTrip
=============================================================================
