--------------------------- MODULE ComponentSearch ---------------------------
(* The component search (ComponentSearchService, searchComponentProviders and *)
(* ComponentSearchCache): searches that overlap, from the view and from       *)
(* commands, the limited cache of remote results, and the view's list, whose  *)
(* rows are opened by their index.  What a search finds is abstracted to      *)
(* whether it finds something, and no two entries have the same timestamp.    *)
EXTENDS Naturals, Sequences, FiniteSets, SequencesExt

CONSTANTS
  Search,      \* searches that may be under way
  NoSearch,
  Query,
  NoQuery,
  MaxEntries   \* MAX_CACHE_ENTRIES

ASSUME SearchAssumption ==
  /\ NoSearch \notin Search /\ NoQuery \notin Query
  /\ MaxEntries \in Nat \ {0}
  /\ IsFiniteSet(Search)

Source == {"octopart", "lcsc"}

VARIABLES
  cached,      \* the entries of the cache, the oldest first
  inline,      \* the searches of the view; the others are commands
  searchStep,  \* where each search stands
  query,
  plan,        \* the sources it has still to ask, the one asked now first
  again,       \* whether it asks LCSC once more if it finds nothing
  anything,    \* whether it has found something
  victims,     \* the entries it has still to delete
  viewOpen,    \* searchView is defined
  rows,        \* the search whose results the view lists
  lastResults, \* lastInlineResults: the search they are from
  overlapped   \* history: two searches of the view were under way at once

remote     == <<query, plan, again, anything, victims>>
view       == <<viewOpen, rows, lastResults>>
searchVars == <<cached, inline, searchStep, remote, view, overlapped>>

SearchInit ==
  /\ cached = <<>> /\ inline = {} /\ overlapped = FALSE
  /\ searchStep = [s \in Search |-> "idle"]
  /\ query = [s \in Search |-> NoQuery]
  /\ plan = [s \in Search |-> <<>>]
  /\ again = [s \in Search |-> FALSE] /\ anything = [s \in Search |-> FALSE]
  /\ victims = [s \in Search |-> <<>>]
  /\ viewOpen = TRUE /\ rows = NoSearch /\ lastResults = NoSearch

GoesTo(s, to) == searchStep' = [searchStep EXCEPT ![s] = to]

(* The search is over and keeps nothing of what it did.                       *)
SearchEnds(s) ==
  /\ GoesTo(s, "idle")
  /\ inline' = inline \ {s}
  /\ query' = [query EXCEPT ![s] = NoQuery]
  /\ plan' = [plan EXCEPT ![s] = <<>>]
  /\ again' = [again EXCEPT ![s] = FALSE]
  /\ anything' = [anything EXCEPT ![s] = FALSE]
  /\ victims' = [victims EXCEPT ![s] = <<>>]

-----------------------------------------------------------------------------
(* Searching.                                                                 *)

(* searchQuery begins: Octopart is asked before LCSC, and LCSC once more      *)
(* where the setting lets it.                                                 *)
Begins(s, sources, lcscEnabled) ==
  /\ plan' = [plan EXCEPT ![s] =
                SelectSeq(<<"octopart", "lcsc">>, LAMBDA x : x \in sources)]
  /\ again' = [again EXCEPT ![s] = "octopart" \in sources /\ lcscEnabled]
  /\ GoesTo(s, IF sources = {} THEN "local" ELSE "looking")

(* A quick pick or a language model's tool calls searchQuery.                 *)
Command(s, q) ==
  /\ searchStep[s] = "idle"
  /\ query' = [query EXCEPT ![s] = q]
  /\ \E sources \in SUBSET Source, enabled \in BOOLEAN :
       Begins(s, sources, enabled)
  /\ UNCHANGED <<cached, inline, anything, victims, view, overlapped>>

(* The source asked is done with, and the search has what it found there.     *)
NextSource(s, something) ==
  LET any  == anything[s] \/ something
      more == again[s] /\ ~any
  IN  /\ anything' = [anything EXCEPT ![s] = any]
      /\ victims' = [victims EXCEPT ![s] = <<>>]
      /\ IF Len(plan[s]) > 1
           THEN /\ plan' = [plan EXCEPT ![s] = Tail(@)]
                /\ GoesTo(s, "looking") /\ UNCHANGED again
           ELSE /\ plan' = [plan EXCEPT ![s] =
                              IF more THEN <<"lcsc">> ELSE <<>>]
                /\ again' = [again EXCEPT ![s] = FALSE]
                /\ GoesTo(s, CASE more -> "looking"
                               [] ~more /\ any -> "searched"
                               [] OTHER -> "local")
      /\ UNCHANGED <<inline, query>>

(* The catch block of runInlineSearch, whose page has no rows; the error of a *)
(* command reaches its caller.                                                *)
Throws(s) ==
  /\ lastResults' = IF s \in inline THEN NoSearch ELSE lastResults
  /\ IF s \in inline /\ viewOpen
       THEN /\ GoesTo(s, "blank")
            /\ plan' = [plan EXCEPT ![s] = <<>>]
            /\ again' = [again EXCEPT ![s] = FALSE]
            /\ anything' = [anything EXCEPT ![s] = FALSE]
            /\ UNCHANGED <<inline, query, victims>>
       ELSE SearchEnds(s)
  /\ UNCHANGED <<viewOpen, rows>>

(* What is left without the one entry of a key, which is a query and a source *)
(* (buildKey).                                                                *)
Place(key)   == CHOOSE i \in 1..Len(cached) : cached[i] = key
Without(key) == IF Contains(cached, key) THEN RemoveAt(cached, Place(key))
                                         ELSE cached
CacheKey(s)       == <<query[s], Head(plan[s])>>

(* The cache answers.                                                         *)
Hit(s) ==
  /\ searchStep[s] = "looking" /\ Contains(cached, CacheKey(s))
  /\ \E something \in BOOLEAN : NextSource(s, something)
  /\ UNCHANGED <<cached, view, overlapped>>

(* It has no entry, or one that is a day old, which it deletes.               *)
Miss(s) ==
  /\ searchStep[s] = "looking"
  /\ cached' = Without(CacheKey(s))
  /\ GoesTo(s, "asking")
  /\ UNCHANGED <<inline, remote, view, overlapped>>

(* That deletion fails, outside the try block of searchRemote.                *)
ExpiryFails(s) ==
  /\ searchStep[s] = "looking" /\ Contains(cached, CacheKey(s))
  /\ cached' = Without(CacheKey(s))
  /\ Throws(s)
  /\ UNCHANGED overlapped

OldestButOne == SubSeq(cached, 1, Len(cached) - MaxEntries)

(* evictOldEntries chooses whom to delete, so that one more has room.         *)
Oldest == SubSeq(cached, 1, (Len(cached) + 1) - MaxEntries)

(* The provider answers: the entries to delete are chosen and the first is    *)
(* deleted.                                                                   *)
Answered(s) ==
  /\ searchStep[s] = "asking"
  /\ victims' = [victims EXCEPT ![s] =
                   IF Oldest = <<>> THEN <<>> ELSE Tail(Oldest)]
  /\ cached' = IF Oldest = <<>> THEN cached ELSE Without(Head(Oldest))
  /\ GoesTo(s, "evicting")
  /\ UNCHANGED <<inline, query, plan, again, anything, view, overlapped>>

(* The next of them, or the answer is stored.                                 *)
EvictNext(s) ==
  /\ searchStep[s] = "evicting" /\ victims[s] # <<>>
  /\ cached' = Without(Head(victims[s]))
  /\ victims' = [victims EXCEPT ![s] = Tail(@)]
  /\ UNCHANGED <<inline, searchStep, query, plan, again, anything, view,
                 overlapped>>

Store(s) ==
  /\ searchStep[s] = "evicting" /\ victims[s] = <<>>
  /\ cached' = Append(Without(CacheKey(s)), CacheKey(s))
  /\ GoesTo(s, "storing")
  /\ UNCHANGED <<inline, remote, view, overlapped>>

Stored(s) ==
  /\ searchStep[s] = "storing"
  /\ \E something \in BOOLEAN : NextSource(s, something)
  /\ UNCHANGED <<cached, view, overlapped>>

(* The provider fails, or an entry cannot be persisted: the source is taken   *)
(* to have found nothing.                                                     *)
SourceFails(s) ==
  /\ searchStep[s] \in {"asking", "evicting", "storing"}
  /\ NextSource(s, FALSE)
  /\ UNCHANGED <<cached, view, overlapped>>

(* The libraries and the packages have been searched.                         *)
SearchedLocal(s) ==
  /\ searchStep[s] = "local"
  /\ GoesTo(s, "searched")
  /\ UNCHANGED <<cached, inline, remote, view, overlapped>>

(* A command goes on with its results, which the model leaves out.            *)
CommandEnds(s) ==
  /\ searchStep[s] = "searched" /\ s \notin inline
  /\ SearchEnds(s)
  /\ UNCHANGED <<cached, view, overlapped>>

-----------------------------------------------------------------------------
(* The view.                                                                  *)

(* A message of the view starts a search under a name of its own.             *)
FromView(s) ==
  /\ searchStep[s] = "idle" /\ viewOpen /\ s \notin {rows, lastResults}
  /\ inline' = inline \cup {s}
  /\ overlapped' = (overlapped \/ inline # {})

(* runInlineSearch up to the await of its loading page.                       *)
Inline(s, q) ==
  /\ FromView(s)
  /\ query' = [query EXCEPT ![s] = q]
  /\ GoesTo(s, "loading")
  /\ UNCHANGED <<cached, plan, again, anything, victims, view>>

(* The same for an empty query, which is not searched for.                    *)
ClearResults(s) ==
  /\ FromView(s)
  /\ lastResults' = NoSearch
  /\ GoesTo(s, "blank")
  /\ UNCHANGED <<cached, remote, viewOpen, rows>>

LoadedOverResults(s) ==
  /\ searchStep[s] = "loading" /\ viewOpen
  /\ GoesTo(s, "choosing")
  /\ UNCHANGED <<cached, inline, remote, view, overlapped>>

(* The loading page has no rows.                                              *)
Loaded(s) ==
  /\ searchStep[s] = "loading" /\ viewOpen
  /\ rows' = NoSearch
  /\ GoesTo(s, "choosing")
  /\ UNCHANGED <<cached, inline, remote, viewOpen, lastResults, overlapped>>

(* A page without rows, for an error or an empty query.                       *)
BlankPage(s) ==
  /\ searchStep[s] = "blank" /\ viewOpen
  /\ rows' = NoSearch
  /\ SearchEnds(s)
  /\ UNCHANGED <<cached, viewOpen, lastResults, overlapped>>

(* The same for a key that was set, or a view that was opened.                *)
RenderAgain ==
  /\ viewOpen /\ rows' = NoSearch
  /\ UNCHANGED <<cached, inline, searchStep, remote, viewOpen, lastResults,
                 overlapped>>

(* Neither page is in a try block: the view was closed during its awaits, or  *)
(* one of them fails.                                                         *)
PageFails(s) ==
  /\ searchStep[s] \in {"loading", "blank"}
  /\ SearchEnds(s)
  /\ UNCHANGED <<cached, view, overlapped>>

(* getProviderState: the sources are those with a key or enabled.             *)
ChooseSources(s) ==
  /\ searchStep[s] = "choosing"
  /\ \E key, enabled \in BOOLEAN :
       LET sources == {x \in Source : (x = "octopart" /\ key)
                                        \/ (x = "lcsc" /\ enabled)}
       IN  Begins(s, sources, enabled)
  /\ UNCHANGED <<cached, inline, query, anything, victims, view, overlapped>>

(* The results become those a row opens.                                      *)
InlineSearched(s) ==
  /\ searchStep[s] = "searched" /\ s \in inline
  /\ lastResults' = s
  /\ GoesTo(s, "remembering")
  /\ UNCHANGED <<cached, inline, remote, viewOpen, rows, overlapped>>

(* The query is one of the recent searches; a closed view is not rendered.    *)
Remembered(s) ==
  /\ searchStep[s] = "remembering"
  /\ IF viewOpen
       THEN GoesTo(s, "rendering") /\ UNCHANGED <<inline, remote>>
       ELSE SearchEnds(s)
  /\ UNCHANGED <<cached, view, overlapped>>

Rendered(s) ==
  /\ searchStep[s] = "rendering" /\ viewOpen
  /\ rows' = s
  /\ SearchEnds(s)
  /\ UNCHANGED <<cached, viewOpen, lastResults, overlapped>>

(* A read or a write fails, or the view was closed during the awaits.         *)
InlineFails(s) ==
  /\ searchStep[s] \in {"choosing", "remembering", "rendering"}
  /\ Throws(s)
  /\ UNCHANGED <<cached, overlapped>>

CloseView ==
  /\ viewOpen' = FALSE /\ rows' = NoSearch
  /\ UNCHANGED <<cached, inline, searchStep, remote, lastResults, overlapped>>

OpenView ==
  /\ viewOpen' = TRUE
  /\ UNCHANGED <<cached, inline, searchStep, remote, rows, lastResults,
                 overlapped>>

-----------------------------------------------------------------------------
SearchNext ==
  \/ \E s \in Search :
       \/ \E q \in Query : Command(s, q) \/ Inline(s, q)
       \/ Hit(s) \/ Miss(s) \/ ExpiryFails(s)
       \/ Answered(s) \/ EvictNext(s) \/ Store(s) \/ Stored(s) \/ SourceFails(s)
       \/ SearchedLocal(s) \/ CommandEnds(s)
       \/ ClearResults(s) \/ Loaded(s) \/ BlankPage(s) \/ PageFails(s)
       \/ ChooseSources(s) \/ InlineSearched(s) \/ Remembered(s) \/ Rendered(s)
       \/ InlineFails(s)
  \/ RenderAgain \/ CloseView \/ OpenView

SearchSpec == SearchInit /\ [][SearchNext]_searchVars

-----------------------------------------------------------------------------
(* Whatever the interleaving of reads, deletions and writes of overlapping    *)
(* searches (ComponentSearchCache.set makes room before its awaits and stores *)
(* after them), the cache is over its limit by less than the number of        *)
(* searches, and has one entry for a key.                                     *)
CacheBounded ==
  Len(cached) < MaxEntries + Cardinality(Search) /\ IsInjective(cached)

(* As long as no two searches of the view overlapped, a row that is opened is *)
(* one of the search that the view lists, or nothing is opened, whatever      *)
(* failed and however the view was closed, opened and rendered in between     *)
(* (open-result indexes lastInlineResults, not what was rendered).            *)
OpensWhatIsShown ==
  ~overlapped /\ rows # NoSearch => lastResults \in {rows, NoSearch}
=============================================================================
