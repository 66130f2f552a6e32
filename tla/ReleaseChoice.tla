---------------------------- MODULE ReleaseChoice ----------------------------
(***************************************************************************)
(* Which release of a search the monitor takes: FilterByMediaProfile and   *)
(* RankResults with the criteria of a profile, FilterByRelease or          *)
(* PreferReleases with the keywords of the item, and then the first that   *)
(* suits.  What fileparse reads off a title is given with the release.     *)
(***************************************************************************)
EXTENDS Naturals, Sequences, FiniteSets

CONSTANTS
  RcReleases,     \* what a search may bring
  Parsed,         \* of each release: [res, src, langs, words]; "" stands for not recognised
  RcProfiles,     \* profiles: [resolutions, sources, languages, mode, exclude]
  RcKeywords,     \* the keywords an item may prefer
  RcMaxResults    \* results of a search

ASSUME ReleaseChoiceAssumption ==
  /\ \A p \in RcProfiles : /\ p.mode \in {"and", "or"}
                           /\ {p.resolutions, p.sources, p.languages} \subseteq Seq(STRING)
  /\ RcMaxResults \in Nat

VARIABLES
  rcSearch,       \* [results, profile, force, preferred, suits]: what a choice is made from
  rcPick          \* [done, taken]: whether it is made, and the release taken, if any

rcVars == <<rcSearch, rcPick>>

RcIn(seq) == {seq[i] : i \in DOMAIN seq}
FirstOf(S) == CHOOSE i \in S : \A j \in S : i <= j

\* The entries of a list at the places in I, in the order that before gives these.
Arranged(list, I, before) ==
  [n \in 1..Cardinality(I) |->
     list[CHOOSE j \in I : Cardinality({i \in I : <<i, j>> \in before}) = n - 1]]

\* The entries that are in S, in the order they have.
Keep(list, S) ==
  LET I == {i \in DOMAIN list : list[i] \in S}
  IN Arranged(list, I, {ij \in I \X I : ij[1] < ij[2]})

-----------------------------------------------------------------------------
(* fileparse                                                               *)

Meets(value, list) == list = <<>> \/ (value # "" /\ value \in RcIn(list))
MatchesProfile(r, p) == Meets(Parsed[r].res, p.resolutions) /\ Meets(Parsed[r].src, p.sources)

\* An untagged release counts as English, if English is wanted.
DetectedLanguages(r, p) ==
  IF Parsed[r].langs = {} /\ "eng" \in RcIn(p.languages) THEN {"eng"} ELSE Parsed[r].langs

MatchesLanguages(r, p) ==
  \/ p.languages = <<>>
  \/ "multi" \in Parsed[r].langs
  \/ p.mode = "and" /\ RcIn(p.languages) \subseteq DetectedLanguages(r, p)
  \/ p.mode = "or" /\ RcIn(p.languages) \cap DetectedLanguages(r, p) # {}

\* The place of the first entry of a list that is one of values, or one past the end.
Score(list, values) ==
  LET places == {i \in DOMAIN list : list[i] \in values}
  IN IF list = <<>> THEN 0 ELSE IF places = {} THEN Len(list) + 1 ELSE FirstOf(places)

PriorityScore(value, list) == Score(list, {value})

\* Mutant: an untagged release is ranked as if it had no language.
LanguageScoreAsTagged(r, p) ==
  IF "multi" \in Parsed[r].langs THEN 1 ELSE Score(p.languages, Parsed[r].langs)

LanguageScore(r, p) ==
  IF p.languages # <<>> /\ "multi" \in Parsed[r].langs THEN 1
  ELSE Score(p.languages, DetectedLanguages(r, p))

ContainsExcludedTag(r, tags) == Parsed[r].words \cap tags # {}

-----------------------------------------------------------------------------
(* indexer                                                                 *)

FilterByProfile(results, p) ==
  Keep(results, {r \in RcIn(results) : /\ ~ContainsExcludedTag(r, p.exclude)
                                       /\ MatchesProfile(r, p) /\ MatchesLanguages(r, p)})

\* MatchesCriteria, which the profile's test search uses for a single release.
MatchesCriteria(r, p) ==
  /\ ~ContainsExcludedTag(r, p.exclude)
  /\ MatchesProfile(r, p)
  /\ MatchesLanguages(r, p)

\* Resolution before language before source; a dimension without a choice does not count.
RankScore(r, p) ==
  <<IF Len(p.resolutions) > 1 THEN PriorityScore(Parsed[r].res, p.resolutions) ELSE 0,
    IF p.languages # <<>> /\ p.mode # "and" THEN LanguageScore(r, p) ELSE 0,
    IF Len(p.sources) > 1 THEN PriorityScore(Parsed[r].src, p.sources) ELSE 0>>

Lower(a, b) ==
  \E n \in DOMAIN a : a[n] < b[n] /\ \A m \in 1..(n - 1) : a[m] = b[m]

\* The sort is stable: equals stay in the order of the search.
RankResults(results, p) ==
  LET before == {ij \in (DOMAIN results) \X (DOMAIN results) :
                   LET a == RankScore(results[ij[1]], p)
                       b == RankScore(results[ij[2]], p)
                   IN Lower(a, b) \/ (a = b /\ ij[1] < ij[2])}
  IN Arranged(results, DOMAIN results, before)

Named(results, keywords) == {r \in RcIn(results) : ContainsExcludedTag(r, keywords)}

\* Mutant: those preferred hide the others.
PreferOnly(results, keywords) ==
  IF keywords = {} THEN results ELSE Keep(results, Named(results, keywords))

PreferReleases(results, keywords) ==
  Keep(results, Named(results, keywords))
    \o Keep(results, RcIn(results) \ Named(results, keywords))

FilterByRelease(results, keywords) ==
  IF keywords = {} THEN results ELSE Keep(results, Named(results, keywords))

-----------------------------------------------------------------------------
(* monitor                                                                 *)

\* s.profile is a set of at most one profile: the item's, or else the library's.
FilterResults(s) ==
  LET filtered == IF s.profile = {} THEN s.results
                  ELSE LET p == CHOOSE q \in s.profile : TRUE
                       IN RankResults(FilterByProfile(s.results, p), p)
  IN IF s.force THEN FilterByRelease(filtered, s.preferred)
     ELSE PreferReleases(filtered, s.preferred)

RcIdle == [results |-> <<>>, profile |-> {}, force |-> FALSE, preferred |-> {}, suits |-> {}]
RcInit == rcSearch = RcIdle /\ rcPick = [done |-> FALSE, taken |-> {}]

Results == {s \in UNION {[1..n -> RcReleases] : n \in 1..RcMaxResults} :
              \A i, j \in DOMAIN s : s[i] = s[j] => i = j}

\* suits: the releases whose title names what is wanted; all of them here, or all but the first.
RcSearch ==
  /\ rcSearch = RcIdle
  /\ \E results \in Results, profile \in {{}} \cup {{p} : p \in RcProfiles},
        force \in BOOLEAN, preferred \in {{}, RcKeywords} : \E but \in {{}, {results[1]}} :
       rcSearch' = [results |-> results, profile |-> profile, force |-> force,
                    preferred |-> preferred, suits |-> RcIn(results) \ but]
  /\ UNCHANGED rcPick

\* The movie's and the episode's pickers walk down the list to the first that suits.
RcChoose ==
  /\ rcSearch # RcIdle /\ ~rcPick.done
  /\ LET list == FilterResults(rcSearch)
         places == {i \in DOMAIN list : list[i] \in rcSearch.suits}
     IN rcPick' = [done |-> TRUE, taken |-> IF places = {} THEN {} ELSE {list[FirstOf(places)]}]
  /\ UNCHANGED rcSearch

RcNext == RcSearch \/ RcChoose

-----------------------------------------------------------------------------
(* Properties                                                              *)

\* Admitted one by one, by the profile and, if it is forced, by a keyword.
Admitted(r) ==
  /\ \A p \in rcSearch.profile : MatchesCriteria(r, p)
  /\ rcSearch.force /\ rcSearch.preferred # {} =>
       ContainsExcludedTag(r, rcSearch.preferred)

\* Whether a release speaks the n-th language of a profile, or counts as if it did.
Speaks(r, p, n) ==
  \/ {"multi", p.languages[n]} \cap Parsed[r].langs # {}
  \/ Parsed[r].langs = {} /\ p.languages[n] = "eng"

\* The place of x in a list, or one past the end; and the first language that r speaks.
PlaceOf(x, list) == FirstOf({n \in DOMAIN list : list[n] = x} \cup {Len(list) + 1})
FirstSpoken(r, p) ==
  FirstOf({n \in DOMAIN p.languages : Speaks(r, p, n)} \cup {Len(p.languages) + 1})

\* r is to be preferred to q: by a keyword, then the order of resolutions, of languages
\* where one is enough, and of sources, then its place in the search.
PreferredTo(r, q) ==
  LET keyed(x) == IF ContainsExcludedTag(x, rcSearch.preferred) THEN 0 ELSE 1
      found(x) == PlaceOf(x, rcSearch.results)
      ranks(x, p) == <<keyed(x), PlaceOf(Parsed[x].res, p.resolutions),
                       IF p.mode = "or" THEN FirstSpoken(x, p) ELSE 0,
                       PlaceOf(Parsed[x].src, p.sources), found(x)>>
  IN IF rcSearch.profile = {} THEN Lower(<<keyed(r), found(r)>>, <<keyed(q), found(q)>>)
     ELSE \A p \in rcSearch.profile : Lower(ranks(r, p), ranks(q, p))

\* The release taken is admitted and suits, and no other that does is to be preferred; when
\* none is taken, none is.  This is about filters, scores and stable sorts agreeing with one
\* another (fileparse/match.go:83, indexer/filter.go:172).
BestPicked ==
  LET eligible == {r \in rcSearch.suits : Admitted(r)} IN
  rcPick.done =>
    /\ rcPick.taken \subseteq eligible
    /\ rcPick.taken = {} => eligible = {}
    /\ \A p \in rcPick.taken, r \in eligible : ~PreferredTo(r, p)
=============================================================================
